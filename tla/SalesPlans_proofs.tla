-------------------------- MODULE SalesPlans_proofs --------------------------
(***************************************************************************)
(* The two caps of the action policies, for any number of leads, salesmen, *)
(* requests and policies.                                                  *)
(*                                                                         *)
(* CapacityHolds and LimitsHold are not inductive: what a request counted  *)
(* must still be true when it commits.  It is (RoomInv, LimitInv), as long *)
(* as two requests that add to the same count are both marked as raced     *)
(* (RacesNoted) and a request that counted has its lead locked (LockInv).  *)
(***************************************************************************)
EXTENDS SalesPlans, FiniteSetTheorems, TLAPS

Shape ==
    /\ policy \in [Codes -> [option : {NULL},
                             value : [enabled : BOOLEAN, max : [Planned -> Nat]]]]
    /\ lead \in [Leads -> Lead]
    /\ done \in [Plans -> Nat]
    /\ request \in [Web -> {Idle} \cup Request]
    /\ \A b \in Web : request[b].at = "counted" => request[b].stage = "FROZEN"
    /\ \A b \in Web : request[b] # Idle /\ request[b].planner # {}
                         => request[b].stage \in Planned

Checked(b) == request[b].at = "checked"

LockInv ==
    /\ \A b, c \in Web : Checked(b) /\ Checked(c) /\ request[b].lead = request[c].lead
                             => b = c
    /\ \A b \in Web : Checked(b) => request[b].owner = lead[request[b].lead].owner

RacesNoted ==
    \A b, c \in Web : b # c /\ Races(request[b], request[c]) => request[b].raced

RoomInv ==
    \A b \in Web : Checked(b) /\ ~Loose(request[b])
                       => HasRoom(request[b].lead, request[b].stage)

\* What x counted before it plans is below the limit.
Counted(x) ==
    ~Loose(x) /\ x.counted =>
        \A s \in x.planner : Limit(x.stage) > 0 => done[<<x.lead, s, x.stage>>] < Limit(x.stage)

LimitInv == \A b \in Web : request[b] # Idle => Counted(request[b])

Inv == Shape /\ LockInv /\ RacesNoted /\ RoomInv /\ LimitInv
       /\ CapacityHolds /\ LimitsHold

-----------------------------------------------------------------------------
(***************************************************************************)
(* Operators.                                                              *)
(***************************************************************************)

LEMMA CapsAreNumbers ==
    ASSUME Shape, PlanInputs, NEW k \in Planned
    PROVE  Limit(k) \in Nat /\ Capacity(k) \in Nat
BY DEF Shape, PlanInputs, Limit, Capacity, MaxOf, Enabled

LEMMA ParsedIs ==
    ASSUME PlanInputs, NEW c \in Codes, NEW post \in Posts[c] \cup {First[c]}
    PROVE  Parsed(Type[c], post)
             \in [option : {NULL}, value : [enabled : BOOLEAN, max : [Planned -> Nat]]]
<1>1. post \in [enabled : BOOLEAN, max : [Planned -> Int]]
  BY DEF PlanInputs
<1>2. ParsePost(post) \in [enabled : BOOLEAN, max : [Planned -> Nat]]
  BY <1>1 DEF ParsePost, PlanInputs
<1>3. Parsed(Type[c], post) = Row(NULL, ParsePost(post))
  BY DEF Parsed, PlanInputs
<1> QED BY <1>2, <1>3 DEF Row

LEMMA HeldIsFinite ==
    ASSUME PlanInputs, NEW s, NEW k
    PROVE  IsFiniteSet(Held(s, k)) /\ Cardinality(Held(s, k)) \in Nat
BY FS_Subset, FS_CardinalityType DEF PlanInputs, Held

LEMMA PlannedPlans ==
    ASSUME NEW x \in Request, NEW s \in x.planner, x.stage \in Planned
    PROVE  <<x.lead, s, x.stage>> \in Plans
BY DEF Request, Plans

LEMMA PlannerIs ==
    ASSUME PlanInputs, NEW l \in Leads, NEW k \in Stages, NEW a \in Actors
    PROVE  /\ Planner(l, k, TRUE, a) \in SUBSET Salesmen
           /\ Planner(l, k, TRUE, a) # {} => k \in Planned
           /\ Planner(l, k, FALSE, a) \in SUBSET Salesmen
           /\ Planner(l, k, FALSE, a) # {} => k \in Planned
BY DEF Planner, Stages, PlanInputs

-----------------------------------------------------------------------------
(***************************************************************************)
(* A request that goes on: nothing else changes, and races are noted.      *)
(***************************************************************************)

\* y is z, or z after it was found to race.
Like(y, z) == y = z \/ (z \in Request /\ y = [z EXCEPT !.raced = TRUE])

LEMMA LikeIs ==
    ASSUME NEW z \in {Idle} \cup Request, NEW y, Like(y, z)
    PROVE  /\ y \in {Idle} \cup Request
           /\ y = Idle <=> z = Idle
           /\ y.at = z.at
           /\ z \in Request => /\ y \in Request
                               /\ y.lead = z.lead /\ y.stage = z.stage /\ y.counted = z.counted
                               /\ y.restricted = z.restricted /\ y.owner = z.owner
                               /\ z.raced => y.raced
                               /\ y.planner = z.planner
                               /\ ~Loose(y) => ~Loose(z)
<1>1. CASE y = z
  BY <1>1
<1>2. CASE z \in Request /\ y = [z EXCEPT !.raced = TRUE]
  <2>1. /\ y \in Request /\ y.at = z.at /\ y.raced
        /\ y.lead = z.lead /\ y.stage = z.stage /\ y.counted = z.counted
        /\ y.restricted = z.restricted /\ y.owner = z.owner
        /\ y.planner = z.planner
    BY <1>2 DEF Request
  <2>2. y # Idle /\ z # Idle
    BY <1>2, <2>1 DEF Request, Idle
  <2> QED BY <1>2, <2>1, <2>2 DEF Loose
<1> QED BY <1>1, <1>2 DEF Like

LEMMA RacesLike ==
    ASSUME NEW y, NEW z, NEW v \in {Idle} \cup Request, NEW w \in {Idle} \cup Request,
           Like(y, v), Like(z, w)
    PROVE  Races(y, z) <=> Races(v, w)
<1>1. CASE v = Idle \/ w = Idle
  BY <1>1, LikeIs DEF Races
<1>2. CASE v \in Request /\ w \in Request
  BY <1>2, LikeIs DEF Races
<1> QED BY <1>1, <1>2

LEMMA ProceedIs ==
    ASSUME Shape, RacesNoted, NEW b \in Web, NEW x \in Request, Proceed(b, x)
    PROVE  /\ request' \in [Web -> {Idle} \cup Request]
           /\ Like(request'[b], x)
           /\ \A c \in Web \ {b} : Like(request'[c], request[c])
           /\ RacesNoted'
           /\ UNCHANGED <<policy, lead, done, overfull, overdone>>
<1> DEFINE y(c) == IF c = b THEN x ELSE request[c]
           others(c) == IF c = b THEN {request[d] : d \in Web \ {b}} ELSE {x}
           met(c) == \E z \in others(c) : Races(y(c), z)
<1>1. request' = [c \in Web |-> IF met(c) THEN [y(c) EXCEPT !.raced = TRUE] ELSE y(c)]
  BY DEF Proceed
<1>2. \A c \in Web : y(c) \in {Idle} \cup Request
  BY DEF Shape
<1>3. \A c \in Web : met(c) => y(c) \in Request
  BY <1>2 DEF Races
<1>4. \A c \in Web : Like(request'[c], y(c))
  BY <1>1, <1>3 DEF Like
<1>5. request' \in [Web -> {Idle} \cup Request]
  BY <1>1, <1>2, <1>4, LikeIs
<1>6. RacesNoted'
  <2> SUFFICES ASSUME NEW c \in Web, NEW d \in Web, c # d,
                      Races(request'[c], request'[d])
               PROVE  request'[c].raced
    BY DEF RacesNoted
  <2>1. Races(y(c), y(d))
    BY <1>2, <1>4, RacesLike
  <2>2. y(c) \in Request
    BY <1>2, <2>1 DEF Races
  <2>3. CASE c = b \/ d = b
    <3>1. met(c)
      BY <2>1, <2>3
    <3> QED BY <1>1, <1>3, <2>2, <3>1 DEF Request
  <2>4. CASE c # b /\ d # b
    <3>1. request[c].raced
      BY <2>1, <2>4 DEF RacesNoted
    <3> QED BY <1>2, <1>4, <2>2, <2>4, <3>1, LikeIs
  <2> QED BY <2>3, <2>4
<1> QED BY <1>4, <1>5, <1>6 DEF Proceed

\* The request b goes on as x, which has counted what it is going to plan.
LEMMA ProceedInv ==
    ASSUME PlanInputs, Inv, NEW b \in Web, NEW x \in Request, Proceed(b, x), Counted(x),
           x.at = "counted" => x.stage = "FROZEN", x.planner # {} => x.stage \in Planned,
           x.at = "checked" => /\ ~Locked(x.lead) /\ x.owner = lead[x.lead].owner
                               /\ x.restricted => HasRoom(x.lead, x.stage)
    PROVE  Inv'
<1>1. /\ request' \in [Web -> {Idle} \cup Request]
      /\ Like(request'[b], x)
      /\ \A c \in Web \ {b} : Like(request'[c], request[c])
      /\ RacesNoted'
      /\ UNCHANGED <<policy, lead, done, overfull, overdone>>
  BY ProceedIs DEF Inv
<1> DEFINE y(c) == IF c = b THEN x ELSE request[c]
<1>2. \A c \in Web : y(c) \in {Idle} \cup Request /\ Like(request'[c], y(c))
  BY <1>1 DEF Inv, Shape
<1>3. \A c \in Web : request'[c].at = y(c).at
  BY <1>2, LikeIs
<1>4. \A c \in Web : y(c).at = "checked" => y(c) \in Request
  BY <1>2 DEF Idle
<1>5. Shape'
  <2>1. \A c \in Web : request'[c].at = "counted" => request'[c].stage = "FROZEN"
    <3> SUFFICES ASSUME NEW c \in Web, request'[c].at = "counted"
                 PROVE  request'[c].stage = "FROZEN"
      OBVIOUS
    <3>1. y(c) \in Request
      BY <1>2, <1>3 DEF Idle
    <3>2. y(c).stage = "FROZEN"
      BY <1>3 DEF Inv, Shape
    <3> QED BY <1>2, <3>1, <3>2, LikeIs
  <2>2. \A c \in Web : request'[c] # Idle /\ request'[c].planner # {}
                         => request'[c].stage \in Planned
    <3> SUFFICES ASSUME NEW c \in Web, request'[c] # Idle, request'[c].planner # {}
                 PROVE  request'[c].stage \in Planned
      OBVIOUS
    <3>1. y(c) # Idle /\ y(c) \in Request
      BY <1>2, LikeIs
    <3>2. y(c).planner # {} => y(c).stage \in Planned
      BY <3>1 DEF Inv, Shape
    <3> QED BY <1>2, <3>1, <3>2, LikeIs
  <2> QED BY <1>1, <2>1, <2>2 DEF Inv, Shape
<1>6. LockInv'
  <2>1. \A c \in Web : Checked(c)' => /\ request'[c].lead = y(c).lead
                                      /\ request'[c].owner = y(c).owner
                                      /\ y(c).at = "checked"
    BY <1>2, <1>3, <1>4, LikeIs DEF Checked
  <2>2. \A c \in Web : y(c).at = "checked" => y(c).owner = lead[y(c).lead].owner
    BY DEF Inv, LockInv, Checked
  <2>3. \A c, d \in Web : y(c).at = "checked" /\ y(d).at = "checked" /\ y(c).lead = y(d).lead
                             => c = d
    BY DEF Inv, LockInv, Checked, Locked
  <2> QED BY <1>1, <2>1, <2>2, <2>3 DEF LockInv
<1>7. RoomInv'
  <2> SUFFICES ASSUME NEW c \in Web, Checked(c)', ~Loose(request'[c])
               PROVE  HasRoom(request[c].lead, request[c].stage)'
    BY DEF RoomInv
  <2>1. y(c) \in Request /\ y(c).at = "checked"
    BY <1>3, <1>4 DEF Checked
  <2>2. /\ request'[c].lead = y(c).lead /\ request'[c].stage = y(c).stage
        /\ ~Loose(y(c))
    BY <1>2, <2>1, LikeIs
  <2>3. HasRoom(y(c).lead, y(c).stage)
    BY <2>1, <2>2 DEF Inv, RoomInv, Checked, Loose
  <2> QED BY <1>1, <2>2, <2>3 DEF HasRoom, Capped, Capacity, MaxOf, Enabled, Held
<1>8. LimitInv'
  <2> SUFFICES ASSUME NEW c \in Web, request'[c] # Idle
               PROVE  Counted(request[c])'
    BY DEF LimitInv
  <2>1. y(c) \in Request
    BY <1>2, LikeIs
  <2>2. Counted(y(c))
    BY <2>1 DEF Inv, LimitInv, Idle, Request
  <2>3. /\ request'[c].lead = y(c).lead /\ request'[c].stage = y(c).stage
        /\ request'[c].counted = y(c).counted /\ request'[c].planner = y(c).planner
        /\ ~Loose(request'[c]) => ~Loose(y(c))
    BY <1>2, <2>1, LikeIs
  <2> QED BY <1>1, <2>2, <2>3 DEF Counted, Limit, MaxOf, Enabled
<1>9. CapacityHolds' /\ LimitsHold'
  BY <1>1 DEF Inv, CapacityHolds, LimitsHold, Full, Capacity, Limit, MaxOf, Enabled, Held
<1> QED BY <1>1, <1>5, <1>6, <1>7, <1>8, <1>9 DEF Inv
-----------------------------------------------------------------------------
(***************************************************************************)
(* Requests.                                                               *)
(***************************************************************************)

LEMMA OwnerIs ==
    ASSUME Shape, NEW l \in Leads
    PROVE  lead[l].owner \in Salesmen \cup {NULL}
BY DEF Shape, Lead

\* Entering with x, which asks at once.
LEMMA EnterAsked ==
    ASSUME PlanInputs, Inv, NEW b \in Web, NEW x \in Request, Enter(b, x),
           x.at = "checked", x.owner = lead[x.lead].owner, Counted(x),
           x.planner # {} => x.stage \in Planned
    PROVE  Inv'
<1>1. [x EXCEPT !.at = "checked", !.owner = lead[x.lead].owner] = x
  BY DEF Request
<1> QED BY <1>1, ProceedInv DEF Enter

\* A limit that was counted for the one whose plan it will be.
LEMMA LimitCounted ==
    ASSUME PlanInputs, NEW x \in Request, x.stage \in Planned,
           x.counted => x.planner \subseteq {lead[x.lead].owner},
           x.restricted => WithinLimit(x.lead, x.stage)
    PROVE  Counted(x)
<1> SUFFICES ASSUME x.restricted, x.counted, NEW s \in x.planner, Limit(x.stage) > 0
             PROVE  done[<<x.lead, s, x.stage>>] < Limit(x.stage)
  BY DEF Counted, Loose
<1>1. s = lead[x.lead].owner /\ s # NULL
  BY DEF Request, PlanInputs
<1> QED BY <1>1 DEF WithinLimit

LEMMA ScheduleInv ==
    ASSUME PlanInputs, Inv, NEW b \in Web, NEW l \in Leads, NEW a \in Actors,
           NEW k \in Planned, Schedule(b, l, k, a)
    PROVE  Inv'
<1>1. PICK x \in Request :
          /\ Enter(b, x) /\ x.at = "checked" /\ x.lead = l /\ x.stage = k
          /\ x.owner = lead[l].owner
          /\ x.counted => x.planner \subseteq {lead[l].owner}
          /\ x.restricted => WithinLimit(l, k)
  <2> DEFINE x == Asked("checked", l, k, TRUE, a)
  <2>1. PICK planner \in SUBSET Salesmen : planner = Planner(l, k, TRUE, a)
    BY PlannerIs DEF Stages
  <2>2. /\ x \in Request /\ x.at = "checked" /\ x.lead = l /\ x.stage = k
        /\ x.owner = lead[l].owner
        /\ x.counted => x.planner \subseteq {lead[l].owner}
    BY <2>1, OwnerIs DEF Inv, Asked, Request, Restricted, Stages
  <2>3. Enter(b, x) /\ (x.restricted => WithinLimit(l, k))
    BY DEF Schedule, Asked, Restricted
  <2> QED BY <2>2, <2>3
<1>2. Counted(x)
  BY <1>1, LimitCounted
<1> QED BY <1>1, <1>2, EnterAsked

LEMMA MoveInv ==
    ASSUME PlanInputs, Inv, NEW b \in Web, NEW l \in Leads, NEW a \in Actors,
           NEW k \in Stages, Move(b, l, k, a)
    PROVE  Inv'
<1>1. PICK x \in Request :
          /\ Enter(b, x) /\ x.at = "checked" /\ x.lead = l /\ x.stage = k
          /\ x.owner = lead[l].owner /\ ~x.counted
          /\ x.planner # {} => k \in Planned
  <2> DEFINE x == Asked("checked", l, k, FALSE, a)
  <2>1. PICK planner \in SUBSET Salesmen :
            planner = Planner(l, k, FALSE, a) /\ (planner # {} => k \in Planned)
    BY PlannerIs
  <2>2. /\ x \in Request /\ x.at = "checked" /\ x.lead = l /\ x.stage = k
        /\ x.owner = lead[l].owner /\ ~x.counted
        /\ x.planner # {} => k \in Planned
    BY <2>1, OwnerIs DEF Inv, Asked, Request, Restricted
  <2>3. Enter(b, x)
    BY DEF Move
  <2> QED BY <2>2, <2>3
<1>2. Counted(x)
  BY <1>1 DEF Counted
<1> QED BY <1>1, <1>2, EnterAsked

LEMMA CountFreezesInv ==
    ASSUME PlanInputs, Inv, NEW b \in Web, NEW l \in Leads, NEW a \in Actors,
           CountFreezes(b, l, a)
    PROVE  Inv'
<1>1. "FROZEN" \in Planned /\ "FROZEN" \in Stages
  BY DEF CountFreezes, Stages
<1>2. PICK x \in Request :
          /\ Proceed(b, x) /\ x.at = "counted" /\ x.lead = l /\ x.stage = "FROZEN"
          /\ x.counted => x.planner \subseteq {lead[l].owner}
          /\ x.restricted => WithinLimit(l, "FROZEN")
  <2> DEFINE x == Asked("counted", l, "FROZEN", TRUE, a)
  <2>1. PICK planner \in SUBSET Salesmen : planner = Planner(l, "FROZEN", TRUE, a)
    BY <1>1, PlannerIs
  <2>2. /\ x \in Request /\ x.at = "counted" /\ x.lead = l /\ x.stage = "FROZEN"
        /\ x.counted => x.planner \subseteq {lead[l].owner}
    BY <1>1, <2>1, OwnerIs DEF Inv, Asked, Request, Restricted
  <2>3. Proceed(b, x) /\ (x.restricted => WithinLimit(l, "FROZEN"))
    BY DEF CountFreezes, Asked, Restricted
  <2> QED BY <2>2, <2>3
<1>3. Counted(x)
  BY <1>1, <1>2, LimitCounted
<1>4. x.at # "checked"
  BY <1>2
<1> QED BY <1>1, <1>2, <1>3, <1>4, ProceedInv

LEMMA FreezeInv ==
    ASSUME PlanInputs, Inv, NEW b \in Web, Freeze(b)
    PROVE  Inv'
<1> DEFINE l == request[b].lead
           x == [request[b] EXCEPT !.at = "checked", !.owner = lead[l].owner]
<1>1. /\ request[b] \in Request /\ request[b].stage = "FROZEN" /\ Counted(request[b])
      /\ request[b].planner # {} => "FROZEN" \in Planned
  BY DEF Freeze, Inv, Shape, LimitInv, Idle, Request
<1>2. l \in Leads /\ lead[l].owner \in Salesmen \cup {NULL}
  BY <1>1 DEF Inv, Shape, Request, Lead
<1>3. /\ x \in Request /\ x.at = "checked" /\ x.lead = l /\ x.stage = "FROZEN"
      /\ x.restricted = request[b].restricted /\ x.raced = request[b].raced
      /\ x.counted = request[b].counted /\ x.planner = request[b].planner
      /\ x.owner = lead[l].owner
  BY <1>1, <1>2 DEF Request
<1>4. /\ ~Locked(x.lead) /\ Proceed(b, x)
      /\ x.restricted => HasRoom(x.lead, x.stage)
  BY <1>1, <1>3 DEF Freeze, Enter
<1> HIDE DEF x
<1>5. Counted(x)
  BY <1>1, <1>3 DEF Counted, Loose
<1> QED BY <1>1, <1>3, <1>4, <1>5, ProceedInv

\* A request ends, having written nothing.
LEMMA FailInv ==
    ASSUME PlanInputs, Inv, NEW b \in Web, Fail(b)
    PROVE  Inv'
<1>1. /\ request' = [request EXCEPT ![b] = Idle]
      /\ UNCHANGED <<policy, lead, done, overfull, overdone>>
  BY DEF Fail
<1>2. /\ request'[b] = Idle /\ \A c \in Web \ {b} : request'[c] = request[c]
      /\ request' \in [Web -> {Idle} \cup Request]
  BY <1>1 DEF Inv, Shape
<1>3. Idle.at # "counted" /\ Idle.at # "checked"
  BY DEF Idle
<1>4. Shape' /\ LockInv'
  BY <1>1, <1>2, <1>3 DEF Inv, Shape, LockInv, Checked
<1>5. RacesNoted'
  BY <1>2 DEF Inv, RacesNoted, Races
<1>6. RoomInv' /\ LimitInv'
  BY <1>1, <1>2, <1>3 DEF Inv, RoomInv, LimitInv, Counted, Checked, HasRoom, Capped,
     Capacity, Limit, MaxOf, Enabled, Held
<1>7. CapacityHolds' /\ LimitsHold'
  BY <1>1 DEF Inv, CapacityHolds, LimitsHold, Full, Capacity, Limit, MaxOf, Enabled, Held
<1> QED BY <1>4, <1>5, <1>6, <1>7 DEF Inv

-----------------------------------------------------------------------------
(***************************************************************************)
(* What moves a lead.                                                      *)
(***************************************************************************)

LEMMA RoomStays ==
    ASSUME PlanInputs, Shape, policy' = policy, NEW m \in Leads, NEW k,
           HasRoom(m, k), lead'[m] = lead[m], lead[m].owner \in Salesmen \cup {NULL},
           lead[m].owner # NULL /\ k \in Planned
              => Held(lead[m].owner, k)' \ {m} \subseteq Held(lead[m].owner, k) \ {m}
    PROVE  HasRoom(m, k)'
<1> DEFINE s == lead[m].owner
           New == Held(lead[m].owner, k)' \ {m}
           Old == Held(lead[m].owner, k) \ {m}
<1>1. \A p \in Planned : Capacity(p)' = Capacity(p)
  BY DEF Capacity, MaxOf, Enabled
<1>2. SUFFICES ASSUME Capped(m, k)' PROVE Cardinality(New) < Capacity(k)
  <2>1. HasRoom(m, k)' <=> (Capped(m, k)' => Cardinality(New) < Capacity(k)')
    BY DEF HasRoom
  <2>2. Capped(m, k)' => k \in Planned
    BY DEF Capped
  <2> QED BY <1>1, <1>2, <2>1, <2>2
<1>3. Capped(m, k) /\ s # NULL /\ k \in Planned
  BY <1>1, <1>2 DEF Capped
<1>4. IsFiniteSet(Old) /\ Cardinality(Old) < Capacity(k)
  BY <1>3, HeldIsFinite, FS_Difference DEF HasRoom
<1>5. IsFiniteSet(New) /\ Cardinality(New) <= Cardinality(Old)
  BY <1>3, <1>4, FS_Subset
<1>6. Cardinality(New) \in Nat /\ Cardinality(Old) \in Nat
  BY <1>4, <1>5, FS_CardinalityType
<1>7. Capacity(k) \in Nat
  BY <1>3, CapsAreNumbers
<1> QED BY <1>4, <1>5, <1>6, <1>7

\* A lead that no request has locked gets a new owner or a new activity, and
\* starts Fresh or stays where it is without being active.
LEMMA MovedInv ==
    ASSUME PlanInputs, Inv, NEW l \in Leads, ~Locked(l), NEW r \in Lead,
           lead' = [lead EXCEPT ![l] = r],
           r.stage = "FRESH" \/ ~r.active,
           UNCHANGED <<policy, done, request>>, Excuse({}, {})
    PROVE  Inv'
<1>1. lead'[l] = r /\ (\A m \in Leads \ {l} : lead'[m] = lead[m]) /\ lead' \in [Leads -> Lead]
  BY DEF Inv, Shape
<1>2. Shape' /\ RacesNoted'
  BY <1>1 DEF Inv, Shape, RacesNoted
<1>3. \A b \in Web : Checked(b) => request[b] \in Request /\ request[b].lead \in Leads \ {l}
  BY DEF Inv, Shape, Checked, Locked, Idle, Request
<1>4. LockInv'
  BY <1>1, <1>3 DEF Inv, LockInv, Checked
<1>5. \A s, k : k \in Planned => Held(s, k)' \subseteq Held(s, k)
  BY <1>1 DEF Held, PlanInputs
<1>6. RoomInv'
  <2> SUFFICES ASSUME NEW b \in Web, Checked(b), ~Loose(request[b])
               PROVE  HasRoom(request[b].lead, request[b].stage)'
    BY DEF RoomInv, Checked, Loose
  <2>1. PICK m \in Leads \ {l}, k \in Stages : m = request[b].lead /\ k = request[b].stage
    BY <1>3 DEF Request
  <2>2. HasRoom(m, k) /\ lead[m].owner \in Salesmen \cup {NULL}
    BY <2>1 DEF Inv, RoomInv, Shape, Lead
  <2>3. lead'[m] = lead[m]
    BY <1>1
  <2>4. k \in Planned => Held(lead[m].owner, k)' \ {m} \subseteq Held(lead[m].owner, k) \ {m}
    BY <1>5, <2>3
  <2>5. HasRoom(m, k)'
    BY <2>2, <2>3, <2>4, RoomStays DEF Inv
  <2> QED BY <2>1, <2>5
<1>7. LimitInv' /\ LimitsHold'
  BY DEF Inv, LimitInv, LimitsHold, Counted, Loose, Limit, MaxOf, Enabled, Excuse
<1>8. Full' \subseteq Full
  <2> SUFFICES ASSUME NEW s \in Salesmen, NEW k \in Planned,
                      Capacity(k) > 0, Cardinality(Held(s, k)') > Capacity(k)
               PROVE  Cardinality(Held(s, k)) > Capacity(k)
    BY DEF Full, Capacity, MaxOf, Enabled
  <2>1. /\ IsFiniteSet(Held(s, k)) /\ Cardinality(Held(s, k)) \in Nat
        /\ Held(s, k)' \subseteq Held(s, k) /\ Capacity(k) \in Nat
    BY <1>5, HeldIsFinite, CapsAreNumbers DEF Inv
  <2>2. /\ IsFiniteSet(Held(s, k)')
        /\ Cardinality(Held(s, k)') <= Cardinality(Held(s, k))
    BY <2>1, FS_Subset
  <2>3. Cardinality(Held(s, k)') \in Nat
    BY <2>2, FS_CardinalityType
  <2> QED BY <2>1, <2>2, <2>3
<1>9. CapacityHolds'
  BY <1>8 DEF Inv, CapacityHolds, Excuse
<1> QED BY <1>2, <1>4, <1>6, <1>7, <1>9 DEF Inv

LEMMA AssignInv ==
    ASSUME PlanInputs, Inv, NEW l \in Leads, NEW s \in Salesmen \cup {NULL}, Assign(l, s)
    PROVE  Inv'
<1> DEFINE r == [lead[l] EXCEPT !.owner = s, !.stage = "FRESH"]
<1>1. lead[l] \in Lead
  BY DEF Inv, Shape
<1>2. r \in Lead /\ r.stage = "FRESH"
  BY <1>1 DEF Lead, Stages
<1>3. lead' = [lead EXCEPT ![l] = r]
  BY DEF Assign, Inv, Shape
<1> HIDE DEF r
<1> QED BY <1>2, <1>3, MovedInv DEF Assign

LEMMA SetActiveInv ==
    ASSUME PlanInputs, Inv, NEW l \in Leads, NEW active \in BOOLEAN, SetActive(l, active)
    PROVE  Inv'
<1> DEFINE r == [lead[l] EXCEPT !.active = active,
                                !.stage = IF active THEN "FRESH" ELSE @]
<1>1. lead[l] \in Lead
  BY DEF Inv, Shape
<1>2. r \in Lead /\ (r.stage = "FRESH" \/ ~r.active)
  BY <1>1 DEF Lead, Stages
<1>3. lead' = [lead EXCEPT ![l] = r]
  BY DEF SetActive
<1> HIDE DEF r
<1> QED BY <1>2, <1>3, MovedInv DEF SetActive

-----------------------------------------------------------------------------
(***************************************************************************)
(* A commit.                                                               *)
(***************************************************************************)

\* Only the lead itself may enter a stage, the one that was asked for, and only
\* if it was active in another.
LEMMA CommitIs ==
    ASSUME PlanInputs, Inv, NEW b \in Web, NEW x, x = request[b], Commit(b)
    PROVE  /\ x \in Request /\ Checked(b) /\ x.owner = lead[x.lead].owner
           /\ x.lead \in Leads
           /\ lead' \in [Leads -> Lead]
           /\ \A m \in Leads \ {x.lead} : lead'[m] = lead[m]
           /\ lead'[x.lead].owner = x.owner /\ lead'[x.lead].stage = x.stage
           /\ lead'[x.lead].active => lead[x.lead].active
<1>1. x \in Request /\ Checked(b)
  BY DEF Commit, Inv, Shape, Checked, Idle
<1>2. x.lead \in Leads /\ x.stage \in Stages
  BY <1>1 DEF Request
<1>3. x.owner = lead[x.lead].owner
  BY <1>1 DEF Inv, LockInv
<1>4. PICK r : r = [lead[x.lead] EXCEPT !.stage = x.stage,
                                        !.active = @ /\ x.stage # "NOT_INTERESTED"]
  OBVIOUS
<1>5. lead[x.lead] \in Lead
  BY <1>2 DEF Inv, Shape
<1>6. /\ r \in Lead /\ r.owner = x.owner /\ r.stage = x.stage
      /\ r.active => lead[x.lead].active
  BY <1>2, <1>3, <1>4, <1>5 DEF Lead
<1>7. lead' = [lead EXCEPT ![x.lead] = r]
  BY <1>2, <1>4 DEF Commit, Inv, Shape
<1>8. lead \in [Leads -> Lead]
  BY DEF Inv, Shape
<1> QED BY <1>1, <1>2, <1>3, <1>6, <1>7, <1>8

LEMMA CommitHolds ==
    ASSUME PlanInputs, Inv, NEW b \in Web, NEW x, x = request[b], Commit(b),
           NEW s, NEW k
    PROVE  \/ Held(s, k)' \subseteq Held(s, k)
           \/ /\ Held(s, k)' \subseteq Held(s, k) \cup {x.lead}
              /\ s = x.owner /\ k = x.stage
              /\ lead[x.lead].stage # k
BY CommitIs DEF Held

\* What x adds to, no request that goes on has counted without racing with x.
LEMMA CommitRoom ==
    ASSUME PlanInputs, Inv, NEW b \in Web, NEW x, x = request[b], Commit(b)
    PROVE  \A c \in Web \ {b} :
               Checked(c) /\ ~Loose(request[c]) => HasRoom(request[c].lead, request[c].stage)'
<1> SUFFICES ASSUME NEW c \in Web \ {b}, Checked(c), ~Loose(request[c]),
                    NEW y, y = request[c], request'[c] = y
             PROVE  HasRoom(request[c].lead, request[c].stage)'
  BY DEF Commit, Inv, Shape
<1>1. x \in Request /\ Checked(b) /\ x.owner = lead[x.lead].owner
  BY CommitIs
<1>2. y \in Request
  BY DEF Inv, Shape, Checked, Idle
<1>3. y.lead \in Leads \ {x.lead} /\ y.owner = lead[y.lead].owner
  BY <1>1, <1>2 DEF Inv, LockInv, Request
<1>4. ~Races(y, x)
  BY DEF Inv, RacesNoted, Loose
<1>5. ~(y.stage = x.stage /\ y.owner = x.owner)
  BY <1>1, <1>2, <1>4 DEF Races, Checked, Idle, Request
<1>6. PICK m \in Leads, k \in Stages : m = y.lead /\ k = y.stage
  BY <1>2 DEF Request
<1>7. HasRoom(m, k) /\ lead[m].owner \in Salesmen \cup {NULL}
  BY <1>6, OwnerIs DEF Inv, RoomInv
<1>8. lead'[m] = lead[m]
  BY <1>3, <1>6, CommitIs
<1>9. Held(lead[m].owner, k)' \subseteq Held(lead[m].owner, k)
  <2>1. PICK s : s = lead[m].owner
    OBVIOUS
  <2>2. Held(s, k)' \subseteq Held(s, k)
    BY <1>3, <1>5, <1>6, <2>1, CommitHolds
  <2> QED BY <1>8, <2>1, <2>2 DEF Held
<1>10. HasRoom(m, k)'
  BY <1>7, <1>8, <1>9, RoomStays DEF Inv, Commit
<1> QED BY <1>6, <1>10

LEMMA CommitCounted ==
    ASSUME PlanInputs, Inv, NEW b \in Web, NEW x, x = request[b], Commit(b)
    PROVE  \A c \in Web \ {b} : request[c] # Idle => Counted(request[c])'
<1> SUFFICES ASSUME NEW c \in Web \ {b}, request[c] # Idle, request'[c] = request[c],
                    NEW y, y = request[c]
             PROVE  Counted(request[c])'
  BY DEF Commit, Inv, Shape
<1>1. x \in Request /\ y \in Request
  BY CommitIs DEF Inv, Shape
<1>2. Counted(y)
  BY DEF Inv, LimitInv
<1>3. policy' = policy
  BY DEF Commit
<1> SUFFICES ASSUME ~Loose(y), y.counted, NEW s \in y.planner, Limit(y.stage) > 0
             PROVE  done'[<<y.lead, s, y.stage>>] < Limit(y.stage)
  BY <1>3 DEF Counted, Limit, MaxOf, Enabled
<1>4. done[<<y.lead, s, y.stage>>] < Limit(y.stage)
  BY <1>2 DEF Counted
<1>5. ~Races(y, x)
  BY DEF Inv, RacesNoted, Loose
<1>6. ~(y.stage = x.stage /\ y.lead = x.lead /\ s \in x.planner)
  BY <1>1, <1>5 DEF Races, Idle, Request
<1> DEFINE planned == {<<x.lead, t, x.stage>> : t \in x.planner}
<1>7. done' = [p \in DOMAIN done |-> IF p \in planned THEN done[p] + 1 ELSE done[p]]
  BY DEF Commit
<1>8. <<y.lead, s, y.stage>> \notin planned
  BY <1>6
<1>9. <<y.lead, s, y.stage>> \in DOMAIN done
  BY <1>1, PlannedPlans DEF Inv, Shape
<1> HIDE DEF planned
<1> QED BY <1>4, <1>7, <1>8, <1>9

LEMMA FullNext ==
    ASSUME policy' = policy, NEW e \in Full'
    PROVE  \E s \in Salesmen, k \in Planned :
               /\ e = <<s, k>> /\ Capacity(k) > 0
               /\ Cardinality(Held(s, k)') > Capacity(k)
<1>1. e \in Salesmen \X Planned
  BY Zenon DEF Full
<1>2. PICK s \in Salesmen, k \in Planned : e[1] = s /\ e[2] = k /\ e = <<s, k>>
  BY <1>1
<1>3. Capacity(e[2])' > 0 /\ Cardinality(Held(e[1], e[2])') > Capacity(e[2])'
  BY Zenon DEF Full
<1>4. Capacity(k)' > 0 /\ Cardinality(Held(s, k)') > Capacity(k)'
  BY <1>2, <1>3, Zenon
<1>5. Capacity(k)' = Capacity(k)
  BY DEF Capacity, MaxOf, Enabled
<1> QED BY <1>2, <1>4, <1>5

LEMMA CommitFull ==
    ASSUME PlanInputs, Inv, NEW b \in Web, NEW x, x = request[b], Commit(b)
    PROVE  CapacityHolds'
<1>1. policy' = policy
  BY DEF Commit
<1>2. SUFFICES ASSUME NEW s \in Salesmen, NEW k \in Planned, Capacity(k) > 0,
                      Cardinality(Held(s, k)') > Capacity(k)
               PROVE  <<s, k>> \in overfull \/ (Loose(x) /\ s = x.owner /\ k = x.stage)
  <2>1. \A e \in Full' : e \in overfull \cup IF Loose(x) THEN {<<x.owner, x.stage>>} ELSE {}
    <3> TAKE e \in Full'
    <3>1. PICK s \in Salesmen, k \in Planned :
              /\ e = <<s, k>> /\ Capacity(k) > 0
              /\ Cardinality(Held(s, k)') > Capacity(k)
      BY <1>1, FullNext
    <3> QED BY <1>2, <3>1
  <2> QED BY <2>1 DEF CapacityHolds, Commit, Excuse
<1>3. /\ IsFiniteSet(Held(s, k)) /\ Cardinality(Held(s, k)) \in Nat /\ Capacity(k) \in Nat
  BY HeldIsFinite, CapsAreNumbers DEF Inv
<1>4. CASE Held(s, k)' \subseteq Held(s, k)
  <2>1. /\ IsFiniteSet(Held(s, k)')
        /\ Cardinality(Held(s, k)') <= Cardinality(Held(s, k))
    BY <1>3, <1>4, FS_Subset
  <2>2. Cardinality(Held(s, k)') \in Nat
    BY <2>1, FS_CardinalityType
  <2>3. Cardinality(Held(s, k)) > Capacity(k)
    BY <1>2, <1>3, <2>1, <2>2
  <2> QED BY <1>2, <2>3 DEF Inv, CapacityHolds, Full
<1>5. CASE /\ Held(s, k)' \subseteq Held(s, k) \cup {x.lead}
           /\ s = x.owner /\ k = x.stage
           /\ lead[x.lead].stage # k
  <2>1. SUFFICES ASSUME ~Loose(x) PROVE FALSE
    BY <1>5
  <2>2. /\ HasRoom(x.lead, k) /\ lead[x.lead].owner = s
        /\ s # NULL
    BY <1>5, <2>1, CommitIs DEF Inv, RoomInv, PlanInputs
  <2> DEFINE Rest == Held(s, k) \ {x.lead}
  <2>3. Cardinality(Rest) < Capacity(k)
    BY <1>2, <1>5, <2>2 DEF HasRoom, Capped
  <2>4. IsFiniteSet(Rest) /\ x.lead \notin Rest
    BY <1>3, FS_Difference
  <2>5. Held(s, k)' \subseteq Rest \cup {x.lead}
    BY <1>5
  <2> HIDE DEF Rest
  <2>6. /\ IsFiniteSet(Rest \cup {x.lead})
        /\ Cardinality(Rest \cup {x.lead}) = Cardinality(Rest) + 1
    BY <2>4, FS_AddElement
  <2>7. /\ IsFiniteSet(Held(s, k)')
        /\ Cardinality(Held(s, k)') <= Cardinality(Rest \cup {x.lead})
    BY <2>5, <2>6, FS_Subset
  <2>8. Cardinality(Rest) \in Nat /\ Cardinality(Held(s, k)') \in Nat
    BY <2>4, <2>7, FS_CardinalityType
  <2> QED BY <1>2, <1>3, <2>3, <2>6, <2>7, <2>8
<1> QED BY <1>4, <1>5, CommitHolds

LEMMA CommitLimits ==
    ASSUME PlanInputs, Inv, NEW b \in Web, NEW x, x = request[b], Commit(b)
    PROVE  done' \in [Plans -> Nat] /\ LimitsHold'
<1>1. x \in Request
  BY CommitIs
<1> DEFINE planned == {<<x.lead, t, x.stage>> : t \in x.planner}
<1>2. /\ done' = [p \in DOMAIN done |-> IF p \in planned THEN done[p] + 1 ELSE done[p]]
      /\ policy' = policy /\ overdone \subseteq overdone'
      /\ (\E p \in planned : /\ Loose(x) \/ ~x.counted
                             /\ Limit(p[3]) > 0 /\ done[p] >= Limit(p[3]))
           => planned \subseteq overdone'
  BY DEF Commit, Excuse
<1>3. \A p \in planned : p = <<x.lead, p[2], x.stage>> /\ p[2] \in x.planner
  OBVIOUS
<1> HIDE DEF planned
<1>4. done \in [Plans -> Nat]
  BY DEF Inv, Shape
<1>5. done' \in [Plans -> Nat]
  BY <1>2, <1>4
<1>6. LimitsHold'
  <2> SUFFICES ASSUME NEW l \in Leads, NEW s \in Salesmen, NEW k \in Planned,
                      NEW p, p = <<l, s, k>>,
                      Limit(k) > 0, p \notin overdone'
               PROVE  done'[p] <= Limit(k)
    BY <1>2 DEF LimitsHold, Limit, MaxOf, Enabled
  <2>1. p \in Plans /\ done[p] \in Nat /\ Limit(k) \in Nat
    BY <1>4, CapsAreNumbers DEF Plans, Inv
  <2>2. CASE p \notin planned
    <3>1. done[p] <= Limit(k)
      BY <1>2 DEF Inv, LimitsHold
    <3> QED BY <1>2, <1>4, <2>1, <2>2, <3>1
  <2>3. CASE p \in planned
    <3>1. l = x.lead /\ s \in x.planner /\ k = x.stage /\ p[3] = k
      BY <1>3, <2>3
    <3>2. done[p] < Limit(k)
      <4>1. CASE Loose(x) \/ ~x.counted
        BY <1>2, <2>1, <2>3, <3>1, <4>1
      <4>2. CASE ~Loose(x) /\ x.counted
        <5>1. Counted(x)
          BY <1>1 DEF Inv, LimitInv, Idle, Request
        <5> QED BY <3>1, <4>2, <5>1 DEF Counted
      <4> QED BY <4>1, <4>2
    <3> QED BY <1>2, <1>4, <2>1, <2>3, <3>2
  <2> QED BY <2>2, <2>3
<1> QED BY <1>5, <1>6

LEMMA CommitInv ==
    ASSUME PlanInputs, Inv, NEW b \in Web, Commit(b)
    PROVE  Inv'
<1>1. PICK x : x = request[b]
  OBVIOUS
<1>2. /\ request' = [request EXCEPT ![b] = Idle] /\ policy' = policy
      /\ request'[b] = Idle /\ \A c \in Web \ {b} : request'[c] = request[c]
      /\ request' \in [Web -> {Idle} \cup Request]
  BY DEF Commit, Inv, Shape
<1>3. Idle.at # "counted" /\ Idle.at # "checked"
  BY DEF Idle
<1>4. Shape'
  BY <1>1, <1>2, <1>3, CommitIs, CommitLimits DEF Inv, Shape
<1>5. LockInv'
  <2>1. \A c \in Web : Checked(c)' => /\ Checked(c) /\ request'[c] = request[c]
                                      /\ request[c] \in Request
    BY <1>2, <1>3 DEF Checked, Inv, Shape
  <2>2. \A c \in Web : Checked(c)' => lead'[request[c].lead].owner = lead[request[c].lead].owner
    BY <1>1, <2>1, CommitIs DEF Request
  <2> QED BY <2>1, <2>2 DEF Inv, LockInv
<1>6. RacesNoted'
  BY <1>2 DEF Inv, RacesNoted, Races
<1>7. RoomInv'
  <2>1. \A c \in Web : Checked(c)' => c # b /\ Checked(c) /\ request'[c] = request[c]
    BY <1>2, <1>3 DEF Checked
  <2>2. \A c \in Web \ {b} :
           Checked(c) /\ ~Loose(request[c]) => HasRoom(request[c].lead, request[c].stage)'
    BY <1>1, CommitRoom
  <2> QED BY <2>1, <2>2 DEF RoomInv, Loose
<1>8. LimitInv'
  BY <1>1, <1>2, CommitCounted DEF LimitInv
<1>9. CapacityHolds' /\ LimitsHold'
  BY <1>1, CommitFull, CommitLimits
<1> QED BY <1>4, <1>5, <1>6, <1>7, <1>8, <1>9 DEF Inv

-----------------------------------------------------------------------------
(***************************************************************************)
(* A change of a policy.                                                   *)
(***************************************************************************)

\* Either every request that is under way is marked, or no maximum of the
\* policy counts any more.
LEMMA ChangeIs ==
    ASSUME PlanInputs, Shape, NEW c \in Codes, NEW post \in Posts[c], ChangePolicy(c, post)
    PROVE  /\ policy' \in [Codes -> [option : {NULL},
                                     value : [enabled : BOOLEAN, max : [Planned -> Nat]]]]
           /\ request' \in [Web -> {Idle} \cup Request]
           /\ \A b \in Web : Like(request'[b], request[b])
           /\ \/ \A b \in Web : request[b] # Idle => Loose(request'[b])
              \/ \A k \in Planned : /\ (Limit(k)' = Limit(k)) \/ (Limit(k)' = 0)
                                    /\ (Capacity(k)' = Capacity(k)) \/ (Capacity(k)' = 0)
<1>1. PICK row : row = Parsed(Type[c], post)
  OBVIOUS
<1>2. row \in [option : {NULL}, value : [enabled : BOOLEAN, max : [Planned -> Nat]]]
  BY <1>1, ParsedIs
<1>3. policy' = [policy EXCEPT ![c] = row]
  BY <1>1 DEF ChangePolicy, SetPolicy
<1>4. policy' \in [Codes -> [option : {NULL},
                            value : [enabled : BOOLEAN, max : [Planned -> Nat]]]]
  BY <1>2, <1>3 DEF Shape
<1>5. request' = [b \in Web |-> IF Enabled(c)' /\ request[b] # Idle
                               THEN [request[b] EXCEPT !.raced = TRUE] ELSE request[b]]
  BY DEF ChangePolicy
<1>6. \A b \in Web : Like(request'[b], request[b])
  BY <1>5 DEF Shape, Like
<1>7. request' \in [Web -> {Idle} \cup Request]
  BY <1>5, <1>6, LikeIs DEF Shape
<1>8. CASE Enabled(c)'
  <2>1. \A b \in Web : request[b] # Idle => request'[b].raced
    BY <1>5, <1>8 DEF Shape, Request
  <2> QED BY <1>4, <1>6, <1>7, <2>1 DEF Loose
<1>9. CASE ~Enabled(c)'
  <2>1. \A d \in Codes \ {c} : policy'[d] = policy[d]
    BY <1>3 DEF Shape
  <2>2. \A k \in Planned, d \in Codes : (MaxOf(d, k)' = MaxOf(d, k)) \/ (MaxOf(d, k)' = 0)
    BY <1>9, <2>1 DEF MaxOf, Enabled
  <2>3. \A k \in Planned : /\ (Limit(k)' = Limit(k)) \/ (Limit(k)' = 0)
                           /\ (Capacity(k)' = Capacity(k)) \/ (Capacity(k)' = 0)
    BY <2>2 DEF PlanInputs, Limit, Capacity
  <2> QED BY <1>4, <1>6, <1>7, <2>3
<1> QED BY <1>8, <1>9

LEMMA ChangePolicyInv ==
    ASSUME PlanInputs, Inv, NEW c \in Codes, NEW post \in Posts[c], ChangePolicy(c, post)
    PROVE  Inv'
<1>1. UNCHANGED <<lead, done>>
  BY DEF ChangePolicy
<1>2. Shape'
  <2>1. \A b \in Web : request'[b].at = "counted" => request'[b].stage = "FROZEN"
    <3> SUFFICES ASSUME NEW b \in Web, request'[b].at = "counted"
                 PROVE  request'[b].stage = "FROZEN"
      OBVIOUS
    <3>1. request[b].at = "counted" /\ Like(request'[b], request[b])
      BY ChangeIs, LikeIs DEF Inv, Shape
    <3>2. request[b] \in Request /\ request[b].stage = "FROZEN"
      BY <3>1 DEF Inv, Shape, Idle
    <3> QED BY <3>1, <3>2, LikeIs
  <2>2. \A b \in Web : request'[b] # Idle /\ request'[b].planner # {}
                         => request'[b].stage \in Planned
    <3> SUFFICES ASSUME NEW b \in Web, request'[b] # Idle, request'[b].planner # {}
                 PROVE  request'[b].stage \in Planned
      OBVIOUS
    <3>1. request[b] \in Request /\ request[b] # Idle /\ Like(request'[b], request[b])
      BY ChangeIs, LikeIs DEF Inv, Shape
    <3> QED BY <3>1, LikeIs DEF Inv, Shape
  <2> QED BY <1>1, <2>1, <2>2, ChangeIs DEF Inv, Shape
<1>3. \A b \in Web : Checked(b)' => /\ Checked(b) /\ request[b] \in Request
                                    /\ request'[b].lead = request[b].lead
                                    /\ request'[b].stage = request[b].stage
                                    /\ request'[b].owner = request[b].owner
                                    /\ ~Loose(request'[b]) => ~Loose(request[b])
  <2> SUFFICES ASSUME NEW b \in Web, request'[b].at = "checked"
               PROVE  /\ request[b].at = "checked" /\ request[b] \in Request
                      /\ request'[b].lead = request[b].lead
                      /\ request'[b].stage = request[b].stage
                      /\ request'[b].owner = request[b].owner
                      /\ ~Loose(request'[b]) => ~Loose(request[b])
    BY DEF Checked
  <2>1. request[b].at = "checked" /\ Like(request'[b], request[b])
    BY ChangeIs, LikeIs DEF Inv, Shape
  <2>2. request[b] \in Request
    BY <2>1 DEF Inv, Shape, Idle
  <2> QED BY <2>1, <2>2, LikeIs
<1>4. LockInv'
  BY <1>1, <1>3 DEF Inv, LockInv
<1>5. RacesNoted'
  <2> SUFFICES ASSUME NEW b \in Web, NEW d \in Web, b # d,
                      Races(request'[b], request'[d])
               PROVE  request'[b].raced
    BY DEF RacesNoted
  <2>1. /\ request[b] \in {Idle} \cup Request /\ request[d] \in {Idle} \cup Request
        /\ Like(request'[b], request[b]) /\ Like(request'[d], request[d])
    BY ChangeIs DEF Inv, Shape
  <2>2. Races(request[b], request[d])
    BY <2>1, RacesLike
  <2>3. request[b].raced /\ request[b] \in Request
    BY <2>1, <2>2 DEF Inv, RacesNoted, Races
  <2> QED BY <2>1, <2>3, LikeIs
<1>6. RoomInv'
  <2> SUFFICES ASSUME NEW b \in Web, Checked(b)', ~Loose(request'[b])
               PROVE  HasRoom(request[b].lead, request[b].stage)'
    BY DEF RoomInv
  <2>1. PICK m \in Leads, k \in Stages :
           /\ m = request[b].lead /\ k = request[b].stage
           /\ m = request'[b].lead /\ k = request'[b].stage
    BY <1>3 DEF Request
  <2>2. HasRoom(m, k)
    BY <1>3, <2>1 DEF Inv, RoomInv
  <2>3. request[b] # Idle
    BY <1>3 DEF Idle, Request
  <2>4. \A p \in Planned : (Capacity(p)' = Capacity(p)) \/ (Capacity(p)' = 0)
    BY <2>3, ChangeIs DEF Inv
  <2>5. ASSUME Capped(m, k)' PROVE Capped(m, k) /\ Capacity(k)' = Capacity(k)
    <3>1. /\ k \in Planned /\ Capacity(k)' > 0
          /\ lead'[m].owner # NULL /\ lead'[m].stage # k
      BY <2>5 DEF Capped
    <3>2. ~(0 > 0)
      OBVIOUS
    <3>3. Capacity(k)' = Capacity(k)
      BY <2>4, <3>1, <3>2
    <3>4. lead' = lead
      BY <1>1
    <3> QED BY <3>1, <3>3, <3>4 DEF Capped
  <2>6. Held(lead[m].owner, k)' = Held(lead[m].owner, k) /\ lead' = lead
    BY <1>1 DEF Held
  <2>7. HasRoom(m, k)'
    BY <2>2, <2>5, <2>6 DEF HasRoom
  <2> QED BY <2>1, <2>7
<1>7. LimitInv'
  <2> SUFFICES ASSUME NEW b \in Web, request'[b] # Idle, ~Loose(request'[b])
               PROVE  Counted(request[b])'
    BY DEF LimitInv, Counted
  <2>1. request[b] \in Request /\ request[b] # Idle /\ Like(request'[b], request[b])
    BY ChangeIs, LikeIs DEF Inv, Shape
  <2>2. /\ request'[b].lead = request[b].lead /\ request'[b].stage = request[b].stage
        /\ request'[b].counted = request[b].counted /\ request'[b].planner = request[b].planner
        /\ ~Loose(request[b])
    BY <2>1, LikeIs
  <2>3. Counted(request[b])
    BY <2>1 DEF Inv, LimitInv
  <2>4. \A p \in Planned : (Limit(p)' = Limit(p)) \/ (Limit(p)' = 0)
    BY <2>1, ChangeIs DEF Inv
  <2>5. \A s \in request[b].planner : request[b].stage \in Planned
    BY <2>1 DEF Inv, Shape
  <2>6. PICK k : k = request[b].stage /\ k = request'[b].stage
    BY <2>2
  <2> SUFFICES ASSUME request[b].counted, NEW s \in request[b].planner, Limit(k)' > 0
               PROVE  done[<<request[b].lead, s, k>>] < Limit(k)'
    BY <1>1, <2>2, <2>6 DEF Counted
  <2>7. Limit(k)' = Limit(k)
    <3>1. k \in Planned
      BY <2>5, <2>6
    <3>2. (Limit(k)' = Limit(k)) \/ (Limit(k)' = 0)
      BY <2>4, <3>1
    <3>3. ~(0 > 0)
      OBVIOUS
    <3> QED BY <3>2, <3>3
  <2>8. done[<<request[b].lead, s, k>>] < Limit(k)
    BY <2>2, <2>3, <2>6, <2>7 DEF Counted
  <2> QED BY <2>7, <2>8
<1>8. CapacityHolds'
  BY DEF ChangePolicy, CapacityHolds
<1>9. LimitsHold'
  <2> SUFFICES ASSUME NEW l \in Leads, NEW s \in Salesmen, NEW k \in Planned,
                      NEW p, p = <<l, s, k>>,
                      Limit(k)' > 0, p \notin overdone'
               PROVE  done[p] <= Limit(k)'
    BY <1>1 DEF LimitsHold
  <2>1. p \in DOMAIN done /\ done[p] \in Nat
    BY DEF Inv, Shape, Plans
  <2>2. Limit(k)' \in Nat
    <3>1. PICK r : r = policy'["SALES_ACTION_LIMITS"]
      OBVIOUS
    <3>2. r \in [option : {NULL}, value : [enabled : BOOLEAN, max : [Planned -> Nat]]]
      BY <3>1, ChangeIs DEF Inv, PlanInputs
    <3>3. r.value.max[k] \in Nat
      BY <3>2
    <3> QED BY <3>1, <3>3 DEF Limit, MaxOf
  <2>3. ~(Limit(p[3])' > 0 /\ done[p] > Limit(p[3])')
    BY <2>1 DEF ChangePolicy
  <2> QED BY <2>1, <2>2, <2>3
<1> QED BY <1>2, <1>4, <1>5, <1>6, <1>7, <1>8, <1>9 DEF Inv

-----------------------------------------------------------------------------
(***************************************************************************)
(* The theorems.                                                           *)
(***************************************************************************)

LEMMA InitInv == ASSUME PlanInputs, Init PROVE Inv
<1>1. /\ policy = [c \in Codes |-> Parsed(Type[c], First[c])]
      /\ lead \in [Leads -> [owner : Salesmen \cup {NULL}, stage : {"FRESH"}, active : {TRUE}]]
      /\ done = [p \in Plans |-> 0]
      /\ request = [b \in Web |-> Idle]
  BY DEF Init
<1>2. \A c \in Codes : Parsed(Type[c], First[c])
          \in [option : {NULL}, value : [enabled : BOOLEAN, max : [Planned -> Nat]]]
  BY ParsedIs
<1>3. \A l \in Leads : lead[l] \in Lead /\ lead[l].stage = "FRESH"
  BY <1>1 DEF Lead, Stages
<1>4. Shape
  BY <1>1, <1>2, <1>3 DEF Shape, Idle
<1>5. LockInv /\ RacesNoted /\ RoomInv /\ LimitInv
  BY <1>1 DEF LockInv, RacesNoted, Races, RoomInv, LimitInv, Checked, Idle
<1>6. CapacityHolds
  <2>1. \A s, k : k \in Planned => Held(s, k) = {}
    BY <1>3 DEF Held, PlanInputs
  <2>2. Cardinality({}) = 0
    BY FS_EmptySet
  <2>3. \A k \in Planned : Capacity(k) \in Nat
    BY <1>4, CapsAreNumbers
  <2>4. \A s \in Salesmen, k \in Planned : ~(Cardinality(Held(s, k)) > Capacity(k))
    <3> SUFFICES ASSUME NEW s \in Salesmen, NEW k \in Planned
                 PROVE  ~(Cardinality(Held(s, k)) > Capacity(k))
      OBVIOUS
    <3>1. Cardinality(Held(s, k)) = 0
      BY <2>1, <2>2, Zenon
    <3> QED BY <2>3, <3>1
  <2> QED BY <2>4 DEF CapacityHolds, Full
<1>7. LimitsHold
  <2>1. \A k \in Planned : Limit(k) \in Nat
    BY <1>4, CapsAreNumbers
  <2> QED BY <1>1, <2>1 DEF LimitsHold, Plans
<1> QED BY <1>4, <1>5, <1>6, <1>7 DEF Inv

LEMMA StutterInv == ASSUME Inv, UNCHANGED vars PROVE Inv'
BY DEF vars, Inv, Shape, LockInv, RacesNoted, RoomInv, LimitInv, CapacityHolds, LimitsHold,
   Checked, Counted, HasRoom, Capped, Capacity, Limit, MaxOf, Enabled, Held, Full, Races,
   Loose

LEMMA NextInv == ASSUME PlanInputs, Inv, [Next]_vars PROVE Inv'
<1>1. ASSUME NEW b \in Web, NEW l \in Leads, NEW a \in Actors, NEW k \in Planned,
             Schedule(b, l, k, a)
      PROVE  Inv'
  BY <1>1, ScheduleInv
<1>2. ASSUME NEW b \in Web, NEW l \in Leads, NEW a \in Actors, CountFreezes(b, l, a)
      PROVE  Inv'
  BY <1>2, CountFreezesInv
<1>3. ASSUME NEW b \in Web, NEW l \in Leads, NEW a \in Actors, NEW k \in Stages,
             Move(b, l, k, a)
      PROVE  Inv'
  BY <1>3, MoveInv
<1>4. ASSUME NEW b \in Web, Freeze(b) \/ Commit(b) \/ Fail(b)
      PROVE  Inv'
  BY <1>4, FreezeInv, CommitInv, FailInv
<1>5. ASSUME NEW l \in Leads, NEW s \in Salesmen \cup {NULL}, Assign(l, s)
      PROVE  Inv'
  BY <1>5, AssignInv
<1>6. ASSUME NEW l \in Leads, NEW active \in BOOLEAN, SetActive(l, active)
      PROVE  Inv'
  BY <1>6, SetActiveInv
<1>7. ASSUME NEW c \in Codes, NEW post \in Posts[c], ChangePolicy(c, post)
      PROVE  Inv'
  BY <1>7, ChangePolicyInv
<1>8. CASE UNCHANGED vars
  BY <1>8, StutterInv
<1> QED BY <1>1, <1>2, <1>3, <1>4, <1>5, <1>6, <1>7, <1>8 DEF Next

\* Inv holds in every reachable state.
LEMMA SpecInv == Spec => []Inv
<1>1. Init => Inv
  BY PlanInputs, InitInv
<1>2. Inv /\ [Next]_vars => Inv'
  BY PlanInputs, NextInv
<1> QED BY <1>1, <1>2, PTL DEF Spec

\* For any number of leads, salesmen, requests and capacities, a salesman holds no
\* more active leads in a stage than the policy allows, whatever plans, moves,
\* reassignments and reactivations of his leads run side by side, except for one of
\* the reasons CapacityHolds names.
THEOREM CapacityIsKept == Spec => []CapacityHolds
<1>1. Inv => CapacityHolds
  BY DEF Inv
<1> QED BY <1>1, SpecInv, PTL

\* A salesman plans an action for a lead no more often than its limit, except for
\* one of the reasons LimitsHold names, for any number of requests and any limits.
THEOREM LimitsAreKept == Spec => []LimitsHold
<1>1. Inv => LimitsHold
  BY DEF Inv
<1> QED BY <1>1, SpecInv, PTL
=============================================================================
