--------------------------- MODULE Rotation_proofs ---------------------------
(***************************************************************************)
(* Turns, loads and rotations for any number of leads, salesmen, teams,    *)
(* languages and processes and every choice of the policies.               *)
(*                                                                         *)
(* Turns rest on where the latest picks stand before the pointer (Streaks) *)
(* and on one process at a time having a turn of a language (TurnInv);     *)
(* loads on counting what is decided and not yet written (LevelInv);       *)
(* rotations on counting the retries of a lead and the teams before its    *)
(* own (Way), and on what a task has read of a lead (SeenInv).             *)
(***************************************************************************)
EXTENDS Rotation, FiniteSetTheorems, WellFoundedInduction, TLAPS

Shape ==
    /\ policy \in Policies
    /\ lead \in [Leads -> LeadRow]
    /\ available \subseteq Salesmen
    /\ pointer \in [Languages -> Nat]
    /\ tries \in [Leads -> [Teams -> 0..Attempts]]
    /\ received \in [Salesmen -> Nat]
    /\ seen \in [Runs -> Seen \cup {NULL}]
    /\ run \in [Runs -> Decision \cup {NULL}]
    /\ streak \in [Languages -> [pool : SUBSET Salesmen, picks : Seq(Salesmen)]]
    /\ moves \in [Leads -> Nat]
    /\ late \in [Leads -> Nat]
    /\ disturbed \in BOOLEAN

\* One process at a time for each lead; a salesman is chosen from the pool; a lead
\* that is not here yet is nobody's, and stays so until a process that takes it in commits.
RunsInv ==
    /\ \A r, q \in Runs : run[r] # NULL /\ run[q] # NULL /\ run[r].lead = run[q].lead => r = q
    /\ \A r \in Runs : run[r] # NULL =>
           /\ run[r].pick # NULL => run[r].pick \in run[r].pool
           /\ run[r].cause = "arrive" => ~lead[run[r].lead].here
           /\ run[r].cause = "expire" => seen[r] # NULL /\ seen[r].lead = run[r].lead
    /\ \A l \in Leads : ~lead[l].here => ~lead[l].active /\ lead[l].salesman = NULL

\* The index j places before p, going round n places.
Back(p, j, n) == IF j <= p THEN p - j ELSE p + n - j
\* The latest of the picks s is the one before the index p, and so on, going round
\* the n members of the pool backwards.
GoRound(pool, s, p, n) ==
    /\ s \in Seq(pool) /\ Len(s) <= n
    /\ \A i \in 1..Len(s) : Rank(pool, s[i]) = Back(p, Len(s) + 1 - i, n)
Streaks(g) ==
    LET s == streak[g].picks
        pool == streak[g].pool
        n == Cardinality(pool)
    IN /\ pool \subseteq Salesmen /\ GoRound(pool, s, pointer[g], n)
       /\ s # <<>> => pointer[g] < n
HasTurn(r, g) == run[r] # NULL /\ run[r].by = "BY_TURN" /\ LanguageOf[run[r].lead] = g
TurnInv ==
    /\ \A g \in Languages : \A r, q \in Runs : HasTurn(r, g) /\ HasTurn(q, g) => r = q
    /\ \A g \in Languages : \A r \in Runs : HasTurn(r, g) =>
           /\ run[r].pick \in run[r].pool
           /\ Rank(run[r].pool, run[r].pick) = pointer[g] % Cardinality(run[r].pool)
    /\ \A g \in Languages : Streaks(g)

Pending(m) == {r \in Runs : run[r] # NULL /\ run[r].cause = "arrive" /\ run[r].pick = m}
Alike == policy.auto = "ROUND_ROBIN" /\ ~disturbed
LevelInv ==
    Alike =>
        /\ available = Salesmen
        /\ \A m, x \in Salesmen : Speaks[m] = Speaks[x] =>
              candidate_load(m) + Cardinality(Pending(m)) <= candidate_load(x) + Cardinality(Runs)

\* A lead is assigned once for every retry, and once for its own team and each
\* before it; a late expiry may send it back to the first.
Retries(l) == Cardinality({p \in Teams \X (1..Attempts) : p[2] <= tries[l][p[1]]})
Way(l, t) == Retries(l) + Rank(Teams, t) + 1 + late[l] * Cardinality(Teams)

\* A task whose clock runs has read the lead's team, unless the lead is in none now.
SeenInv ==
    Bounded => \A r \in Runs : seen[r] # NULL /\ ~seen[r].ended =>
        lead[seen[r].lead].team \in {NULL, seen[r].team}

\* An expiry that chooses somebody stays in the team it has read, with a retry
\* that is left, or goes on from there.
Onward(d, t) ==
    LET u == TeamOf[d.pick]
    IN \/ d.by = "RETRY" /\ t = NULL
       \/ d.by = "RETRY" /\ u = t /\ tries[d.lead][t] < Attempts
       \/ t # NULL /\ t < u
WayInv ==
    Bounded =>
        /\ \A l \in Leads : IF lead[l].team = NULL THEN moves[l] = 0
                            ELSE moves[l] <= Way(l, lead[l].team)
        /\ \A r \in Runs : run[r] # NULL /\ run[r].cause = "expire" /\ run[r].pick # NULL
                             => Onward(run[r], seen[r].team)

-----------------------------------------------------------------------------
(***************************************************************************)
(* Ranks: the numbers below n, each the rank of one member of the pool.    *)
(***************************************************************************)

LEMMA RankBound ==
    ASSUME NEW pool, IsFiniteSet(pool), pool \subseteq Nat, NEW m \in pool
    PROVE  /\ Rank(pool, m) \in Nat /\ Cardinality(pool) \in Nat
           /\ Rank(pool, m) < Cardinality(pool)
<1> DEFINE before == {x \in pool : x < m}
<1>1. before \in SUBSET pool /\ m \notin before
  BY DEF before
<1> HIDE DEF before
<1>2. /\ IsFiniteSet(before) /\ Cardinality(before) <= Cardinality(pool)
      /\ Cardinality(before) # Cardinality(pool)
  BY <1>1, FS_Subset
<1>3. Cardinality(before) \in Nat /\ Cardinality(pool) \in Nat
  BY <1>2, FS_CardinalityType
<1> QED BY <1>2, <1>3 DEF Rank, before

LEMMA RankLess ==
    ASSUME NEW pool, IsFiniteSet(pool), pool \subseteq Nat,
           NEW m \in pool, NEW k \in pool, m < k
    PROVE  Rank(pool, m) < Rank(pool, k)
<1> DEFINE A == {x \in pool : x < m}
           B == {x \in pool : x < k}
<1>1. A \in SUBSET B /\ m \in B /\ m \notin A /\ B \in SUBSET pool
  <2>1. \A x \in pool : x \in Nat /\ m \in Nat /\ k \in Nat
    OBVIOUS
  <2>2. \A x \in A : x \in B
    BY <2>1
  <2>3. m \in B /\ m \notin A
    BY <2>1
  <2> QED BY <2>2, <2>3
<1> HIDE DEF A, B
<1>2. IsFiniteSet(B)
  BY <1>1, FS_Subset
<1>3. /\ IsFiniteSet(A) /\ Cardinality(A) <= Cardinality(B)
      /\ Cardinality(A) # Cardinality(B)
  BY <1>1, <1>2, FS_Subset
<1>4. Cardinality(A) \in Nat /\ Cardinality(B) \in Nat
  BY <1>2, <1>3, FS_CardinalityType
<1> QED BY <1>3, <1>4 DEF Rank, A, B

LEMMA RankOnce ==
    ASSUME NEW pool, IsFiniteSet(pool), pool \subseteq Nat,
           NEW m \in pool, NEW k \in pool, Rank(pool, m) = Rank(pool, k)
    PROVE  m = k
<1>1. Rank(pool, m) \in Nat /\ m \in Nat /\ k \in Nat
  BY RankBound
<1>2. ~(m < k)
  <2>1. m < k => Rank(pool, m) < Rank(pool, k)
    BY RankLess
  <2> QED BY <1>1, <2>1
<1>3. ~(k < m)
  <2>1. k < m => Rank(pool, k) < Rank(pool, m)
    BY RankLess
  <2> QED BY <1>1, <2>1
<1> QED BY <1>1, <1>2, <1>3

LEMMA RankOnto ==
    ASSUME NEW pool, IsFiniteSet(pool), pool \subseteq Nat,
           NEW i \in Nat, i < Cardinality(pool)
    PROVE  \E m \in pool : Rank(pool, m) = i
<1> DEFINE n == Cardinality(pool)
           T == (0..(n - 1)) \ {i}
           f == [m \in pool |-> Rank(pool, m)]
<1>1. SUFFICES ASSUME \A m \in pool : Rank(pool, m) # i PROVE FALSE
  OBVIOUS
<1>2. n \in Nat
  BY FS_CardinalityType
<1>3. f \in [pool -> T]
  <2> SUFFICES ASSUME NEW m \in pool PROVE Rank(pool, m) \in T
    OBVIOUS
  <2>1. Rank(pool, m) \in Nat /\ Rank(pool, m) < n
    BY RankBound
  <2>2. Rank(pool, m) \in 0..(n - 1)
    BY <1>2, <2>1
  <2> QED BY <1>1, <2>2
<1>4. IsFiniteSet(0..(n - 1)) /\ Cardinality(0..(n - 1)) = n
  <2>1. 0 \in Int /\ n - 1 \in Int /\ ~(0 > n - 1)
    BY <1>2
  <2>2. /\ IsFiniteSet(0..(n - 1))
        /\ Cardinality(0..(n - 1)) = IF 0 > n - 1 THEN 0 ELSE (n - 1) - 0 + 1
    BY <2>1, FS_Interval
  <2> QED BY <1>2, <2>1, <2>2
<1>5. i \in 0..(n - 1)
  BY <1>2
<1>6. IsFiniteSet(T) /\ Cardinality(T) = n - 1
  BY <1>4, <1>5, FS_RemoveElement
<1>7. \A m, k \in pool : f[m] = f[k] => m = k
  BY RankOnce
<1> HIDE DEF f, T
<1>8. \E m, k \in pool : m # k /\ f[m] = f[k]
  <2>1. Cardinality(T) < Cardinality(pool)
    BY <1>2, <1>6
  <2> QED BY <1>3, <1>6, <2>1, FS_PigeonHole
<1> QED BY <1>7, <1>8

LEMMA NthIs ==
    ASSUME NEW pool, IsFiniteSet(pool), pool \subseteq Nat, pool # {}, NEW i \in Nat
    PROVE  /\ Nth(pool, i) \in pool
           /\ Rank(pool, Nth(pool, i)) = i % Cardinality(pool)
<1>1. Cardinality(pool) \in Nat \ {0}
  BY FS_CardinalityType, FS_EmptySet
<1>2. i % Cardinality(pool) \in Nat /\ i % Cardinality(pool) < Cardinality(pool)
  BY <1>1
<1>3. \E m \in pool : Rank(pool, m) = i % Cardinality(pool)
  BY <1>2, RankOnto
<1> QED BY <1>3 DEF Nth

-----------------------------------------------------------------------------
(***************************************************************************)
(* The strategies.                                                         *)
(***************************************************************************)

LEMMA LeastExists ==
    ASSUME NEW S, S \subseteq Nat, S # {}
    PROVE  \E m \in S : \A k \in S : m <= k
<1>1. PICK m \in S : \A k \in S : ~(<<k, m>> \in OpToRel(<, Nat))
  BY WFMin, NatLessThanWellFounded
<1>2. \A k \in S : ~(k < m)
  BY <1>1 DEF OpToRel
<1> QED BY <1>2

\* Of those with the least value of a function, there is one with the least of another.
LEMMA LeastOf ==
    ASSUME NEW S, S # {}, NEW f, \A x \in S : f[x] \in Nat
    PROVE  \E m \in S : \A x \in S : f[m] <= f[x]
<1> DEFINE V == {f[x] : x \in S}
<1>1. PICK v \in V : \A w \in V : v <= w
  <2>1. V \subseteq Nat /\ V # {}
    OBVIOUS
  <2> QED BY <2>1, LeastExists
<1> QED BY <1>1

LEMMA LoadIs ==
    ASSUME NEW m
    PROVE  candidate_load(m) \in Nat
<1>1. IsFiniteSet({l \in Leads : lead[l].active /\ lead[l].salesman = m})
  BY FS_Subset, Company DEF Company
<1> QED BY <1>1, FS_CardinalityType DEF candidate_load

\* Somebody comes first, and nobody in the pool has fewer leads.
LEMMA RoundRobinIs ==
    ASSUME received \in [Salesmen -> Nat], NEW pool, pool \subseteq Salesmen, pool # {}
    PROVE  /\ RoundRobin(pool) \in pool
           /\ \A x \in pool : candidate_load(RoundRobin(pool)) <= candidate_load(x)
<1> DEFINE load == [m \in pool |-> candidate_load(m)]
           A == {m \in pool : \A x \in pool : load[m] <= load[x]}
           B == {m \in A : \A x \in A : received[m] <= received[x]}
<1>1. pool \subseteq Nat
  BY Company DEF Company
<1>2. \A m \in pool : load[m] \in Nat /\ received[m] \in Nat
  BY LoadIs
<1>3. A # {}
  <2>1. \E m \in pool : \A x \in pool : load[m] <= load[x]
    <3> HIDE DEF load
    <3> QED BY <1>2, LeastOf
  <2> QED BY <2>1
<1>4. B # {}
  <2>1. A \subseteq pool
    OBVIOUS
  <2> HIDE DEF A
  <2>2. \E m \in A : \A x \in A : received[m] <= received[x]
    BY <1>2, <1>3, <2>1, LeastOf
  <2> QED BY <2>2
<1>5. PICK m \in B : \A x \in B : m <= x
  <2>1. B \subseteq Nat
    BY <1>1
  <2> HIDE DEF B
  <2> QED BY <1>4, <2>1, LeastExists
<1>6. \A x \in pool \ {m} :
        \/ candidate_load(m) < candidate_load(x)
        \/ /\ candidate_load(m) = candidate_load(x)
           /\ \/ received[m] < received[x]
              \/ received[m] = received[x] /\ m < x
  <2> SUFFICES ASSUME NEW x \in pool \ {m}
               PROVE  \/ load[m] < load[x]
                      \/ /\ load[m] = load[x]
                         /\ \/ received[m] < received[x]
                            \/ received[m] = received[x] /\ m < x
    OBVIOUS
  <2>1. load[m] <= load[x] /\ load[m] \in Nat /\ load[x] \in Nat /\ m \in Nat /\ x \in Nat
    BY <1>1, <1>2
  <2>2. CASE x \notin A
    <3>1. PICK y \in pool : ~(load[x] <= load[y])
      BY <2>2
    <3>2. load[m] <= load[y] /\ load[y] \in Nat
      BY <1>2
    <3> QED BY <2>1, <3>1, <3>2
  <2>3. CASE x \in A
    <3>1. load[x] <= load[m] /\ received[m] <= received[x]
      BY <2>3
    <3>2. received[m] = received[x] => x \in B
      BY <2>3
    <3>3. received[m] \in Nat /\ received[x] \in Nat
      BY <1>2
    <3> HIDE DEF load, A, B
    <3> QED BY <1>5, <2>1, <3>1, <3>2, <3>3
  <2> QED BY <2>2, <2>3
<1> DEFINE First(p) == \A x \in pool \ {p} :
        \/ candidate_load(p) < candidate_load(x)
        \/ /\ candidate_load(p) = candidate_load(x)
           /\ \/ received[p] < received[x]
              \/ received[p] = received[x] /\ p < x
<1>7. m \in pool /\ First(m)
  BY <1>6
<1>8. RoundRobin(pool) = CHOOSE p \in pool : First(p)
  BY DEF RoundRobin
<1>9. RoundRobin(pool) \in pool /\ First(RoundRobin(pool))
  <2> HIDE DEF First
  <2> QED BY <1>7, <1>8
<1>10. \A x \in pool : candidate_load(RoundRobin(pool)) <= candidate_load(x)
  <2> SUFFICES ASSUME NEW x \in pool
               PROVE  candidate_load(RoundRobin(pool)) <= candidate_load(x)
    OBVIOUS
  <2>1. candidate_load(RoundRobin(pool)) \in Nat /\ candidate_load(x) \in Nat
    BY LoadIs
  <2> QED BY <1>9, <2>1
<1> QED BY <1>9, <1>10

-----------------------------------------------------------------------------
(***************************************************************************)
(* Decisions.                                                              *)
(***************************************************************************)

LEMMA PolicyIs ==
    ASSUME Shape
    PROVE  policy.auto \in Automatic /\ policy.scope \in Scopes
<1>1. policy \in Policy
  BY Company DEF Shape, Company
<1> QED BY <1>1 DEF Policy

LEMMA LanguageIs == ASSUME NEW l \in Leads PROVE LanguageOf[l] \in Languages
BY Company DEF Company

LEMMA PoolIs ==
    ASSUME Shape, NEW pool, pool \subseteq available
    PROVE  /\ pool \subseteq Salesmen /\ pool \subseteq Nat /\ IsFiniteSet(pool)
           /\ \A m \in pool : m # NULL
<1>1. pool \subseteq Salesmen
  BY DEF Shape
<1>2. IsFiniteSet(pool)
  BY <1>1, FS_Subset, Company DEF Company
<1> QED BY <1>1, <1>2, Company DEF Company

\* What a process may decide for the lead l.
Chosen(l, d) ==
    /\ d \in Decision /\ d.lead = l
    /\ d.pick # NULL => d.pick \in d.pool
    /\ d.by = "BY_TURN" =>
           /\ ~TurnLocked(LanguageOf[l])
           /\ d.pick \in d.pool
           /\ Rank(d.pool, d.pick) = pointer[LanguageOf[l]] % Cardinality(d.pool)

LEMMA NobodyIs ==
    ASSUME NEW l \in Leads, NEW cause \in {"arrive", "redispatch", "expire"},
           NEW d, d = decide(l, cause, "NOBODY", {}, NULL)
    PROVE  Chosen(l, d) /\ d.cause = cause /\ d.pick = NULL
BY DEF decide, Chosen, Decision, Person

\* distribute chooses from a pool, by the method it is given.
Distributed(l, cause, t, owner, method, d) ==
    /\ Chosen(l, d) /\ d.cause = cause
    /\ d.pick # NULL =>
           /\ d.by = method
           /\ d.pool = Others(eligible_pool(l, policy.scope, t), owner)
           /\ method = "ROUND_ROBIN" => d.pick = RoundRobin(d.pool)

LEMMA DistributeIs ==
    ASSUME Shape, NEW r \in Runs, NEW l \in Leads,
           NEW cause \in {"arrive", "redispatch", "expire"}, NEW t, NEW owner, NEW method,
           distribute(r, l, cause, t, owner, method)
    PROVE  \E d : Distributed(l, cause, t, owner, method, d) /\ run' = [run EXCEPT ![r] = d]
<1>1. PICK pool : pool = Others(eligible_pool(l, policy.scope, t), owner)
  OBVIOUS
<1>2. PICK g : g = LanguageOf[l]
  OBVIOUS
<1>3. pool \subseteq available
  BY <1>1 DEF Others, eligible_pool
<1>4. /\ pool \subseteq Salesmen /\ pool \subseteq Nat /\ IsFiniteSet(pool)
      /\ \A m \in pool : m # NULL
  BY <1>3, PoolIs
<1>5. CASE /\ pool = {}
           /\ run' = [run EXCEPT ![r] = decide(l, cause, "NOBODY", {}, NULL)]
  BY <1>5, NobodyIs DEF Distributed
<1>6. CASE /\ pool # {} /\ method = "ROUND_ROBIN"
           /\ run' = [run EXCEPT ![r] = decide(l, cause, method, pool, RoundRobin(pool))]
  <2>1. PICK m : m = RoundRobin(pool)
    OBVIOUS
  <2>2. m \in pool
    BY <1>4, <1>6, <2>1, RoundRobinIs DEF Shape
  <2>3. PICK d : d = decide(l, cause, method, pool, m)
    OBVIOUS
  <2>4. /\ d.lead = l /\ d.cause = cause /\ d.by = method /\ d.pool = pool /\ d.pick = m
        /\ d \in Decision
    BY <1>4, <1>6, <2>2, <2>3 DEF decide, Decision, Person, Automatic
  <2>5. Distributed(l, cause, t, owner, method, d)
    BY <1>1, <1>6, <2>1, <2>2, <2>4 DEF Distributed, Chosen
  <2> QED BY <1>6, <2>1, <2>3, <2>5
<1>7. CASE /\ pool # {} /\ method = "BY_TURN" /\ ~TurnLocked(g)
           /\ run' = [run EXCEPT ![r] = decide(l, cause, method, pool, ByTurn(g, pool))]
  <2>1. PICK m : m = ByTurn(g, pool)
    OBVIOUS
  <2>2. pointer[g] \in Nat
    BY <1>2, LanguageIs DEF Shape
  <2>3. m \in pool /\ Rank(pool, m) = pointer[g] % Cardinality(pool)
    BY <1>4, <1>7, <2>1, <2>2, NthIs DEF ByTurn
  <2>4. PICK d : d = decide(l, cause, method, pool, m)
    OBVIOUS
  <2>5. /\ d.lead = l /\ d.cause = cause /\ d.by = method /\ d.pool = pool /\ d.pick = m
        /\ d \in Decision
    BY <1>4, <1>7, <2>3, <2>4 DEF decide, Decision, Person, Automatic
  <2>6. Distributed(l, cause, t, owner, method, d)
    BY <1>1, <1>2, <1>7, <2>3, <2>5 DEF Distributed, Chosen
  <2> QED BY <1>7, <2>1, <2>4, <2>6
<1> QED BY <1>1, <1>2, <1>5, <1>6, <1>7 DEF distribute

\* A retry chooses from the team the task has read, if there is one.
Retried(l, t, d) ==
    /\ Chosen(l, d) /\ d.cause = "expire"
    /\ d.pick # NULL => d.by = "RETRY" /\ (t # NULL => TeamOf[d.pick] = t)

LEMMA RetryIs ==
    ASSUME Shape, NEW r \in Runs, NEW l \in Leads, NEW t, seen[r].lead = l, seen[r].team = t,
           NEW attempt \in Nat \ {0}, _retry_within_team(r, attempt)
    PROVE  \E d : Retried(l, t, d) /\ run' = [run EXCEPT ![r] = d]
<1>1. PICK pool : pool = Others(eligible_pool(l, "TEAM_THEN_SALESMAN", t), seen[r].salesman)
  OBVIOUS
<1>2. /\ pool \subseteq available
      /\ t # NULL => \A m \in pool : TeamOf[m] = t
  BY <1>1 DEF Others, eligible_pool
<1>3. /\ pool \subseteq Salesmen /\ pool \subseteq Nat /\ IsFiniteSet(pool)
      /\ \A m \in pool : m # NULL
  BY <1>2, PoolIs
<1>4. CASE pool = {}
  <2>1. run' = [run EXCEPT ![r] = decide(l, "expire", "NOBODY", {}, NULL)]
    BY <1>1, <1>4 DEF _retry_within_team
  <2> QED BY <2>1, NobodyIs DEF Retried
<1>5. CASE pool # {}
  <2>1. PICK m : m = Nth(pool, attempt - 1)
    OBVIOUS
  <2>2. m \in pool
    <3>1. attempt - 1 \in Nat
      OBVIOUS
    <3> QED BY <1>3, <1>5, <2>1, <3>1, NthIs
  <2>3. PICK d : d = decide(l, "expire", "RETRY", pool, m)
    OBVIOUS
  <2>4. /\ d.lead = l /\ d.cause = "expire" /\ d.by = "RETRY" /\ d.pool = pool /\ d.pick = m
        /\ d \in Decision
    BY <1>3, <2>2, <2>3 DEF decide, Decision, Person, Automatic
  <2>5. run' = [run EXCEPT ![r] = d]
    BY <1>1, <1>5, <2>1, <2>3 DEF _retry_within_team
  <2>6. Chosen(l, d)
    BY <2>2, <2>4 DEF Chosen
  <2> QED BY <1>2, <2>2, <2>4, <2>5, <2>6 DEF Retried
<1> QED BY <1>4, <1>5

\* An expiry that chooses somebody goes the way of Onward, when the policies bound it.
Expired(l, t, d) ==
    /\ Chosen(l, d) /\ d.cause = "expire"
    /\ Bounded /\ d.pick # NULL => Onward(d, t)

LEMMA ExpiryIs ==
    ASSUME Shape, NEW r \in Runs, NEW l \in Leads, NEW t \in Teams \cup {NULL},
           seen[r].lead = l, seen[r].team = t, handle_expiry(r)
    PROVE  \E d : Expired(l, t, d) /\ run' = [run EXCEPT ![r] = d]
<1>1. NULL \notin Teams
  BY Company DEF Company
<1>2. TriesIn(l, t) \in 0..Attempts /\ Attempts \in Nat \ {0}
  <2>1. Attempts \in Nat \ {0}
    BY Company DEF Company
  <2>2. PICK f \in [Teams -> 0..Attempts] : f = tries[l]
    BY DEF Shape
  <2>3. CASE t = NULL
    BY <2>1, <2>3 DEF TriesIn
  <2>4. CASE t # NULL
    <3>1. t \in Teams /\ TriesIn(l, t) = f[t]
      BY <2>2, <2>4 DEF TriesIn
    <3> QED BY <2>1, <2>2, <3>1
  <2> QED BY <2>1, <2>3, <2>4
<1>3. t = NULL => TriesIn(l, t) < Attempts
  BY <1>2 DEF TriesIn
<1>4. CASE TriesIn(l, t) < Attempts
  <2>1. PICK attempt : attempt = TriesIn(l, t) + 1
    OBVIOUS
  <2>2. attempt \in Nat \ {0} /\ _retry_within_team(r, attempt)
    BY <1>2, <1>4, <2>1 DEF handle_expiry
  <2>3. PICK d : Retried(l, t, d) /\ run' = [run EXCEPT ![r] = d]
    BY <2>2, RetryIs
  <2>4. d.pick # NULL => Onward(d, t)
    BY <1>4, <2>3 DEF Retried, Onward, Chosen, TriesIn
  <2> QED BY <2>3, <2>4 DEF Retried, Expired
<1>5. CASE ~(TriesIn(l, t) < Attempts)
  <2>1. _escalate_next_team(r) /\ t # NULL
    BY <1>3, <1>5 DEF handle_expiry
  <2>2. CASE run' = [run EXCEPT ![r] = decide(l, "expire", "NOBODY", {}, NULL)]
    BY <2>2, NobodyIs DEF Expired
  <2>3. CASE \E u \in NextTeams(t) : distribute(r, l, "expire", u, seen[r].salesman, policy.auto)
    <3>1. PICK u \in NextTeams(t) :
             distribute(r, l, "expire", u, seen[r].salesman, policy.auto)
      BY <2>3
    <3>2. u \in Teams /\ u > t
      BY <2>1, <3>1 DEF NextTeams
    <3>3. PICK owner, method : owner = seen[r].salesman /\ method = policy.auto
      OBVIOUS
    <3>4. PICK d : /\ Distributed(l, "expire", u, owner, method, d)
                   /\ run' = [run EXCEPT ![r] = d]
      BY <3>1, <3>3, DistributeIs
    <3>5. Bounded /\ d.pick # NULL => TeamOf[d.pick] = u
      BY <1>1, <3>2, <3>4 DEF Distributed, Chosen, Others, eligible_pool, Bounded
    <3>6. t < u
      <4>1. u \in Nat /\ t \in Nat
        BY <2>1, <3>2, Company DEF Company
      <4> QED BY <3>2, <4>1
    <3>7. Bounded /\ d.pick # NULL => Onward(d, t)
      BY <2>1, <3>5, <3>6 DEF Onward
    <3> QED BY <3>4, <3>7 DEF Distributed, Expired
  <2> QED BY <2>1, <2>2, <2>3 DEF _escalate_next_team
<1> QED BY <1>4, <1>5

\* What the three decisions have in common.
Decides(r, l, d) ==
    /\ run[r] = NULL /\ ~LeadLocked(l)
    /\ Chosen(l, d) /\ run' = [run EXCEPT ![r] = d]
    /\ UNCHANGED <<policy, lead, available, pointer, tries, received, seen, streak,
                   moves, late, disturbed>>
    /\ d.cause = "arrive" =>
           /\ ~lead[l].here
           /\ Distributed(l, "arrive", NULL, lead[l].salesman, policy.auto, d)
    /\ d.cause = "expire" => seen[r] # NULL /\ seen[r].lead = l
    /\ Bounded /\ d.cause = "expire" /\ d.pick # NULL => Onward(d, seen[r].team)

LEMMA ArriveIs ==
    ASSUME Shape, NEW r \in Runs, NEW l \in Leads, Arrive(r, l)
    PROVE  \E d : Decides(r, l, d)
<1>1. PICK method, owner : method = policy.auto /\ owner = lead[l].salesman
  OBVIOUS
<1>2. PICK d : /\ Distributed(l, "arrive", NULL, owner, method, d)
               /\ run' = [run EXCEPT ![r] = d]
  BY <1>1, DistributeIs DEF Arrive
<1> QED BY <1>1, <1>2 DEF Arrive, Deciding, Decides, Distributed

LEMMA RedispatchIs ==
    ASSUME Shape, NEW r \in Runs, NEW l \in Leads, Redispatch(r, l)
    PROVE  \E d : Decides(r, l, d)
<1>1. PICK method, owner : method = policy.auto /\ owner = lead[l].salesman
  OBVIOUS
<1>2. PICK d : /\ Distributed(l, "redispatch", NULL, owner, method, d)
               /\ run' = [run EXCEPT ![r] = d]
  BY <1>1, DistributeIs DEF Redispatch
<1> QED BY <1>2 DEF Redispatch, Deciding, Decides, Distributed

LEMMA ExpireIs ==
    ASSUME Shape, NEW r \in Runs, Expire(r)
    PROVE  \E l \in Leads : \E d : Decides(r, l, d)
<1>1. PICK l \in Leads, t \in Teams \cup {NULL} :
         seen[r] # NULL /\ seen[r].lead = l /\ seen[r].team = t
  BY DEF Expire, Shape, Seen
<1>2. PICK method : method = IF l \in BrokerLeads THEN "MANUAL" ELSE policy.expiry
  OBVIOUS
<1>3. CASE run' = [run EXCEPT ![r] = decide(l, "expire", "NOBODY", {}, NULL)]
  <2>1. PICK d : d = decide(l, "expire", "NOBODY", {}, NULL)
    OBVIOUS
  <2>2. Chosen(l, d) /\ d.cause = "expire" /\ d.pick = NULL
    BY <2>1, NobodyIs
  <2> QED BY <1>1, <1>3, <2>1, <2>2 DEF Expire, Deciding, Decides
<1>4. CASE method \in Automatic /\ \E owner, by : distribute(r, l, "expire", NULL, owner, by)
  <2>1. PICK owner, by : distribute(r, l, "expire", NULL, owner, by)
    BY <1>4
  <2>2. PICK d : Distributed(l, "expire", NULL, owner, by, d) /\ run' = [run EXCEPT ![r] = d]
    BY <2>1, DistributeIs
  <2>3. ~Bounded
    BY <1>2, <1>4 DEF Bounded, Automatic
  <2> QED BY <1>1, <2>2, <2>3 DEF Expire, Deciding, Decides, Distributed
<1>5. CASE handle_expiry(r)
  <2>1. PICK d : Expired(l, t, d) /\ run' = [run EXCEPT ![r] = d]
    BY <1>1, <1>5, ExpiryIs
  <2> QED BY <1>1, <2>1 DEF Expire, Deciding, Decides, Expired
<1> QED BY <1>1, <1>2, <1>3, <1>4, <1>5 DEF Expire

-----------------------------------------------------------------------------
(***************************************************************************)
(* What is written.                                                        *)
(***************************************************************************)

LEMMA ReceiveIs ==
    ASSUME received \in [Salesmen -> Nat], NEW m \in Person
    PROVE  Receive(m) \in [Salesmen -> Nat]
<1> DEFINE S == {x \in Salesmen : received[x] > 0 \/ x = m}
<1>1. Cardinality(S) \in Nat
  <2>1. IsFiniteSet(S)
    BY FS_Subset, Company DEF Company
  <2> QED BY <2>1, FS_CardinalityType
<1>2. PICK n \in Nat : n = Cardinality(S)
  BY <1>1
<1>3. CASE m = NULL
  BY <1>3 DEF Receive
<1>4. CASE m \in Salesmen /\ m # NULL
  <2>1. \A x \in Salesmen : 0 < received[m] /\ received[m] < received[x] => received[x] - 1 \in Nat
    BY <1>4
  <2> QED BY <1>2, <1>4, <2>1 DEF Receive
<1> QED BY <1>3, <1>4 DEF Person

\* The end of a clock changes nothing of what a task has read but this.
LEMMA EndedIs ==
    ASSUME Shape, NEW l
    PROVE  /\ Ended(l) \in [Runs -> Seen \cup {NULL}]
           /\ \A q \in Runs :
                 /\ Ended(l)[q] = NULL <=> seen[q] = NULL
                 /\ seen[q] # NULL =>
                       /\ Ended(l)[q].lead = seen[q].lead /\ Ended(l)[q].team = seen[q].team
                       /\ ~Ended(l)[q].ended => ~seen[q].ended /\ seen[q].lead # l
<1> SUFFICES ASSUME NEW q \in Runs
             PROVE  /\ Ended(l)[q] \in Seen \cup {NULL}
                    /\ Ended(l)[q] = NULL <=> seen[q] = NULL
                    /\ seen[q] # NULL =>
                          /\ Ended(l)[q].lead = seen[q].lead /\ Ended(l)[q].team = seen[q].team
                          /\ ~Ended(l)[q].ended => ~seen[q].ended /\ seen[q].lead # l
  BY DEF Ended
<1>1. PICK x \in Seen \cup {NULL} : x = seen[q]
  BY DEF Shape
<1>2. Ended(l)[q] = IF x # NULL /\ x.lead = l THEN [x EXCEPT !.ended = TRUE] ELSE x
  BY <1>1 DEF Ended
<1>3. CASE x # NULL /\ x.lead = l
  <2>1. PICK y : y = [x EXCEPT !.ended = TRUE]
    OBVIOUS
  <2>2. y \in Seen /\ y.lead = x.lead /\ y.team = x.team /\ y.ended = TRUE
    BY <1>3, <2>1 DEF Seen
  <2>3. y # NULL
    BY <2>2, NullIsNothingRead
  <2> QED BY <1>1, <1>2, <1>3, <2>1, <2>2, <2>3
<1>4. CASE ~(x # NULL /\ x.lead = l)
  BY <1>1, <1>2, <1>4
<1> QED BY <1>3, <1>4

\* What a commit does with the lead of its decision d.
Written(r, l, d, row) ==
    /\ row \in LeadRow /\ row.here
    /\ lead' = [lead EXCEPT ![l] = row]
    /\ moves' \in [Leads -> Nat] /\ late' \in [Leads -> Nat]
    /\ \A k \in Leads \ {l} : moves'[k] = moves[k] /\ late'[k] = late[k]
    /\ IF d.pick = NULL
       THEN /\ row.team = lead[l].team /\ row.salesman = lead[l].salesman
            /\ moves'[l] = moves[l] /\ late'[l] = late[l]
       ELSE /\ row.team = TeamOf[d.pick] /\ row.salesman \in {NULL, d.pick}
            /\ d.cause # "expire" => moves'[l] <= 1
            /\ d.cause = "expire" /\ Bounded =>
                   /\ moves'[l] <= moves[l] + 1
                   /\ late'[l] = IF Late(r) THEN late[l] + 1 ELSE late[l]

\* What it leaves of what the tasks have read.
Forgets(r, l) ==
    /\ seen' \in [Runs -> Seen \cup {NULL}]
    /\ seen'[r] = NULL
    /\ \A q \in Runs \ {r} :
          /\ seen'[q] = NULL <=> seen[q] = NULL
          /\ seen[q] # NULL =>
                /\ seen'[q].lead = seen[q].lead /\ seen'[q].team = seen[q].team
                /\ ~seen'[q].ended => /\ ~seen[q].ended
                                      /\ seen[q].lead = l => ~EndsClock(r)

LEMMA CommitIs ==
    ASSUME Shape, NEW r \in Runs, NEW d, d = run[r], Commit(r)
    PROVE  /\ d \in Decision /\ d # NULL
           /\ \E row : Written(r, d.lead, d, row)
           /\ Forgets(r, d.lead)
           /\ received' \in [Salesmen -> Nat]
           /\ pointer' = Advanced(d) /\ tries' = Counted(d) /\ streak' = Streak(d)
           /\ disturbed' = (disturbed \/ d.cause # "arrive")
           /\ run' = [run EXCEPT ![r] = NULL]
           /\ policy' = policy /\ available' = available
<1>1. d \in Decision /\ d # NULL
  BY DEF Commit, Shape
<1>2. PICK l \in Leads : l = d.lead
  BY <1>1 DEF Decision
<1>3. lead[l] \in LeadRow /\ received \in [Salesmen -> Nat]
  BY DEF Shape
<1>4. Forgets(r, d.lead)
  <2>1. PICK after : after = IF EndsClock(r) THEN Ended(l) ELSE seen
    OBVIOUS
  <2>2. /\ after \in [Runs -> Seen \cup {NULL}]
        /\ \A q \in Runs :
              /\ after[q] = NULL <=> seen[q] = NULL
              /\ seen[q] # NULL =>
                    /\ after[q].lead = seen[q].lead /\ after[q].team = seen[q].team
                    /\ ~after[q].ended => /\ ~seen[q].ended
                                          /\ seen[q].lead = l => ~EndsClock(r)
    <3>1. CASE EndsClock(r)
      BY <2>1, <3>1, EndedIs
    <3>2. CASE ~EndsClock(r)
      BY <2>1, <3>2 DEF Shape
    <3> QED BY <3>1, <3>2
  <2>3. seen' = [after EXCEPT ![r] = NULL]
    BY <1>2, <2>1 DEF Commit
  <2> QED BY <1>2, <2>2, <2>3 DEF Forgets
<1>5. CASE d.pick = NULL
  <2>1. PICK row : row = Unassigned(r, d)
    OBVIOUS
  <2>2. /\ row \in LeadRow /\ row.here
        /\ row.team = lead[l].team /\ row.salesman = lead[l].salesman
    <3>1. EndsClock(r) \in BOOLEAN
      BY DEF EndsClock
    <3> QED BY <1>2, <1>3, <2>1, <3>1 DEF Unassigned, LeadRow
  <2>3. lead' = [lead EXCEPT ![l] = row] /\ moves' = moves /\ late' = late /\ received' = received
    BY <1>2, <1>5, <2>1 DEF Commit
  <2>4. Written(r, l, d, row)
    BY <1>5, <2>2, <2>3 DEF Written, Shape
  <2> QED BY <1>1, <1>2, <1>3, <1>4, <2>3, <2>4 DEF Commit
<1>6. CASE d.pick # NULL
  <2>1. PICK row : row = Assigned(d)
    OBVIOUS
  <2>2. d.pick \in Salesmen /\ TeamOf[d.pick] \in Teams
    BY <1>1, <1>6, Company DEF Decision, Person, Company
  <2>3. /\ row \in LeadRow /\ row.here
        /\ row.team = TeamOf[d.pick] /\ row.salesman \in {NULL, d.pick}
    BY <1>2, <1>3, <2>1, <2>2 DEF Assigned, LeadRow, Person
  <2>4. /\ lead' = [lead EXCEPT ![l] = row] /\ received' = Receive(row.salesman)
        /\ moves' = [moves EXCEPT ![l] =
              IF ~Bounded THEN 0 ELSE IF d.cause # "expire" THEN 1
              ELSE IF @ > Allowed(MaxLate) THEN @ ELSE @ + 1]
        /\ late' = [late EXCEPT ![l] =
              IF ~Bounded \/ d.cause # "expire" THEN 0 ELSE IF Late(r) THEN @ + 1 ELSE @]
    BY <1>2, <1>6, <2>1 DEF Commit
  <2>5. received' \in [Salesmen -> Nat]
    BY <1>3, <2>2, <2>3, <2>4, ReceiveIs DEF Person
  <2>6. PICK v, n \in Nat : v = moves[l] /\ n = late[l]
    BY DEF Shape
  <2>7. PICK w \in Nat : w = IF ~Bounded THEN 0 ELSE IF d.cause # "expire" THEN 1
                             ELSE IF v > Allowed(MaxLate) THEN v ELSE v + 1
    OBVIOUS
  <2>8. PICK k \in Nat : k = IF ~Bounded \/ d.cause # "expire" THEN 0
                             ELSE IF Late(r) THEN n + 1 ELSE n
    OBVIOUS
  <2>9. moves' = [moves EXCEPT ![l] = w] /\ late' = [late EXCEPT ![l] = k]
    BY <2>4, <2>6, <2>7, <2>8 DEF Shape
  <2>10. w <= v + 1 \/ ~Bounded
    BY <2>7
  <2>11. Written(r, l, d, row)
    BY <1>6, <2>3, <2>4, <2>6, <2>7, <2>8, <2>9, <2>10 DEF Written, Shape
  <2> QED BY <1>1, <1>2, <1>4, <2>5, <2>11 DEF Commit
<1> QED BY <1>5, <1>6

\* What people do with a lead.
Handled(l, row) ==
    /\ row \in LeadRow /\ row.here
    /\ lead[l].here /\ ~LeadLocked(l)
    /\ lead' = [lead EXCEPT ![l] = row]
    /\ received' \in [Salesmen -> Nat]
    /\ \/ seen' = Ended(l)
       \/ seen' = seen /\ row.team = NULL
    /\ Touched(l)

LEMMA PeopleIs ==
    ASSUME Shape, NEW l \in Leads,
           \/ \E m \in Salesmen, t \in Teams \cup {NULL} : AssignToSalesman(l, m, t)
           \/ \E t \in Teams : AssignToTeam(l, t)
           \/ Deactivate(l)
           \/ Clear(l)
    PROVE  \E row : Handled(l, row)
<1>1. lead[l] \in LeadRow /\ received \in [Salesmen -> Nat]
  BY DEF Shape
<1>2. ASSUME NEW m \in Salesmen, NEW t \in Teams \cup {NULL}, AssignToSalesman(l, m, t)
      PROVE  \E row : Handled(l, row)
  <2>1. PICK row : row = [lead[l] EXCEPT !.team = t, !.salesman = m, !.clock = TRUE]
    OBVIOUS
  <2>2. row \in LeadRow /\ row.here = lead[l].here
    BY <1>1, <2>1 DEF LeadRow, Person
  <2>3. received' \in [Salesmen -> Nat]
    BY <1>1, <1>2, ReceiveIs DEF AssignToSalesman, Person
  <2> QED BY <1>2, <2>1, <2>2, <2>3 DEF AssignToSalesman, Handled
<1>3. ASSUME NEW t \in Teams, AssignToTeam(l, t)
      PROVE  \E row : Handled(l, row)
  <2>1. PICK row : row = [lead[l] EXCEPT !.team = t, !.salesman = NULL, !.clock = TRUE]
    OBVIOUS
  <2>2. row \in LeadRow /\ row.here = lead[l].here
    BY <1>1, <2>1 DEF LeadRow, Person
  <2> QED BY <1>1, <1>3, <2>1, <2>2 DEF AssignToTeam, Handled
<1>4. ASSUME Deactivate(l)
      PROVE  \E row : Handled(l, row)
  <2>1. PICK row : row = [lead[l] EXCEPT !.active = FALSE, !.clock = FALSE]
    OBVIOUS
  <2>2. row \in LeadRow /\ row.here = lead[l].here
    BY <1>1, <2>1 DEF LeadRow, Person
  <2> QED BY <1>1, <1>4, <2>1, <2>2 DEF Deactivate, Handled
<1>5. ASSUME Clear(l)
      PROVE  \E row : Handled(l, row)
  <2>1. PICK row : row = [lead[l] EXCEPT !.active = TRUE, !.team = NULL, !.salesman = NULL]
    OBVIOUS
  <2>2. row \in LeadRow /\ row.here = lead[l].here /\ row.team = NULL
    BY <1>1, <2>1 DEF LeadRow, Person
  <2> QED BY <1>1, <1>5, <2>1, <2>2 DEF Clear, Handled
<1> QED BY <1>2, <1>3, <1>4, <1>5

\* What a task reads.
Reads(r, x) ==
    /\ run[r] = NULL /\ x \in Seen /\ ~x.ended
    /\ Bounded => x.team = lead[x.lead].team
    /\ seen' = [seen EXCEPT ![r] = x]
    /\ UNCHANGED <<policy, lead, available, pointer, tries, received, run, streak,
                   moves, late, disturbed>>

LEMMA FetchIs ==
    ASSUME Shape, NEW r \in Runs, NEW l \in Leads, Fetch(r, l)
    PROVE  \E x : Reads(r, x)
<1>1. lead[l] \in LeadRow
  BY DEF Shape
<1>2. PICK x :
         x = [lead |-> l, salesman |-> lead[l].salesman, ended |-> FALSE,
              team |-> IF policy.expiry = "RETRY_TEAM_ESCALATION" THEN lead[l].team
                                                                  ELSE NULL]
  OBVIOUS
<1>3. x \in Seen /\ x.lead = l /\ (Bounded => x.team = lead[l].team) /\ ~x.ended
  BY <1>1, <1>2 DEF Seen, LeadRow, Bounded
<1>4. seen' = [seen EXCEPT ![r] = x]
  BY <1>2 DEF Fetch
<1> QED BY <1>3, <1>4 DEF Fetch, Reads

\* All that ever happens.
LEMMA StepIs ==
    ASSUME Shape, [Next]_vars
    PROVE  \/ \E r \in Runs, l \in Leads : \E d : Decides(r, l, d)
           \/ \E r \in Runs : \E x : Reads(r, x)
           \/ \E r \in Runs : Commit(r) \/ Rollback(r)
           \/ \E l \in Leads : \E row : Handled(l, row)
           \/ \E m \in Salesmen : SetAvailability(m)
           \/ UNCHANGED vars
<1>1. Arriving[policy] \subseteq Leads /\ Worked[policy] \subseteq Leads
  BY Company DEF Shape, Company
<1>2. ASSUME NEW r \in Runs,
             \/ \E l \in Arriving[policy] : Arrive(r, l)
             \/ \E l \in Worked[policy] : Redispatch(r, l)
             \/ Expire(r)
      PROVE  \E q \in Runs, k \in Leads : \E d : Decides(q, k, d)
  BY <1>1, <1>2, ArriveIs, RedispatchIs, ExpireIs
<1>3. ASSUME NEW r \in Runs, NEW l \in Worked[policy], Fetch(r, l)
      PROVE  \E q \in Runs : \E x : Reads(q, x)
  BY <1>1, <1>3, FetchIs
<1>4. ASSUME NEW l \in Worked[policy],
             \/ \E m \in Salesmen, t \in Teams \cup {NULL} : AssignToSalesman(l, m, t)
             \/ \E t \in Teams : AssignToTeam(l, t)
             \/ Deactivate(l)
             \/ Clear(l)
      PROVE  \E k \in Leads : \E row : Handled(k, row)
  BY <1>1, <1>4, PeopleIs
<1>5. Absentees \subseteq Salesmen
  BY Company DEF Company
<1> QED BY <1>2, <1>3, <1>4, <1>5 DEF Next

-----------------------------------------------------------------------------
(***************************************************************************)
(* Turns.                                                                  *)
(***************************************************************************)
Base == Shape /\ RunsInv /\ TurnInv

\* The index after k, of n.
After(k, n) == IF k + 1 = n THEN 0 ELSE k + 1

LEMMA NextIndex ==
    ASSUME NEW n \in Nat, NEW k \in Nat, k < n
    PROVE  k % n = k /\ (k + 1) % n = After(k, n)
BY DEF After

LEMMA BackAfter ==
    ASSUME NEW n \in Nat, NEW k \in Nat, k < n,
           NEW j \in Nat, j < n, NEW i \in Nat, i = j + 1
    PROVE  /\ Back(After(k, n), i, n) = Back(k, j, n)
           /\ Back(k, 0, n) = k
BY DEF Back, After

\* A pick whose turn it is prolongs the picks that came before it.
LEMMA StreakGrows ==
    ASSUME NEW pool, NEW n \in Nat, NEW pick \in pool, NEW k \in Nat, k < n,
           Rank(pool, pick) = k, NEW kept, GoRound(pool, kept, k, n), Len(kept) < n
    PROVE  GoRound(pool, Append(kept, pick), After(k, n), n)
<1>1. PICK s, q : s = Append(kept, pick) /\ q = After(k, n)
  OBVIOUS
<1>2. /\ kept \in Seq(pool)
      /\ \A i \in 1..Len(kept) : Rank(pool, kept[i]) = Back(k, Len(kept) + 1 - i, n)
  BY DEF GoRound
<1>3. Len(kept) \in Nat /\ Len(s) = Len(kept) + 1 /\ s \in Seq(pool) /\ Len(s) <= n
  BY <1>1, <1>2
<1>4. ASSUME NEW i \in 1..Len(s)
      PROVE  Rank(pool, s[i]) = Back(q, Len(s) + 1 - i, n)
  <2>1. CASE i = Len(s)
    <3>1. s[i] = pick
      BY <1>1, <1>2, <1>3, <2>1
    <3>2. Back(q, 1, n) = k
      <4>1. Back(After(k, n), 1, n) = Back(k, 0, n) /\ Back(k, 0, n) = k
        BY BackAfter
      <4> QED BY <1>1, <4>1
    <3>3. Len(s) + 1 - i = 1
      BY <1>3, <2>1
    <3> QED BY <3>1, <3>2, <3>3
  <2>2. CASE i # Len(s)
    <3>1. i \in 1..Len(kept) /\ s[i] = kept[i]
      BY <1>1, <1>2, <1>3, <2>2
    <3>2. PICK j \in Nat : j = Len(kept) + 1 - i /\ 1 <= j /\ j < n
      BY <1>3, <3>1
    <3>3. PICK m \in Nat : m = j + 1
      OBVIOUS
    <3>4. m = Len(s) + 1 - i
      BY <1>3, <3>1, <3>2, <3>3
    <3>5. Back(After(k, n), m, n) = Back(k, j, n)
      BY <3>2, <3>3, BackAfter
    <3> QED BY <1>1, <1>2, <3>1, <3>2, <3>5, <3>4
  <2> QED BY <2>1, <2>2
<1>5. GoRound(pool, s, q, n)
  BY <1>3, <1>4 DEF GoRound
<1> QED BY <1>1, <1>5

\* The picks that Streak keeps.
LEMMA KeptIs ==
    ASSUME NEW pool, NEW n \in Nat, n # 0, NEW p, NEW s, GoRound(pool, s, p, n),
           NEW kept, kept = IF Len(s) < n THEN s ELSE Tail(s)
    PROVE  GoRound(pool, kept, p, n) /\ Len(kept) < n /\ (kept # <<>> => s # <<>>)
<1>1. CASE Len(s) < n
  BY <1>1
<1>2. CASE ~(Len(s) < n)
  <2>1. /\ s \in Seq(pool) /\ Len(s) = n /\ s # <<>>
        /\ \A i \in 1..Len(s) : Rank(pool, s[i]) = Back(p, Len(s) + 1 - i, n)
    BY <1>2 DEF GoRound
  <2>2. /\ kept \in Seq(pool) /\ Len(kept) = n - 1
        /\ \A i \in 1..Len(kept) : kept[i] = s[i + 1]
    BY <1>2, <2>1
  <2>3. ASSUME NEW i \in 1..Len(kept)
        PROVE  Rank(pool, kept[i]) = Back(p, Len(kept) + 1 - i, n)
    <3>1. i + 1 \in 1..Len(s) /\ kept[i] = s[i + 1]
      BY <2>1, <2>2
    <3>2. Len(s) + 1 - (i + 1) = Len(kept) + 1 - i
      BY <2>1, <2>2
    <3> QED BY <2>1, <3>1, <3>2
  <2>4. Len(kept) < n /\ Len(kept) <= n
    BY <2>2
  <2> QED BY <2>1, <2>2, <2>3, <2>4 DEF GoRound
<1> QED BY <1>1, <1>2

LEMMA SeqOfMore ==
    ASSUME NEW S, NEW T, S \subseteq T, NEW s \in Seq(S)
    PROVE  s \in Seq(T)
OBVIOUS

LEMMA StreakIs ==
    ASSUME Base, NEW g \in Languages, NEW r \in Runs, NEW d, d = run[r], HasTurn(r, g),
           pointer' = Advanced(d), streak' = Streak(d)
    PROVE  /\ pointer' \in [Languages -> Nat]
           /\ streak' \in [Languages -> [pool : SUBSET Salesmen, picks : Seq(Salesmen)]]
           /\ \A h \in Languages \ {g} : pointer'[h] = pointer[h] /\ streak'[h] = streak[h]
           /\ Streaks(g)'
<1>1. d \in Decision /\ d.by = "BY_TURN" /\ LanguageOf[d.lead] = g
  BY DEF HasTurn, Base, Shape
<1>2. PICK pool : pool = d.pool
  OBVIOUS
<1>3. PICK n : n = Cardinality(pool)
  OBVIOUS
<1>4. PICK p \in Nat : p = pointer[g]
  BY DEF Base, Shape
<1>5. PICK pick \in pool : pick = d.pick /\ Rank(pool, pick) = p % n
  BY <1>2, <1>3, <1>4 DEF Base, TurnInv
<1>6. pool \subseteq Salesmen /\ pool \subseteq Nat /\ IsFiniteSet(pool) /\ n \in Nat
  <2>1. pool \subseteq Salesmen
    BY <1>1, <1>2 DEF Decision
  <2>2. IsFiniteSet(pool)
    BY <2>1, FS_Subset, Company DEF Company
  <2> QED BY <1>3, <2>1, <2>2, FS_CardinalityType, Company DEF Company
<1>7. PICK k \in Nat : k = p % n /\ k < n
  BY <1>3, <1>5, <1>6, RankBound
<1>8. PICK q : q = After(k, n)
  OBVIOUS
<1>9. pointer' = [pointer EXCEPT ![g] = q] /\ q \in Nat /\ q < n
  <2>1. (k + 1) % n = q
    BY <1>6, <1>7, <1>8, NextIndex
  <2>2. pointer' = [pointer EXCEPT ![g] = ((p % n) + 1) % n]
    BY <1>1, <1>2, <1>3, <1>4 DEF Advanced, Base, Shape
  <2>3. q \in Nat /\ q < n
    BY <1>6, <1>7, <1>8 DEF After
  <2> QED BY <1>7, <2>1, <2>2, <2>3
<1>10. PICK kept : kept = IF streak[g].pool # pool THEN <<>>
                          ELSE IF Len(streak[g].picks) < n THEN streak[g].picks
                          ELSE Tail(streak[g].picks)
  OBVIOUS
<1>11. PICK s : s = Append(kept, pick)
  OBVIOUS
<1>12. streak' = [streak EXCEPT ![g] = [pool |-> pool, picks |-> s]]
  BY <1>1, <1>2, <1>3, <1>5, <1>10, <1>11 DEF Streak
<1>13. GoRound(pool, kept, k, n) /\ Len(kept) < n
  <2>1. GoRound(pool, <<>>, k, n) /\ Len(<<>>) = 0
    <3>1. \A i \in 1..Len(<<>>) : FALSE
      OBVIOUS
    <3> QED BY <1>6, <1>7, <3>1 DEF GoRound
  <2>2. CASE streak[g].pool # pool
    BY <1>6, <1>7, <1>10, <2>1, <2>2
  <2>3. CASE streak[g].pool = pool
    <3>1. PICK c : c = streak[g].picks
      OBVIOUS
    <3>2. GoRound(pool, c, p, n) /\ (c # <<>> => p < n)
      BY <1>3, <1>4, <2>3, <3>1 DEF Base, TurnInv, Streaks
    <3>3. kept = IF Len(c) < n THEN c ELSE Tail(c)
      BY <1>10, <2>3, <3>1
    <3>4. n # 0
      BY <1>6, <1>7
    <3>5. GoRound(pool, kept, p, n) /\ Len(kept) < n /\ (kept # <<>> => c # <<>>)
      BY <1>6, <3>2, <3>3, <3>4, KeptIs
    <3>6. CASE kept = <<>>
      BY <2>1, <3>5, <3>6
    <3>7. CASE kept # <<>>
      <4>1. p = k
        BY <1>6, <1>7, <3>2, <3>5, <3>7, NextIndex
      <4> QED BY <3>5, <4>1
    <3> QED BY <3>6, <3>7
  <2> QED BY <2>2, <2>3
<1>14. Rank(pool, pick) = k
  BY <1>5, <1>7
<1>15. GoRound(pool, s, q, n) /\ s \in Seq(pool)
  <2>1. GoRound(pool, s, q, n)
    BY <1>6, <1>7, <1>8, <1>11, <1>13, <1>14, StreakGrows
  <2> QED BY <2>1 DEF GoRound
<1>16. pointer'[g] = q /\ streak'[g].pool = pool /\ streak'[g].picks = s
  BY <1>9, <1>12 DEF Base, Shape
<1>17. Streaks(g)'
  BY <1>3, <1>6, <1>9, <1>15, <1>16 DEF Streaks, GoRound
<1>18. s \in Seq(Salesmen)
  BY <1>6, <1>15, SeqOfMore
<1> QED BY <1>6, <1>9, <1>12, <1>17, <1>18 DEF Base, Shape

-----------------------------------------------------------------------------
(***************************************************************************)
(* Base holds at every step.                                               *)
(***************************************************************************)

LEMMA BaseInit == ASSUME Init PROVE Base
<1>1. Shape
  <2>1. \A g \in Languages : streak[g] \in [pool : SUBSET Salesmen, picks : Seq(Salesmen)]
    BY DEF Init
  <2>2. Attempts \in Nat
    BY Company DEF Company
  <2>3. lead \in [Leads -> LeadRow]
    <3>1. PICK row : row = [here |-> FALSE, active |-> FALSE, clock |-> FALSE,
                            team |-> NULL, salesman |-> NULL]
      OBVIOUS
    <3>2. row \in LeadRow
      BY <3>1 DEF LeadRow, Person
    <3> QED BY <3>1, <3>2 DEF Init
  <2>4. streak \in [Languages -> [pool : SUBSET Salesmen, picks : Seq(Salesmen)]]
    BY <2>1 DEF Init
  <2>5. /\ tries \in [Leads -> [Teams -> 0..Attempts]]
        /\ moves \in [Leads -> Nat] /\ late \in [Leads -> Nat]
        /\ seen \in [Runs -> Seen \cup {NULL}]
    BY <2>2 DEF Init
  <2>6. /\ policy \in Policies /\ available \subseteq Salesmen
        /\ pointer \in [Languages -> Nat] /\ received \in [Salesmen -> Nat]
        /\ run \in [Runs -> Decision \cup {NULL}] /\ disturbed \in BOOLEAN
    BY DEF Init
  <2> QED BY <2>3, <2>4, <2>5, <2>6 DEF Shape
<1>2. RunsInv
  BY DEF Init, RunsInv
<1>3. ASSUME NEW g \in Languages PROVE Streaks(g)
  <2>1. streak[g].pool = {} /\ streak[g].picks = <<>> /\ pointer[g] = 0
    BY <1>3 DEF Init
  <2>2. Cardinality({}) = 0
    BY FS_EmptySet
  <2>3. GoRound({}, <<>>, 0, 0)
    <3>1. \A i \in 1..Len(<<>>) : FALSE
      OBVIOUS
    <3> QED BY <3>1 DEF GoRound
  <2> QED BY <2>1, <2>2, <2>3 DEF Streaks
<1>4. TurnInv
  BY <1>3 DEF TurnInv, HasTurn, Init
<1> QED BY <1>1, <1>2, <1>4 DEF Base

LEMMA BaseDecides ==
    ASSUME Base, NEW r \in Runs, NEW l \in Leads, NEW d, Decides(r, l, d)
    PROVE  Base'
<1>1. /\ d \in Decision /\ d.lead = l /\ run' = [run EXCEPT ![r] = d]
      /\ d.pick # NULL => d.pick \in d.pool
      /\ d.cause = "arrive" => ~lead[l].here
      /\ d.cause = "expire" => seen[r] # NULL /\ seen[r].lead = l
      /\ \A q \in Runs : run[q] # NULL => run[q].lead # l
      /\ UNCHANGED <<policy, lead, available, pointer, tries, received, seen, streak,
                     moves, late, disturbed>>
  BY DEF Decides, Chosen, LeadLocked
<1>2. \A q \in Runs : run'[q] = IF q = r THEN d ELSE run[q]
  BY <1>1 DEF Base, Shape
<1>3. Shape'
  BY <1>1 DEF Base, Shape
<1>4. RunsInv'
  BY <1>1, <1>2 DEF Base, RunsInv
<1>5. ASSUME NEW g \in Languages, NEW q \in Runs, HasTurn(q, g)'
      PROVE  /\ \A p \in Runs : HasTurn(p, g)' => p = q
             /\ run'[q].pick \in run'[q].pool
             /\ Rank(run'[q].pool, run'[q].pick) = pointer'[g] % Cardinality(run'[q].pool)
  <2>1. \A p \in Runs : HasTurn(p, g)' =>
           IF p = r THEN d.by = "BY_TURN" /\ LanguageOf[l] = g ELSE HasTurn(p, g)
    BY <1>1, <1>2 DEF HasTurn
  <2>2. d.by = "BY_TURN" /\ LanguageOf[l] = g =>
           /\ \A p \in Runs : ~HasTurn(p, g)
           /\ d.pick \in d.pool
           /\ Rank(d.pool, d.pick) = pointer[g] % Cardinality(d.pool)
    BY DEF Decides, Chosen, TurnLocked, HasTurn
  <2>3. CASE q = r
    BY <1>1, <1>2, <1>5, <2>1, <2>2, <2>3
  <2>4. CASE q # r
    <3>1. /\ HasTurn(q, g) /\ run'[q] = run[q] /\ pointer' = pointer
          /\ \A p \in Runs : HasTurn(p, g)' => HasTurn(p, g)
      BY <1>1, <1>2, <1>5, <2>1, <2>2, <2>4
    <3> QED BY <3>1 DEF Base, TurnInv
  <2> QED BY <2>3, <2>4
<1>6. \A g \in Languages : Streaks(g)'
  BY <1>1 DEF Base, TurnInv, Streaks
<1>7. TurnInv'
  BY <1>5, <1>6 DEF TurnInv
<1> QED BY <1>3, <1>4, <1>7 DEF Base

LEMMA CountedIs ==
    ASSUME Shape, NEW d
    PROVE  Counted(d) \in [Leads -> [Teams -> 0..Attempts]]
<1>1. PICK l, t : l = d.lead /\ t = TeamOf[d.pick]
  OBVIOUS
<1>2. Attempts \in Nat
  BY Company DEF Company
<1>3. \A k \in Leads : [tries[k] EXCEPT ![t] = IF @ < Attempts THEN @ + 1 ELSE @]
                          \in [Teams -> 0..Attempts]
  <2> SUFFICES ASSUME NEW k \in Leads
               PROVE  [tries[k] EXCEPT ![t] = IF @ < Attempts THEN @ + 1 ELSE @]
                          \in [Teams -> 0..Attempts]
    OBVIOUS
  <2>1. PICK f \in [Teams -> 0..Attempts] : f = tries[k]
    BY DEF Shape
  <2>2. \A u \in Teams : IF f[u] < Attempts THEN f[u] + 1 \in 0..Attempts ELSE TRUE
    BY <1>2
  <2> QED BY <2>1, <2>2
<1>4. CASE d.by = "RETRY"
  BY <1>1, <1>3, <1>4 DEF Counted, Shape
<1>5. CASE d.by # "RETRY"
  BY <1>5 DEF Counted, Shape
<1> QED BY <1>4, <1>5

LEMMA BaseCommit ==
    ASSUME Base, NEW r \in Runs, Commit(r)
    PROVE  Base'
<1>1. PICK d : d = run[r]
  OBVIOUS
<1>2. Shape
  BY DEF Base
<1>3. /\ d \in Decision /\ d # NULL
      /\ \E row : Written(r, d.lead, d, row)
      /\ Forgets(r, d.lead)
      /\ received' \in [Salesmen -> Nat]
      /\ pointer' = Advanced(d) /\ tries' = Counted(d) /\ streak' = Streak(d)
      /\ disturbed' = (disturbed \/ d.cause # "arrive")
      /\ run' = [run EXCEPT ![r] = NULL]
      /\ policy' = policy /\ available' = available
  BY <1>1, <1>2, CommitIs
<1>4. PICK l \in Leads : l = d.lead
  BY <1>3 DEF Decision
<1>5. PICK row : Written(r, l, d, row)
  BY <1>3, <1>4
<1>6. PICK g \in Languages : g = LanguageOf[l]
  BY LanguageIs
<1>7. lead' = [lead EXCEPT ![l] = row] /\ row \in LeadRow /\ row.here
  BY <1>5 DEF Written
<1>8. \A q \in Runs : run'[q] = IF q = r THEN NULL ELSE run[q]
  BY <1>2, <1>3 DEF Shape
<1>9. /\ pointer' \in [Languages -> Nat]
      /\ streak' \in [Languages -> [pool : SUBSET Salesmen, picks : Seq(Salesmen)]]
      /\ \A h \in Languages : Streaks(h)'
      /\ \A h \in Languages, q \in Runs : HasTurn(q, h)' =>
             HasTurn(q, h) /\ run'[q] = run[q] /\ pointer'[h] = pointer[h]
  <2>1. \A h \in Languages, q \in Runs : HasTurn(q, h)' =>
           q # r /\ HasTurn(q, h) /\ run'[q] = run[q]
    BY <1>8 DEF HasTurn
  <2>2. CASE d.by = "BY_TURN"
    <3>1. HasTurn(r, g)
      BY <1>1, <1>3, <1>4, <1>6, <2>2 DEF HasTurn
    <3>2. /\ pointer' \in [Languages -> Nat]
          /\ streak' \in [Languages -> [pool : SUBSET Salesmen, picks : Seq(Salesmen)]]
          /\ \A h \in Languages \ {g} : pointer'[h] = pointer[h] /\ streak'[h] = streak[h]
          /\ Streaks(g)'
      BY <1>1, <1>3, <3>1, StreakIs
    <3>3. \A h \in Languages : Streaks(h)'
      BY <3>2 DEF Base, TurnInv, Streaks
    <3>4. \A h \in Languages, q \in Runs : HasTurn(q, h)' => h # g
      BY <2>1, <3>1 DEF Base, TurnInv
    <3> QED BY <2>1, <3>2, <3>3, <3>4
  <2>3. CASE d.by # "BY_TURN"
    <3>1. pointer' = pointer /\ streak' = streak
      BY <1>3, <2>3 DEF Advanced, Streak
    <3>2. \A h \in Languages : Streaks(h)'
      BY <3>1 DEF Base, TurnInv, Streaks
    <3> QED BY <1>2, <2>1, <3>1, <3>2 DEF Shape
  <2> QED BY <2>2, <2>3
<1>10. Shape'
  <2>1. /\ lead' \in [Leads -> LeadRow] /\ moves' \in [Leads -> Nat] /\ late' \in [Leads -> Nat]
        /\ seen' \in [Runs -> Seen \cup {NULL}]
    BY <1>2, <1>3, <1>5 DEF Written, Forgets, Shape
  <2>2. tries' \in [Leads -> [Teams -> 0..Attempts]]
    BY <1>2, <1>3, CountedIs
  <2>3. run' \in [Runs -> Decision \cup {NULL}] /\ disturbed' \in BOOLEAN
    BY <1>2, <1>3 DEF Shape
  <2> QED BY <1>2, <1>3, <1>9, <2>1, <2>2, <2>3 DEF Shape
<1>11. RunsInv'
  <2>1. \A q \in Runs : run'[q] # NULL => q # r /\ run'[q] = run[q] /\ run[q].lead # l
    BY <1>1, <1>3, <1>4, <1>8 DEF Base, RunsInv
  <2>2. \A k \in Leads : lead'[k] = IF k = l THEN row ELSE lead[k]
    BY <1>2, <1>7 DEF Shape
  <2>3. \A q \in Runs : run'[q] # NULL => run[q].lead \in Leads
    BY <1>2, <2>1 DEF Shape, Decision
  <2>4. \A q \in Runs : run'[q] # NULL /\ run'[q].cause = "expire" =>
           seen'[q] # NULL /\ seen'[q].lead = run'[q].lead
    BY <1>3, <2>1 DEF Base, RunsInv, Forgets
  <2> QED BY <1>7, <2>1, <2>2, <2>3, <2>4 DEF Base, RunsInv
<1>12. TurnInv'
  BY <1>9 DEF Base, TurnInv
<1> QED BY <1>10, <1>11, <1>12 DEF Base

LEMMA BaseRollback ==
    ASSUME Base, NEW r \in Runs, Rollback(r)
    PROVE  Base'
<1>1. \A q \in Runs : /\ run'[q] = IF q = r THEN NULL ELSE run[q]
                      /\ q # r => seen'[q] = seen[q]
  BY DEF Base, Shape, Rollback
<1>2. Shape'
  BY DEF Base, Shape, Rollback
<1>3. RunsInv'
  <2>1. \A q \in Runs : run'[q] # NULL =>
            run'[q] = run[q] /\ run[q] # NULL /\ seen'[q] = seen[q]
    BY <1>1
  <2>2. lead' = lead
    BY DEF Rollback
  <2> QED BY <2>1, <2>2 DEF Base, RunsInv
<1>4. TurnInv'
  <2>1. \A g \in Languages, q \in Runs : HasTurn(q, g)' => HasTurn(q, g) /\ run'[q] = run[q]
    <3> SUFFICES ASSUME NEW g \in Languages, NEW q \in Runs, HasTurn(q, g)'
                 PROVE  HasTurn(q, g) /\ run'[q] = run[q]
      OBVIOUS
    <3>1. run'[q] # NULL
      BY DEF HasTurn
    <3>2. run'[q] = run[q]
      BY <1>1, <3>1
    <3> QED BY <3>2 DEF HasTurn
  <2>2. pointer' = pointer /\ streak' = streak
    BY DEF Rollback
  <2>3. \A g \in Languages : Streaks(g)'
    BY <2>2 DEF Base, TurnInv, Streaks
  <2> QED BY <2>1, <2>2, <2>3 DEF Base, TurnInv
<1> QED BY <1>2, <1>3, <1>4 DEF Base

LEMMA BaseHandled ==
    ASSUME Base, NEW l \in Leads, NEW row, Handled(l, row)
    PROVE  Base'
<1>1. /\ lead' = [lead EXCEPT ![l] = row] /\ row \in LeadRow /\ row.here
      /\ received' \in [Salesmen -> Nat] /\ moves' = [moves EXCEPT ![l] = 0]
      /\ late' = [late EXCEPT ![l] = 0] /\ (seen' = Ended(l) \/ seen' = seen)
      /\ disturbed' = TRUE
      /\ UNCHANGED <<policy, available, pointer, tries, run, streak>>
      /\ \A q \in Runs : run[q] # NULL => run[q].lead # l
  BY DEF Handled, Touched, LeadLocked
<1>2. /\ seen' \in [Runs -> Seen \cup {NULL}]
      /\ \A q \in Runs : seen[q] # NULL => seen'[q] # NULL /\ seen'[q].lead = seen[q].lead
  BY <1>1, EndedIs DEF Base, Shape
<1>3. Shape'
  BY <1>1, <1>2 DEF Base, Shape
<1>4. RunsInv'
  <2>1. \A k \in Leads : lead'[k] = IF k = l THEN row ELSE lead[k]
    BY <1>1 DEF Base, Shape
  <2>2. \A q \in Runs : run[q] # NULL => run[q].lead \in Leads
    BY DEF Base, Shape, Decision
  <2> QED BY <1>1, <1>2, <2>1, <2>2 DEF Base, RunsInv
<1>5. TurnInv'
  BY <1>1 DEF Base, TurnInv, HasTurn, Streaks
<1> QED BY <1>3, <1>4, <1>5 DEF Base

LEMMA BaseReads ==
    ASSUME Base, NEW r \in Runs, NEW x, Reads(r, x)
    PROVE  Base'
<1>1. Shape'
  BY DEF Base, Shape, Reads
<1>2. RunsInv'
  BY DEF Base, Shape, RunsInv, Reads
<1>3. TurnInv'
  BY DEF Base, TurnInv, HasTurn, Streaks, Reads
<1> QED BY <1>1, <1>2, <1>3 DEF Base

LEMMA BaseSetAvailability ==
    ASSUME Base, NEW m \in Salesmen, SetAvailability(m)
    PROVE  Base'
<1>1. Shape'
  BY DEF Base, Shape, SetAvailability
<1>2. RunsInv'
  BY DEF Base, RunsInv, SetAvailability
<1>3. TurnInv'
  BY DEF Base, TurnInv, HasTurn, Streaks, SetAvailability
<1> QED BY <1>1, <1>2, <1>3 DEF Base

LEMMA BaseStep == Base /\ [Next]_vars => Base'
<1> SUFFICES ASSUME Base, [Next]_vars PROVE Base'
  OBVIOUS
<1>1. CASE UNCHANGED vars
  BY <1>1 DEF Base, Shape, RunsInv, TurnInv, HasTurn, Streaks, vars
<1>2. Shape
  BY DEF Base
<1> QED BY <1>1, <1>2, StepIs, BaseDecides, BaseReads, BaseCommit, BaseRollback,
           BaseHandled, BaseSetAvailability

LEMMA BaseHolds == Spec => []Base
<1> QED BY BaseInit, BaseStep, PTL DEF Spec

-----------------------------------------------------------------------------
(***************************************************************************)
(* Nobody has a second turn before everybody has had one.                  *)
(***************************************************************************)
LEMMA BackOnce ==
    ASSUME NEW n \in Nat, NEW p \in Nat, p < n,
           NEW i \in 1..n, NEW j \in 1..n, Back(p, i, n) = Back(p, j, n)
    PROVE  i = j
BY DEF Back

LEMMA BaseTurns == ASSUME Base PROVE TurnsGoRound
<1> SUFFICES ASSUME NEW g \in Languages PROVE IsInjective(streak[g].picks)
  BY DEF TurnsGoRound
<1>1. PICK s, pool, n : s = streak[g].picks /\ pool = streak[g].pool /\ n = Cardinality(pool)
  OBVIOUS
<1>2. /\ pool \subseteq Salesmen /\ s \in Seq(pool) /\ Len(s) <= n
      /\ s # <<>> => pointer[g] < n
      /\ \A i \in 1..Len(s) : Rank(pool, s[i]) = Back(pointer[g], Len(s) + 1 - i, n)
  BY <1>1 DEF Base, TurnInv, Streaks, GoRound
<1>3. n \in Nat
  BY <1>1, <1>2, FS_Subset, FS_CardinalityType, Company DEF Company
<1>4. ASSUME NEW i \in 1..Len(s), NEW j \in 1..Len(s), s[i] = s[j]
      PROVE  i = j
  <2>1. PICK p \in Nat : p = pointer[g]
    BY DEF Base, Shape
  <2>2. Len(s) \in Nat /\ s # <<>>
    BY <1>2, <1>4
  <2>3. PICK k \in Nat : k = Len(s) + 1 - i
    BY <2>2
  <2>4. PICK m \in Nat : m = Len(s) + 1 - j
    BY <2>2
  <2>5. k \in 1..n /\ m \in 1..n
    BY <1>2, <1>3, <2>2, <2>3, <2>4
  <2>6. Back(p, k, n) = Back(p, m, n)
    BY <1>2, <1>4, <2>1, <2>3, <2>4
  <2>7. k = m
    BY <1>2, <1>3, <2>1, <2>2, <2>5, <2>6, BackOnce
  <2> QED BY <2>2, <2>3, <2>4, <2>7
<1>5. DOMAIN s = 1..Len(s)
  BY <1>2
<1> QED BY <1>1, <1>4, <1>5 DEF IsInjective

\* Taking turns goes round: for any number of processes that take turns at once,
\* commit or fail, ByTurnStrategy.select_candidate gives nobody in an unchanged pool
\* a second turn before everybody in it has had one.
THEOREM TurnsAreRound == Spec => []TurnsGoRound
<1>1. Base => TurnsGoRound
  BY BaseTurns
<1> QED BY <1>1, BaseHolds, PTL

-----------------------------------------------------------------------------
(***************************************************************************)
(* Loads stay level.                                                       *)
(***************************************************************************)
Held(m) == {l \in Leads : lead[l].active /\ lead[l].salesman = m}

LEMMA LeadsAre ==
    ASSUME NEW S, S \subseteq Leads, NEW T, T \subseteq S
    PROVE  Cardinality(S) \in Nat /\ Cardinality(T) \in Nat /\ Cardinality(T) <= Cardinality(S)
<1>1. IsFiniteSet(S)
  BY FS_Subset, Company DEF Company
<1> QED BY <1>1, FS_Subset, FS_CardinalityType

LEMMA RunsAre ==
    ASSUME NEW S, S \subseteq Runs, NEW T, T \subseteq S
    PROVE  /\ Cardinality(S) \in Nat /\ Cardinality(T) \in Nat /\ Cardinality(Runs) \in Nat
           /\ Cardinality(T) <= Cardinality(S) /\ Cardinality(S) <= Cardinality(Runs)
<1>1. IsFiniteSet(S) /\ IsFiniteSet(Runs)
  BY FS_Subset, Company DEF Company
<1> QED BY <1>1, FS_Subset, FS_CardinalityType

LEMMA LevelInit == ASSUME Init PROVE LevelInv
<1>1. ASSUME NEW m \in Salesmen
      PROVE  candidate_load(m) = 0 /\ Cardinality(Pending(m)) = 0
  <2>1. {l \in Leads : lead[l].active /\ lead[l].salesman = m} = {} /\ Pending(m) = {}
    BY DEF Init, Pending
  <2> QED BY <2>1, FS_EmptySet DEF candidate_load
<1>2. Cardinality(Runs) \in Nat
  BY FS_CardinalityType, Company DEF Company
<1> QED BY <1>1, <1>2 DEF LevelInv, Init

\* He who is chosen had no more leads than anybody of his languages.
LEMMA LevelDecides ==
    ASSUME Base, LevelInv, NEW r \in Runs, NEW l \in Leads, NEW d, Decides(r, l, d)
    PROVE  LevelInv'
<1> SUFFICES ASSUME Alike',
                    NEW m \in Salesmen, NEW x \in Salesmen, Speaks[m] = Speaks[x]
             PROVE  candidate_load(m)' + Cardinality(Pending(m)')
                      <= candidate_load(x)' + Cardinality(Runs)
  BY DEF LevelInv, Alike, Decides
<1>1. /\ policy' = policy /\ lead' = lead /\ run[r] = NULL /\ Alike
      /\ \A q \in Runs : run'[q] = IF q = r THEN d ELSE run[q]
  BY DEF Decides, Alike, Base, Shape
<1>2. PICK a, b : a = candidate_load(m) /\ b = candidate_load(x)
  OBVIOUS
<1>3. candidate_load(m)' = a /\ candidate_load(x)' = b /\ a \in Nat /\ b \in Nat
  BY <1>1, <1>2, LoadIs DEF candidate_load
<1>4. CASE d.cause = "arrive" /\ d.pick = m
  <2>1. a <= b
    <3>1. PICK pool : pool = d.pool
      OBVIOUS
    <3>2. m # NULL /\ x # NULL
      BY Company DEF Company
    <3>3. /\ pool = Others(eligible_pool(l, policy.scope, NULL), lead[l].salesman)
          /\ m = RoundRobin(pool) /\ m \in pool
          /\ lead[l].salesman = NULL /\ available = Salesmen
      BY <1>1, <1>4, <3>1, <3>2
         DEF Decides, Distributed, Chosen, Base, RunsInv, Alike, LevelInv
    <3>4. pool \subseteq Salesmen /\ x \in pool
      BY <3>2, <3>3 DEF Others, eligible_pool
    <3>5. received \in [Salesmen -> Nat]
      BY DEF Base, Shape
    <3>6. candidate_load(m) <= candidate_load(x)
      BY <3>3, <3>4, <3>5, RoundRobinIs
    <3> QED BY <1>2, <3>6
  <2>2. PICK c : c = Cardinality(Pending(m)')
    OBVIOUS
  <2>3. Pending(m)' \subseteq Runs
    BY DEF Pending
  <2>4. c \in Nat /\ Cardinality(Runs) \in Nat /\ c <= Cardinality(Runs)
    BY <2>2, <2>3, RunsAre
  <2> QED BY <1>3, <2>1, <2>2, <2>4
<1>5. CASE ~(d.cause = "arrive" /\ d.pick = m)
  <2>1. Pending(m)' = Pending(m)
    BY <1>1, <1>5 DEF Pending
  <2> QED BY <1>1, <1>2, <1>3, <2>1 DEF LevelInv
<1> QED BY <1>4, <1>5

\* A commit turns a pending lead into a load.
LEMMA LevelCommit ==
    ASSUME Base, LevelInv, NEW r \in Runs, Commit(r)
    PROVE  LevelInv'
<1>1. PICK d : d = run[r]
  OBVIOUS
<1>2. Shape
  BY DEF Base
<1>3. /\ d \in Decision /\ d # NULL
      /\ \E row : Written(r, d.lead, d, row)
      /\ disturbed' = (disturbed \/ d.cause # "arrive")
      /\ run' = [run EXCEPT ![r] = NULL]
      /\ policy' = policy /\ available' = available
  BY <1>1, <1>2, CommitIs
<1>4. PICK l \in Leads : l = d.lead
  BY <1>3 DEF Decision
<1>5. PICK row : Written(r, l, d, row)
  BY <1>3, <1>4
<1> SUFFICES ASSUME Alike' PROVE LevelInv'
  BY DEF LevelInv
<1>6. Alike /\ d.cause = "arrive"
  BY <1>3 DEF Alike, Base, Shape
<1>7. ~lead[l].here /\ ~lead[l].active /\ lead[l].salesman = NULL
  BY <1>1, <1>3, <1>4, <1>6 DEF Base, RunsInv
<1>8. \A k \in Leads : lead'[k] = IF k = l THEN row ELSE lead[k]
  BY <1>2, <1>5 DEF Shape, Written
<1>9. \A q \in Runs : run'[q] = IF q = r THEN NULL ELSE run[q]
  BY <1>2, <1>3 DEF Shape
<1>10. ASSUME NEW m \in Salesmen
       PROVE  /\ candidate_load(m) \in Nat /\ candidate_load(m)' \in Nat
              /\ Cardinality(Pending(m)) \in Nat /\ Cardinality(Pending(m)') \in Nat
              /\ candidate_load(m) <= candidate_load(m)'
              /\ candidate_load(m)' + Cardinality(Pending(m)')
                   <= candidate_load(m) + Cardinality(Pending(m))
  <2>1. PICK H, G, P, Q : H = Held(m) /\ G = Held(m)' /\ P = Pending(m) /\ Q = Pending(m)'
    OBVIOUS
  <2>2. /\ candidate_load(m) = Cardinality(H) /\ candidate_load(m)' = Cardinality(G)
        /\ Cardinality(Pending(m)) = Cardinality(P)
        /\ Cardinality(Pending(m)') = Cardinality(Q)
    BY <2>1 DEF candidate_load, Held
  <2>3. m # NULL
    BY Company DEF Company
  <2>4. /\ H \subseteq Leads /\ G \subseteq Leads /\ P \subseteq Runs /\ Q \subseteq Runs
        /\ H \subseteq G /\ Q = P \ {r} /\ l \notin H
    BY <1>7, <1>8, <1>9, <2>1, <2>3 DEF Held, Pending
  <2>5. /\ Cardinality(H) \in Nat /\ Cardinality(G) \in Nat
        /\ Cardinality(P) \in Nat /\ Cardinality(Q) \in Nat
        /\ Cardinality(H) <= Cardinality(G) /\ Cardinality(Q) <= Cardinality(P)
    BY <2>4, LeadsAre, RunsAre
  <2>6. CASE d.pick = m
    <3>1. r \in P
      BY <1>1, <1>3, <1>6, <2>1, <2>6 DEF Pending
    <3>2. Cardinality(Q) = Cardinality(P) - 1
      <4>1. IsFiniteSet(P)
        BY <2>4, FS_Subset, Company DEF Company
      <4> QED BY <2>4, <3>1, <4>1, FS_RemoveElement
    <3>3. G \subseteq H \cup {l}
      BY <1>8, <2>1 DEF Held
    <3>4. Cardinality(H \cup {l}) = Cardinality(H) + 1
      <4>1. IsFiniteSet(H)
        BY <2>4, FS_Subset, Company DEF Company
      <4> QED BY <2>4, <4>1, FS_AddElement
    <3>5. Cardinality(G) <= Cardinality(H) + 1
      <4>1. H \cup {l} \subseteq Leads
        BY <2>4
      <4> QED BY <3>3, <3>4, <4>1, LeadsAre
    <3> QED BY <2>2, <2>5, <3>2, <3>5
  <2>7. CASE d.pick # m
    <3>1. row.salesman # m
      BY <1>5, <1>7, <2>3, <2>7 DEF Written
    <3>2. G = H
      BY <1>7, <1>8, <2>1, <2>3, <3>1 DEF Held
    <3> QED BY <2>2, <2>5, <3>2
  <2> QED BY <2>6, <2>7
<1>11. available' = Salesmen
  BY <1>3, <1>6 DEF LevelInv
<1>12. ASSUME NEW m \in Salesmen, NEW x \in Salesmen, Speaks[m] = Speaks[x]
       PROVE  candidate_load(m)' + Cardinality(Pending(m)')
                <= candidate_load(x)' + Cardinality(Runs)
  <2>1. candidate_load(m) + Cardinality(Pending(m)) <= candidate_load(x) + Cardinality(Runs)
    BY <1>6, <1>12 DEF LevelInv
  <2>2. Cardinality(Runs) \in Nat
    BY FS_CardinalityType, Company DEF Company
  <2> QED BY <1>10, <2>1, <2>2
<1> QED BY <1>11, <1>12 DEF LevelInv

LEMMA LevelRollback ==
    ASSUME Base, LevelInv, NEW r \in Runs, Rollback(r)
    PROVE  LevelInv'
<1> SUFFICES ASSUME Alike',
                    NEW m \in Salesmen, NEW x \in Salesmen, Speaks[m] = Speaks[x]
             PROVE  candidate_load(m)' + Cardinality(Pending(m)')
                      <= candidate_load(x)' + Cardinality(Runs)
  BY DEF LevelInv, Alike, Rollback
<1>1. PICK a, b, P, Q : /\ a = candidate_load(m) /\ b = candidate_load(x)
                        /\ P = Pending(m) /\ Q = Pending(m)'
  OBVIOUS
<1>2. candidate_load(m)' = a /\ candidate_load(x)' = b /\ a \in Nat /\ b \in Nat
  BY <1>1, LoadIs DEF candidate_load, Rollback
<1>3. P \subseteq Runs /\ Q \subseteq P
  BY <1>1 DEF Pending, Rollback, Base, Shape
<1>4. /\ Cardinality(P) \in Nat /\ Cardinality(Q) \in Nat /\ Cardinality(Runs) \in Nat
      /\ Cardinality(Q) <= Cardinality(P)
  BY <1>3, RunsAre
<1>5. a + Cardinality(P) <= b + Cardinality(Runs)
  BY <1>1 DEF LevelInv, Alike, Rollback
<1> QED BY <1>1, <1>2, <1>4, <1>5

LEMMA LevelStep == Base /\ LevelInv /\ [Next]_vars => LevelInv'
<1> SUFFICES ASSUME Base, LevelInv, [Next]_vars PROVE LevelInv'
  OBVIOUS
<1>1. CASE UNCHANGED vars
  BY <1>1 DEF LevelInv, Alike, candidate_load, Pending, vars
<1>2. Shape
  BY DEF Base
<1>3. ASSUME NEW l \in Leads, NEW row, Handled(l, row) PROVE LevelInv'
  BY <1>3 DEF Handled, Touched, LevelInv, Alike
<1>4. ASSUME NEW m \in Salesmen, SetAvailability(m) PROVE LevelInv'
  BY <1>4 DEF SetAvailability, LevelInv, Alike
<1>5. ASSUME NEW r \in Runs, NEW x, Reads(r, x) PROVE LevelInv'
  BY <1>5 DEF Reads, LevelInv, Alike, candidate_load, Pending
<1> QED BY <1>1, <1>2, <1>3, <1>4, <1>5, StepIs, LevelDecides, LevelCommit, LevelRollback

\* Round Robin keeps loads level: however many processes read the loads before any of
\* them commits, as long as leads only arrive, RoundRobinStrategy.select_candidate lets two
\* salesmen of the same languages differ by no more leads than there are processes.
THEOREM LoadsAreLevel == Spec => []LoadsStayLevel
<1>1. Init => LevelInv
  BY LevelInit
<1>2. ASSUME LevelInv PROVE LoadsStayLevel
  <2> SUFFICES ASSUME Alike, NEW m \in Salesmen, NEW x \in Salesmen, Speaks[m] = Speaks[x]
               PROVE  candidate_load(m) <= candidate_load(x) + Cardinality(Runs)
    BY DEF LoadsStayLevel, Alike
  <2>1. candidate_load(m) + Cardinality(Pending(m)) <= candidate_load(x) + Cardinality(Runs)
    BY <1>2 DEF LevelInv
  <2>2. Cardinality(Pending(m)) \in Nat /\ Cardinality(Runs) \in Nat
    <3>1. Pending(m) \subseteq Runs
      BY DEF Pending
    <3> QED BY <3>1, RunsAre
  <2>3. candidate_load(m) \in Nat /\ candidate_load(x) \in Nat
    BY LoadIs
  <2> QED BY <2>1, <2>2, <2>3
<1>3. LevelInv => LoadsStayLevel
  BY <1>2
<1> QED BY <1>1, <1>3, LevelStep, BaseHolds, PTL DEF Spec

-----------------------------------------------------------------------------
(***************************************************************************)
(* Rotations are bounded.                                                  *)
(***************************************************************************)
LEMMA TeamsAre ==
    /\ IsFiniteSet(Teams) /\ Teams \subseteq Nat /\ NULL \notin Teams /\ Attempts \in Nat
    /\ Cardinality(Teams) \in Nat
    /\ \A t \in Teams : Rank(Teams, t) \in Nat /\ Rank(Teams, t) < Cardinality(Teams)
<1>1. IsFiniteSet(Teams) /\ Teams \subseteq Nat /\ NULL \notin Teams /\ Attempts \in Nat
  BY Company DEF Company
<1> QED BY <1>1, FS_CardinalityType, RankBound

\* The retries of a lead, as places in a table of teams and attempts.
Taken(f) == {p \in Teams \X (1..Attempts) : p[2] <= f[p[1]]}

LEMMA TakenIs ==
    ASSUME NEW f \in [Teams -> 0..Attempts]
    PROVE  /\ IsFiniteSet(Taken(f)) /\ Cardinality(Taken(f)) \in Nat
           /\ Cardinality(Taken(f)) <= Cardinality(Teams) * Attempts
<1>1. IsFiniteSet(1..Attempts) /\ Cardinality(1..Attempts) = Attempts
  BY TeamsAre, FS_Interval
<1>2. /\ IsFiniteSet(Teams \X (1..Attempts))
      /\ Cardinality(Teams \X (1..Attempts)) = Cardinality(Teams) * Attempts
  BY <1>1, TeamsAre, FS_Product
<1>3. Taken(f) \subseteq Teams \X (1..Attempts)
  BY DEF Taken
<1>4. /\ IsFiniteSet(Taken(f))
      /\ Cardinality(Taken(f)) <= Cardinality(Teams \X (1..Attempts))
  BY <1>2, <1>3, FS_Subset
<1> QED BY <1>2, <1>4, FS_CardinalityType

\* One more retry is one more place.
LEMMA TakenGrows ==
    ASSUME NEW f \in [Teams -> 0..Attempts], NEW g \in [Teams -> 0..Attempts],
           \A t \in Teams : f[t] <= g[t]
    PROVE  /\ Cardinality(Taken(f)) <= Cardinality(Taken(g))
           /\ \A t \in Teams : f[t] < g[t] =>
                 Cardinality(Taken(f)) + 1 <= Cardinality(Taken(g))
<1>1. \A t \in Teams : f[t] \in Nat /\ g[t] \in Nat /\ g[t] <= Attempts
  BY TeamsAre
<1>2. Taken(f) \subseteq Taken(g)
  BY <1>1 DEF Taken
<1>3. IsFiniteSet(Taken(g)) /\ Cardinality(Taken(f)) \in Nat /\ Cardinality(Taken(g)) \in Nat
  BY TakenIs
<1>4. Cardinality(Taken(f)) <= Cardinality(Taken(g))
  BY <1>2, <1>3, FS_Subset
<1>5. ASSUME NEW t \in Teams, f[t] < g[t]
      PROVE  Cardinality(Taken(f)) + 1 <= Cardinality(Taken(g))
  <2>1. <<t, g[t]>> \in Taken(g) /\ <<t, g[t]>> \notin Taken(f)
    BY <1>1, <1>5, TeamsAre DEF Taken
  <2>2. Taken(f) # Taken(g)
    BY <2>1
  <2>3. Cardinality(Taken(f)) # Cardinality(Taken(g))
    BY <1>2, <1>3, <2>2, FS_Subset
  <2> QED BY <1>3, <1>4, <2>3
<1> QED BY <1>4, <1>5

LEMMA RetriesAre ==
    ASSUME Shape, NEW l \in Leads
    PROVE  /\ Retries(l) = Cardinality(Taken(tries[l])) /\ Retries(l) \in Nat
           /\ Retries(l) <= Cardinality(Teams) * Attempts
BY TakenIs DEF Retries, Taken, Shape

LEMMA Times ==
    ASSUME NEW a \in Nat, NEW b \in Nat
    PROVE  a * b \in Nat /\ (a + 1) * b = a * b + b /\ a * b = b * a
OBVIOUS

LEMMA WayIs ==
    ASSUME Shape, NEW l \in Leads, NEW t \in Teams
    PROVE  Way(l, t) \in Nat /\ 1 <= Way(l, t)
<1>1. late[l] * Cardinality(Teams) \in Nat
  BY TeamsAre, Times DEF Shape
<1> QED BY <1>1, TeamsAre, RetriesAre DEF Way

\* No way is longer than what is allowed.
LEMMA WayEnds ==
    ASSUME Shape, NEW l \in Leads, NEW t \in Teams
    PROVE  Way(l, t) <= Allowed(late[l])
<1>1. PICK c, a, n \in Nat : c = Cardinality(Teams) /\ a = Attempts /\ n = late[l]
  BY TeamsAre DEF Shape
<1>2. PICK k, m, p, q \in Nat : k = Retries(l) /\ m = Rank(Teams, t) /\ p = c * a /\ q = n * c
  BY <1>1, TeamsAre, RetriesAre, Times
<1>3. k <= p /\ m < c
  BY <1>1, <1>2, TeamsAre, RetriesAre
<1>4. c * (a + 1 + n) = p + c + q
  <2>1. c * (a + 1 + n) = c * a + c + c * n
    OBVIOUS
  <2> QED BY <1>2, <2>1, Times
<1>5. Way(l, t) = k + m + 1 + q /\ Allowed(late[l]) = c * (a + 1 + n)
  BY <1>1, <1>2 DEF Way, Allowed
<1> QED BY <1>2, <1>3, <1>4, <1>5

\* What WayInv says of one lead.
OnWay(l) == IF lead[l].team = NULL THEN moves[l] = 0 ELSE moves[l] <= Way(l, lead[l].team)

LEMMA WayInvIs ==
    WayInv <=> (Bounded =>
        /\ \A l \in Leads : OnWay(l)
        /\ \A r \in Runs : run[r] # NULL /\ run[r].cause = "expire" /\ run[r].pick # NULL
                             => Onward(run[r], seen[r].team))
BY DEF WayInv, OnWay

LEMMA WayInit == ASSUME Init PROVE WayInv /\ SeenInv
BY DEF Init, WayInv, SeenInv

LEMMA WayDecides ==
    ASSUME Base, WayInv, SeenInv, NEW r \in Runs, NEW l \in Leads, NEW d, Decides(r, l, d)
    PROVE  WayInv' /\ SeenInv'
<1>1. SeenInv'
  BY DEF Decides, SeenInv, Bounded
<1> SUFFICES ASSUME Bounded' PROVE WayInv'
  BY <1>1 DEF WayInv
<1>2. /\ lead' = lead /\ tries' = tries /\ moves' = moves /\ late' = late /\ seen' = seen
      /\ Bounded
      /\ \A q \in Runs : run'[q] = IF q = r THEN d ELSE run[q]
      /\ d.cause = "expire" /\ d.pick # NULL => Onward(d, seen[r].team)
  BY DEF Decides, Bounded, Base, Shape
<1>3. \A k \in Leads : OnWay(k)'
  BY <1>2 DEF WayInv, OnWay, Way, Retries
<1>4. \A e, t : Onward(e, t)' = Onward(e, t)
  BY <1>2 DEF Onward
<1>5. ASSUME NEW q \in Runs, run'[q] # NULL, run'[q].cause = "expire", run'[q].pick # NULL
      PROVE  Onward(run[q], seen[q].team)'
  BY <1>2, <1>4, <1>5 DEF WayInv, Onward
<1> QED BY <1>3, <1>5 DEF WayInv, OnWay, Onward

LEMMA WayReads ==
    ASSUME Base, WayInv, SeenInv, NEW r \in Runs, NEW x, Reads(r, x)
    PROVE  WayInv' /\ SeenInv'
<1>1. /\ lead' = lead /\ tries' = tries /\ moves' = moves /\ late' = late /\ run' = run
      /\ policy' = policy /\ run[r] = NULL
      /\ \A q \in Runs : seen'[q] = IF q = r THEN x ELSE seen[q]
      /\ Bounded => x.team = lead[x.lead].team
  BY DEF Reads, Base, Shape
<1>2. SeenInv'
  BY <1>1 DEF SeenInv, Bounded
<1>3. WayInv'
  BY <1>1 DEF WayInv, Bounded, Way, Retries, Onward
<1> QED BY <1>2, <1>3

LEMMA TriesGrow ==
    ASSUME Shape, NEW d, NEW l \in Leads, l = d.lead, NEW f, f = Counted(d)
    PROVE  /\ f \in [Leads -> [Teams -> 0..Attempts]]
           /\ \A k \in Leads \ {l} : f[k] = tries[k]
           /\ \A t \in Teams : tries[l][t] <= f[l][t]
           /\ \A t \in Teams : d.by = "RETRY" /\ t = TeamOf[d.pick] /\ tries[l][t] < Attempts
                  => f[l][t] = tries[l][t] + 1
<1>1. f \in [Leads -> [Teams -> 0..Attempts]]
  BY CountedIs
<1>2. PICK u : u = TeamOf[d.pick]
  OBVIOUS
<1>3. PICK old \in [Teams -> 0..Attempts] : old = tries[l]
  BY DEF Shape
<1>4. \A t \in Teams : old[t] \in Nat
  BY <1>3, TeamsAre
<1>5. CASE d.by = "RETRY"
  <2>1. PICK new : new = [old EXCEPT ![u] = IF @ < Attempts THEN @ + 1 ELSE @]
    OBVIOUS
  <2>2. f = [tries EXCEPT ![l] = new]
    BY <1>2, <1>3, <1>5, <2>1 DEF Counted, Shape
  <2>3. \A t \in Teams : new[t] = IF t = u /\ old[t] < Attempts THEN old[t] + 1 ELSE old[t]
    BY <1>3, <2>1
  <2>4. f[l] = new /\ \A k \in Leads \ {l} : f[k] = tries[k]
    BY <2>2 DEF Shape
  <2> QED BY <1>1, <1>2, <1>3, <1>4, <2>3, <2>4
<1>6. CASE d.by # "RETRY"
  BY <1>1, <1>3, <1>4, <1>6 DEF Counted
<1> QED BY <1>5, <1>6

\* A commit takes its lead one step on its way.
LEMMA LeadOnWay ==
    ASSUME Base, Base', WayInv, SeenInv, Bounded, NEW r \in Runs, NEW d, d = run[r], d # NULL,
           d \in Decision, NEW l \in Leads, l = d.lead,
           NEW row, Written(r, l, d, row), tries' = Counted(d)
    PROVE  OnWay(l)'
<1>1. Shape /\ Shape'
  BY DEF Base
<1>2. PICK v, m : v = lead[l].team /\ m = moves[l]
  OBVIOUS
<1>3. lead'[l] = row /\ m \in Nat /\ v \in Teams \cup {NULL}
  BY <1>1, <1>2 DEF Written, Shape, LeadRow
<1>4. IF v = NULL THEN m = 0 ELSE m <= Way(l, v)
  BY <1>2 DEF WayInv
<1>5. PICK f, g \in [Teams -> 0..Attempts] : f = tries[l] /\ g = tries'[l]
  BY <1>1 DEF Shape
<1>6. /\ \A u \in Teams : f[u] <= g[u] /\ f[u] \in Nat
      /\ \A u \in Teams : d.by = "RETRY" /\ u = TeamOf[d.pick] /\ f[u] < Attempts
             => g[u] = f[u] + 1
  BY <1>1, <1>5, TriesGrow, TeamsAre
<1>7. PICK R, S \in Nat : R = Retries(l) /\ S = Retries(l)'
  <2>1. Retries(l) \in Nat
    BY <1>1, RetriesAre
  <2>2. Retries(l)' = Cardinality(Taken(g)) /\ Cardinality(Taken(g)) \in Nat
    BY <1>5, TakenIs DEF Retries, Taken
  <2> QED BY <2>1, <2>2
<1>8. R <= S /\ \A u \in Teams : f[u] < g[u] => R + 1 <= S
  <2>1. R = Cardinality(Taken(f)) /\ S = Cardinality(Taken(g))
    BY <1>5, <1>7 DEF Retries, Taken
  <2> QED BY <1>5, <1>6, <2>1, TakenGrows
<1>9. PICK c, n, k, p, q \in Nat : /\ c = Cardinality(Teams) /\ n = late[l] /\ k = late'[l]
                                   /\ p = n * c /\ q = k * c
  <2>1. PICK c \in Nat : c = Cardinality(Teams)
    BY TeamsAre
  <2>2. late[l] \in Nat /\ late'[l] \in Nat
    BY <1>1 DEF Shape
  <2>3. late[l] * c \in Nat /\ late'[l] * c \in Nat
    BY <2>1, <2>2, Times
  <2> QED BY <2>1, <2>2, <2>3
<1>10. /\ \A u \in Teams : Way(l, u) = R + Rank(Teams, u) + 1 + p
       /\ \A u \in Teams : Way(l, u)' = S + Rank(Teams, u) + 1 + q
       /\ \A u \in Teams : Rank(Teams, u) \in Nat /\ Rank(Teams, u) < c
  BY <1>7, <1>9, TeamsAre DEF Way, Rank
<1>11. CASE d.pick = NULL
  <2>1. row.team = v /\ moves'[l] = m /\ k = n
    BY <1>2, <1>9, <1>11 DEF Written
  <2>2. CASE v = NULL
    BY <1>3, <1>4, <2>1, <2>2 DEF OnWay
  <2>3. CASE v # NULL
    <3>1. PICK i \in Nat : i = Rank(Teams, v)
      BY <1>3, <1>10, <2>3
    <3>2. m <= R + i + 1 + p /\ p = q
      BY <1>3, <1>4, <1>9, <1>10, <2>1, <2>3, <3>1
    <3>3. m <= S + i + 1 + q
      BY <1>3, <1>8, <3>2
    <3>4. moves'[l] <= Way(l, v)'
      BY <1>3, <1>10, <2>1, <2>3, <3>1, <3>3
    <3> QED BY <1>3, <2>1, <2>3, <3>4 DEF OnWay, Way
  <2> QED BY <2>2, <2>3
<1>12. CASE d.pick # NULL
  <2>1. PICK u \in Teams : u = TeamOf[d.pick] /\ row.team = u
    BY <1>12, Company DEF Written, Decision, Person, Company
  <2>2. PICK w \in Nat : w = moves'[l]
    BY DEF Written
  <2>3. /\ d.cause # "expire" => w <= 1
        /\ d.cause = "expire" => w <= m + 1 /\ k = IF Late(r) THEN n + 1 ELSE n
    BY <1>2, <1>9, <1>12, <2>2 DEF Written
  <2>4. PICK j \in Nat : j = Rank(Teams, u)
    BY <1>10
  <2>5. w <= S + j + 1 + q
    <3>1. CASE w <= 1
      BY <3>1
    <3>2. CASE d.cause = "expire" /\ v # NULL
      <4>1. PICK i \in Nat : i = Rank(Teams, v) /\ i < c
        BY <1>3, <1>10, <3>2
      <4>2. m <= R + i + 1 + p
        BY <1>3, <1>4, <1>10, <3>2, <4>1
      <4>3. CASE Late(r)
        <5>1. q = p + c
          BY <1>9, <2>3, <3>2, <4>3, Times
        <5> QED BY <1>3, <1>8, <2>3, <3>2, <4>1, <4>2, <5>1
      <4>4. CASE ~Late(r)
        <5>1. q = p
          BY <1>9, <2>3, <3>2, <4>4
        <5>2. PICK t : t = seen[r].team
          OBVIOUS
        <5>3. v = t
          BY <1>1, <1>2, <3>2, <4>4, <5>2 DEF Late, Base, RunsInv, SeenInv
        <5>4. Onward(d, t)
          BY <1>12, <3>2, <5>2 DEF WayInv
        <5>5. CASE d.by = "RETRY" /\ u = t /\ f[t] < Attempts
          <6>1. f[u] < g[u]
            BY <1>6, <2>1, <5>5
          <6>2. R + 1 <= S /\ i = j
            BY <1>8, <2>4, <4>1, <5>3, <5>5, <6>1
          <6> QED BY <1>3, <2>3, <3>2, <4>2, <5>1, <6>2
        <5>6. CASE t < u
          <6>1. i < j
            BY <1>3, <2>4, <3>2, <4>1, <5>3, <5>6, TeamsAre, RankLess
          <6> QED BY <1>3, <1>8, <2>3, <3>2, <4>2, <5>1, <6>1
        <5> QED BY <1>5, <2>1, <3>2, <5>3, <5>4, <5>5, <5>6 DEF Onward
      <4> QED BY <4>3, <4>4
    <3>3. CASE d.cause = "expire" /\ v = NULL
      BY <1>4, <2>3, <3>3
    <3> QED BY <2>3, <3>1, <3>2, <3>3
  <2>6. moves'[l] <= Way(l, u)'
    BY <1>10, <2>2, <2>4, <2>5
  <2> QED BY <1>3, <2>1, <2>6, TeamsAre DEF OnWay, Way
<1> QED BY <1>11, <1>12

LEMMA WayCommit ==
    ASSUME Base, Base', WayInv, SeenInv, NEW r \in Runs, Commit(r)
    PROVE  WayInv' /\ SeenInv'
<1>1. PICK d : d = run[r]
  OBVIOUS
<1>2. Shape /\ Shape'
  BY DEF Base
<1>3. /\ d \in Decision /\ d # NULL
      /\ \E row : Written(r, d.lead, d, row)
      /\ Forgets(r, d.lead)
      /\ tries' = Counted(d) /\ run' = [run EXCEPT ![r] = NULL] /\ policy' = policy
  BY <1>1, <1>2, CommitIs
<1>4. PICK l \in Leads : l = d.lead
  BY <1>3 DEF Decision
<1>5. PICK row : Written(r, l, d, row)
  BY <1>3, <1>4
<1>6. \A q \in Runs : run'[q] # NULL =>
        /\ q # r /\ run'[q] = run[q]
        /\ run[q].lead \in Leads /\ run[q].lead # l
  <2>1. \A q \in Runs : run'[q] = IF q = r THEN NULL ELSE run[q]
    BY <1>2, <1>3 DEF Shape
  <2> QED BY <1>1, <1>2, <1>3, <1>4, <2>1 DEF Base, Shape, RunsInv, Decision
<1>7. \A k \in Leads : /\ lead'[k] = IF k = l THEN row ELSE lead[k]
                       /\ k # l => moves'[k] = moves[k] /\ late'[k] = late[k]
  BY <1>2, <1>5 DEF Shape, Written
<1>8. \A k \in Leads \ {l} : tries'[k] = tries[k]
  BY <1>2, <1>3, <1>4, TriesGrow
<1>9. SeenInv'
  <2> SUFFICES ASSUME Bounded', NEW q \in Runs, seen'[q] # NULL, ~seen'[q].ended
               PROVE  lead'[seen'[q].lead].team \in {NULL, seen'[q].team}
    BY DEF SeenInv
  <2>1. /\ q # r /\ seen[q] # NULL /\ ~seen[q].ended
        /\ seen'[q].lead = seen[q].lead /\ seen'[q].team = seen[q].team
        /\ seen[q].lead = l => ~EndsClock(r)
    BY <1>3, <1>4 DEF Forgets
  <2>2. seen[q].lead \in Leads /\ lead[seen[q].lead].team \in {NULL, seen[q].team}
    BY <1>2, <1>3, <2>1 DEF SeenInv, Bounded, Shape, Seen
  <2>3. seen[q].lead = l => row.team = lead[l].team
    BY <1>1, <1>5, <2>1 DEF Written, EndsClock
  <2> QED BY <1>7, <2>1, <2>2, <2>3
<1> SUFFICES ASSUME Bounded' PROVE WayInv'
  BY <1>9 DEF WayInv
<1>10. Bounded
  BY <1>3 DEF Bounded
<1>11. ASSUME NEW k \in Leads PROVE OnWay(k)'
  <2>1. CASE k = l
    BY <1>1, <1>3, <1>4, <1>5, <1>10, <2>1, LeadOnWay
  <2>2. CASE k # l
    <3>1. lead'[k] = lead[k] /\ moves'[k] = moves[k] /\ late'[k] = late[k] /\ tries'[k] = tries[k]
      BY <1>7, <1>8, <2>2
    <3>2. OnWay(k)
      BY <1>10, WayInvIs
    <3> QED BY <3>1, <3>2 DEF OnWay, Way, Retries
  <2> QED BY <2>1, <2>2
<1>12. ASSUME NEW q \in Runs, run'[q] # NULL, run'[q].cause = "expire", run'[q].pick # NULL
       PROVE  Onward(run[q], seen[q].team)'
  <2>1. PICK e, k, t : e = run[q] /\ k = e.lead /\ t = seen[q].team
    OBVIOUS
  <2>2. Onward(e, t)
    BY <1>6, <1>10, <1>12, <2>1 DEF WayInv
  <2>3. run'[q] = e /\ tries'[k] = tries[k]
    BY <1>6, <1>8, <1>12, <2>1
  <2>4. seen'[q].team = t
    BY <1>3, <1>6, <1>12, <2>1 DEF Forgets, Base, RunsInv
  <2> QED BY <2>1, <2>2, <2>3, <2>4 DEF Onward
<1> QED BY <1>11, <1>12 DEF WayInv, OnWay, Onward

LEMMA WayHandled ==
    ASSUME Base, Base', WayInv, SeenInv, NEW l \in Leads, NEW row, Handled(l, row)
    PROVE  WayInv' /\ SeenInv'
<1>1. Shape /\ Shape'
  BY DEF Base
<1>2. /\ policy' = policy /\ tries' = tries /\ run' = run /\ row \in LeadRow
      /\ \A k \in Leads : /\ lead'[k] = IF k = l THEN row ELSE lead[k]
                          /\ moves'[k] = IF k = l THEN 0 ELSE moves[k]
                          /\ k # l => late'[k] = late[k]
      /\ (seen' = Ended(l) \/ (seen' = seen /\ row.team = NULL))
  BY <1>1 DEF Handled, Touched, Shape
<1>3. \A q \in Runs : seen[q] # NULL => seen'[q].team = seen[q].team
  BY <1>1, <1>2, EndedIs
<1>4. SeenInv'
  <2> SUFFICES ASSUME Bounded', NEW q \in Runs, seen'[q] # NULL, ~seen'[q].ended
               PROVE  lead'[seen'[q].lead].team \in {NULL, seen'[q].team}
    BY DEF SeenInv
  <2>1. /\ seen[q] # NULL /\ ~seen[q].ended
        /\ seen'[q].lead = seen[q].lead /\ seen'[q].team = seen[q].team
        /\ seen[q].lead = l => row.team = NULL
    BY <1>1, <1>2, EndedIs
  <2>2. seen[q].lead \in Leads /\ lead[seen[q].lead].team \in {NULL, seen[q].team}
    BY <1>1, <1>2, <2>1 DEF SeenInv, Bounded, Shape, Seen
  <2> QED BY <1>2, <2>1, <2>2
<1> SUFFICES ASSUME Bounded' PROVE WayInv'
  BY <1>4 DEF WayInv
<1>5. Bounded
  BY <1>2 DEF Bounded
<1>6. ASSUME NEW k \in Leads PROVE OnWay(k)'
  <2>1. CASE k = l
    <3>1. \A t \in Teams : Way(l, t)' \in Nat
      <4>1. Retries(l)' \in Nat
        <5>1. tries'[l] \in [Teams -> 0..Attempts]
          BY <1>1 DEF Shape
        <5>2. Retries(l)' = Cardinality(Taken(tries'[l]))
          BY DEF Retries, Taken
        <5> QED BY <5>1, <5>2, TakenIs
      <4>2. late'[l] * Cardinality(Teams) \in Nat
        BY <1>1, TeamsAre, Times DEF Shape
      <4> QED BY <4>1, <4>2, TeamsAre DEF Way, Rank
    <3>2. row.team \in Teams \cup {NULL}
      BY <1>2 DEF LeadRow
    <3>3. \A t \in Teams : 0 <= Way(l, t)'
      BY <3>1
    <3> QED BY <1>2, <2>1, <3>2, <3>3 DEF OnWay, Way
  <2>2. CASE k # l
    <3>1. lead'[k] = lead[k] /\ moves'[k] = moves[k] /\ late'[k] = late[k] /\ tries'[k] = tries[k]
      BY <1>2, <2>2
    <3>2. OnWay(k)
      BY <1>5, WayInvIs
    <3> QED BY <3>1, <3>2 DEF OnWay, Way, Retries
  <2> QED BY <2>1, <2>2
<1>7. ASSUME NEW q \in Runs, run'[q] # NULL, run'[q].cause = "expire", run'[q].pick # NULL
      PROVE  Onward(run[q], seen[q].team)'
  <2>1. PICK e, t : e = run[q] /\ t = seen[q].team
    OBVIOUS
  <2>2. Onward(e, t) /\ run'[q] = e /\ tries' = tries
    BY <1>2, <1>5, <1>7, <2>1 DEF WayInv
  <2>3. seen'[q].team = t
    BY <1>2, <1>3, <1>7, <2>1 DEF Base, RunsInv
  <2> QED BY <2>2, <2>3 DEF Onward
<1> QED BY <1>6, <1>7 DEF WayInv, OnWay, Onward

LEMMA WayRollback ==
    ASSUME Base, WayInv, SeenInv, NEW r \in Runs, Rollback(r)
    PROVE  WayInv' /\ SeenInv'
<1>1. \A q \in Runs : /\ run'[q] = IF q = r THEN NULL ELSE run[q]
                      /\ seen'[q] = IF q = r THEN NULL ELSE seen[q]
  BY DEF Rollback, Base, Shape
<1>2. policy' = policy /\ lead' = lead /\ tries' = tries /\ moves' = moves /\ late' = late
  BY DEF Rollback
<1>3. WayInv'
  BY <1>1, <1>2 DEF WayInv, Bounded, Onward, Way, Retries
<1>4. SeenInv'
  BY <1>1, <1>2 DEF SeenInv, Bounded
<1> QED BY <1>3, <1>4

LEMMA WayStep == Base /\ Base' /\ WayInv /\ SeenInv /\ [Next]_vars => WayInv' /\ SeenInv'
<1> SUFFICES ASSUME Base, Base', WayInv, SeenInv, [Next]_vars PROVE WayInv' /\ SeenInv'
  OBVIOUS
<1>1. CASE UNCHANGED vars
  BY <1>1 DEF WayInv, SeenInv, Bounded, Onward, Way, Retries, vars
<1>2. Shape
  BY DEF Base
<1>3. ASSUME NEW m \in Salesmen, SetAvailability(m) PROVE WayInv' /\ SeenInv'
  BY <1>3 DEF SetAvailability, WayInv, SeenInv, Bounded, Onward, Way, Retries
<1> QED BY <1>1, <1>2, <1>3, StepIs, WayDecides, WayReads, WayCommit, WayHandled, WayRollback

\* Retry and team escalation end: RetryEscalationService.handle_expiry moves a lead nobody
\* works on no more often than every team has retries, once more for each team, and once
\* round the teams for each expiry that decided on a clock that had ended since it was read.
THEOREM RotationsEnd == Spec => []RotationsAreBounded
<1>1. ASSUME Shape, WayInv PROVE RotationsAreBounded
  <2> SUFFICES ASSUME Bounded, NEW l \in Leads PROVE moves[l] <= Allowed(late[l])
    BY DEF RotationsAreBounded
  <2>1. PICK t \in Teams \cup {NULL} : t = lead[l].team
    BY <1>1 DEF Shape, LeadRow
  <2>2. moves[l] \in Nat /\ late[l] \in Nat
    BY <1>1 DEF Shape
  <2>3. CASE t = NULL
    <3>1. moves[l] = 0
      BY <1>1, <2>1, <2>3 DEF WayInv
    <3>2. Cardinality(Teams) * (Attempts + 1 + late[l]) \in Nat
      <4>1. Attempts + 1 + late[l] \in Nat /\ Cardinality(Teams) \in Nat
        BY <2>2, TeamsAre
      <4> QED BY <4>1, Times
    <3>3. \A n \in Nat : 0 <= n
      OBVIOUS
    <3> QED BY <3>1, <3>2, <3>3 DEF Allowed
  <2>4. CASE t # NULL
    <3>1. Way(l, t) <= Allowed(late[l]) /\ Way(l, t) \in Nat
      BY <1>1, <2>1, <2>4, WayEnds, WayIs
    <3>2. moves[l] <= Way(l, t)
      BY <1>1, <2>1, <2>4 DEF WayInv
    <3>3. Allowed(late[l]) \in Nat
      <4>1. Attempts + 1 + late[l] \in Nat /\ Cardinality(Teams) \in Nat
        BY <2>2, TeamsAre
      <4> QED BY <4>1, Times DEF Allowed
    <3> QED BY <2>2, <3>1, <3>2, <3>3
  <2> QED BY <2>3, <2>4
<1>2. Base /\ WayInv => RotationsAreBounded
  BY <1>1 DEF Base
<1> QED BY <1>2, WayInit, WayStep, BaseHolds, PTL DEF Spec
=============================================================================
