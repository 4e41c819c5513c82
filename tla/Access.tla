------------------------------- MODULE Access -------------------------------
(***************************************************************************)
(* What a user may do: roles, the permissions they grant, the user's own   *)
(* exceptions from them, and the cached result.                            *)
(*                                                                         *)
(* A user's set is what his active roles grant, with what he is allowed    *)
(* beside, without what he is denied.  It is cached in Redis for some      *)
(* minutes and dropped from there by the requests that change what it      *)
(* rests on.  They drop it inside their transactions, when the rows are    *)
(* saved: between that and the commit a reader finds nothing cached,       *)
(* computes the set from the rows as they were, and stores it.             *)
(*                                                                         *)
(* A reader's three queries are one step: where a commit falls between     *)
(* them the set counts as overtaken.                                       *)
(*                                                                         *)
(* The matrix page has no transaction of its own (services.py:199): in the *)
(* default database it has the request's, in a tenant's it has none        *)
(* (tenants/models.py:62-68), and every row is committed by itself.        *)
(***************************************************************************)
EXTENDS Naturals, FiniteSets

CONSTANTS
    Staff,         \* the users
    Roles,
    Perms,
    NoRole,        \* a user without a default role
    Absent,        \* nothing cached, or nothing asked
    Web,           \* requests that change something
    Readers        \* requests that look up what a user may do

ASSUME NoRoleIsNone == NoRole \notin Roles

VARIABLES
    db,            \* the kind of database, which does not change
    grants,        \* what each role grants: RolePermission
    holds,         \* the active roles of each user: UserRole
    default,       \* the role of the user's profile
    override,      \* UserPermissionOverride
    cache,         \* what Redis holds for each user
    change,        \* the transaction of each request, and what it is to write
    reader,        \* what each reader has computed and not yet stored
    asked          \* for the properties: the permissions last ticked for each user

accessVars == <<db, grants, holds, default, override, cache, change, reader, asked>>

Effects == {"ALLOW", "DENY"}
Grants == [Roles -> SUBSET Perms]
Held == [Staff -> SUBSET Roles]
Overrides == [Staff -> SUBSET (Perms \X Effects)]
Entry == [codes : SUBSET Perms, early : BOOLEAN]
Ready == [kind |-> "none"]
Change ==
    {Ready}
    \cup [kind : {"role"}, role : Roles, add : SUBSET Perms, remove : SUBSET Perms]
    \cup [kind : {"user"}, user : Staff, role : Roles \cup {NoRole},
          codes : (SUBSET Perms) \cup {Absent}, keep : BOOLEAN, alone : BOOLEAN,
          add : SUBSET (Perms \X Effects), remove : SUBSET (Perms \X Effects)]
    \cup [kind : {"matrix"}, user : Staff, codes : SUBSET Perms,
          add : SUBSET (Perms \X Effects), left : SUBSET Perms, alone : BOOLEAN]
Read == {Ready} \cup [kind : {"read"}, user : Staff, codes : SUBSET Perms, early : BOOLEAN]

AccessTypeOK ==
    /\ db \in {"default", "tenant"}
    /\ grants \in Grants
    /\ holds \in Held
    /\ default \in [Staff -> Roles \cup {NoRole}]
    /\ override \in Overrides
    /\ cache \in [Staff -> Entry \cup {Absent}]
    /\ change \in [Web -> Change]
    /\ reader \in [Readers -> Read]
    /\ asked \in [Staff -> (SUBSET Perms) \cup {Absent}]

\* A user who was not created yet has no rows, as one without a role.
AccessInit ==
    /\ db \in {"default", "tenant"}
    /\ grants \in Grants
    /\ holds = [u \in Staff |-> {}]
    /\ default = [u \in Staff |-> NoRole]
    /\ override = [u \in Staff |-> {}]
    /\ cache = [u \in Staff |-> Absent]
    /\ change = [w \in Web |-> Ready]
    /\ reader = [d \in Readers |-> Ready]
    /\ asked = [u \in Staff |-> Absent]

-----------------------------------------------------------------------------
(***************************************************************************)
(* What a user may do.                                                     *)
(***************************************************************************)

GrantedBy(rs) == UNION {grants[r] : r \in rs}
With(u, effect) == {p \in Perms : <<p, effect>> \in override[u]}

\* EffectivePermissionResolver._compute: a denial wins.
Effective(u) == (GrantedBy(holds[u]) \cup With(u, "ALLOW")) \ With(u, "DENY")

-----------------------------------------------------------------------------
(***************************************************************************)
(* Changes, up to the commit.                                              *)
(***************************************************************************)

Drop(us) == [u \in Staff |-> IF u \in us THEN Absent ELSE cache[u]]

\* The users that a change of a role's bundle is told to.
\* Mutant of HoldersOf: those that have the role by default.
HaveByDefault(r) == {u \in Staff : default[u] = r}
HoldersOf(r) == {u \in Staff : r \in holds[u]}

\* RoleService.update_role, and create_role for a role that nobody has yet.  The
\* page sends the ids as strings, which equal none of the rows', so every row is
\* deleted and made anew.  Edits of one role wait for each other at its row.
EditRole(w, r, ps) ==
    /\ change[w] = Ready
    /\ \A v \in Web : change[v].kind = "role" => change[v].role # r
    /\ change' = [change EXCEPT ![w] =
           [kind |-> "role", role |-> r, add |-> ps, remove |-> grants[r]]]
    /\ cache' = IF ps \cup grants[r] = {} THEN cache ELSE Drop(HoldersOf(r))
    /\ UNCHANGED <<db, grants, holds, default, override, reader, asked>>

\* update_user_overrides: the exceptions that make the ticked codes of the role's.
Exceptions(r, codes) ==
    LET bundle == IF r = NoRole THEN {} ELSE grants[r]
    IN ((codes \ bundle) \X {"ALLOW"}) \cup ((bundle \ codes) \X {"DENY"})

Touches(v, u) ==
    \/ change[v].kind \in {"user", "matrix"} /\ change[v].user = u
    \/ change[v].kind = "role" /\ change[v].role \in holds[u] \cup {default[u]}

\* What a form for a user begins to write.  The override rows that are not to
\* stay are those found now.
Begin(w, u, r, codes, keep) ==
    LET want == IF codes = Absent THEN {} ELSE Exceptions(r, codes)
    IN change' = [change EXCEPT ![w] =
           [kind |-> "user", user |-> u, role |-> r, codes |-> codes, keep |-> keep,
            add |-> want,
            remove |-> IF codes = Absent THEN {} ELSE override[u] \ want,
            alone |-> TRUE]]

\* UserService.create_user and update_user: the account with its default role,
\* and perhaps the ticked permissions.  Without either nothing drops the cached
\* set.  Edits of one user wait for each other at his row.
\* Mutant of PutUser: the exceptions are made for the role the user had.
PutUserByOldRole(w, u, r, codes) ==
    /\ change[w] = Ready
    /\ \A v \in Web : change[v].kind = "user" => change[v].user # u \/ change[v].keep
    /\ LET want == IF codes = Absent THEN {} ELSE Exceptions(default[u], codes)
       IN change' = [change EXCEPT ![w] =
              [kind |-> "user", user |-> u, role |-> r, codes |-> codes, keep |-> FALSE,
               add |-> want, remove |-> IF codes = Absent THEN {} ELSE override[u] \ want,
               alone |-> TRUE]]
    /\ cache' = Drop({v \in {u} : r # NoRole \/ codes # Absent})
    /\ UNCHANGED <<db, grants, holds, default, override, reader, asked>>
PutUser(w, u, r, codes) ==
    /\ change[w] = Ready
    /\ \A v \in Web : change[v].kind = "user" => change[v].user # u \/ change[v].keep
    /\ Begin(w, u, r, codes, FALSE)
    /\ cache' = Drop({v \in {u} : r # NoRole \/ codes # Absent})
    /\ UNCHANGED <<db, grants, holds, default, override, reader, asked>>

\* The edit page of a user shows no permissions, and sends that none is ticked.
EditPage(w, u, r) == default[u] # NoRole /\ PutUser(w, u, r, {})

\* The matrix page: the ticked permissions only.  In a tenant's database nothing
\* is held back for a commit: left are the permissions not looked at yet.
EditMatrix(w, u, codes) ==
    /\ change[w] = Ready
    /\ IF db = "default" THEN Begin(w, u, default[u], codes, TRUE)
       ELSE change' = [change EXCEPT ![w] =
                [kind |-> "matrix", user |-> u, codes |-> codes,
                 add |-> Exceptions(default[u], codes), left |-> Perms, alone |-> TRUE]]
    /\ cache' = Drop({u})
    /\ UNCHANGED <<db, grants, holds, default, override, reader, asked>>

-----------------------------------------------------------------------------
(***************************************************************************)
(* How they end.                                                           *)
(***************************************************************************)

\* Readers of these users hold what was.
Overtake(us) ==
    [d \in Readers |->
        IF reader[d].kind = "read" /\ reader[d].user \in us
        THEN [reader[d] EXCEPT !.early = TRUE] ELSE reader[d]]

\* A change under way that another one commits before is not alone.
Told(w, next) ==
    [v \in Web |->
        IF v = w THEN next
        ELSE IF change[v].kind \in {"user", "matrix"} THEN [change[v] EXCEPT !.alone = FALSE]
        ELSE change[v]]
Done(w) == Told(w, Ready)

CommitRole(w) ==
    /\ change[w].kind = "role"
    /\ LET r == change[w].role
           told == IF change[w].add \cup change[w].remove = {} THEN {} ELSE HoldersOf(r)
       IN /\ grants' = [grants EXCEPT ![r] = (@ \ change[w].remove) \cup change[w].add]
          /\ reader' = Overtake(told)
          /\ asked' = [u \in Staff |-> IF r \in holds[u] \cup {default[u]} THEN Absent
                                       ELSE asked[u]]
    /\ change' = Done(w)
    /\ UNCHANGED <<db, holds, default, override, cache>>

\* A role that is given stays active when the default changes; a form without a
\* role takes them all, by an update no signal follows.
CommitUser(w) ==
    /\ change[w].kind = "user"
    /\ LET c == change[w]
           u == c.user
           quiet == ~c.keep /\ c.role = NoRole /\ c.codes = Absent
       IN /\ IF c.keep THEN UNCHANGED <<holds, default>>
             ELSE /\ default' = [default EXCEPT ![u] = c.role]
                  /\ holds' = [holds EXCEPT ![u] = IF c.role = NoRole THEN {} ELSE @ \cup {c.role}]
          /\ override' = [override EXCEPT ![u] = (@ \ c.remove) \cup c.add]
          /\ reader' = Overtake({u})
          /\ cache' = IF quiet /\ cache[u] # Absent
                      THEN [cache EXCEPT ![u].early = TRUE] ELSE cache
          /\ asked' = [asked EXCEPT ![u] = IF c.alone THEN c.codes ELSE Absent]
    /\ change' = Done(w)
    /\ UNCHANGED <<db, grants>>

\* One row of the matrix in a tenant's database: what is wrong for a permission is
\* deleted, and then its exception is saved, each with a commit of its own.  The
\* next row drops the cached set, if the process lives to save it.
SaveException(w, p) ==
    /\ change[w].kind = "matrix" /\ p \in change[w].left
    /\ LET c == change[w]
           u == c.user
           wrong == (override[u] \cap ({p} \X Effects)) \ c.add
       IN /\ \/ /\ \E row \in wrong : override' = [override EXCEPT ![u] = @ \ {row}]
                /\ change' = Told(w, c)
             \/ /\ wrong = {}
                /\ override' = [override EXCEPT ![u] = @ \cup (c.add \cap ({p} \X Effects))]
                /\ change' = Told(w, [c EXCEPT !.left = @ \ {p}])
          /\ cache' \in {cache, Drop({u})}
          /\ reader' = Overtake({u})
          /\ asked' = IF override' = override THEN asked
                      ELSE [asked EXCEPT ![u] = Absent]
    /\ UNCHANGED <<db, grants, holds, default>>

FinishMatrix(w) ==
    /\ change[w].kind = "matrix" /\ change[w].left = {}
    /\ LET u == change[w].user
       IN /\ cache' = Drop({u})
          /\ asked' = [asked EXCEPT ![u] = IF change[w].alone THEN change[w].codes ELSE @]
    /\ change' = [change EXCEPT ![w] = Ready]
    /\ UNCHANGED <<db, grants, holds, default, override, reader>>

\* The request fails: nothing more is written, and what was dropped stays dropped.
Rollback(w) ==
    /\ change[w] # Ready
    /\ change' = [change EXCEPT ![w] = Ready]
    /\ UNCHANGED <<db, grants, holds, default, override, cache, reader, asked>>

-----------------------------------------------------------------------------
(***************************************************************************)
(* Readers.                                                                *)
(***************************************************************************)

\* get_codes, when nothing is cached: compute, and then store.
Compute(d, u) ==
    /\ reader[d] = Ready /\ cache[u] = Absent
    /\ reader' = [reader EXCEPT ![d] =
           [kind |-> "read", user |-> u, codes |-> Effective(u), early |-> FALSE]]
    /\ UNCHANGED <<db, grants, holds, default, override, cache, change, asked>>

\* It is stored too early when a change of the user is about to commit.
Store(d) ==
    /\ reader[d].kind = "read"
    /\ LET u == reader[d].user
           pending == \E v \in Web : Touches(v, u)
       IN cache' = [cache EXCEPT ![u] =
              [codes |-> reader[d].codes, early |-> reader[d].early \/ pending]]
    /\ reader' = [reader EXCEPT ![d] = Ready]
    /\ UNCHANGED <<db, grants, holds, default, override, change, asked>>

\* The time to live ends.
Expire(u) ==
    /\ cache[u] # Absent
    /\ cache' = Drop({u})
    /\ UNCHANGED <<db, grants, holds, default, override, change, reader, asked>>

AccessNext ==
    \/ \E w \in Web :
           \/ \E r \in Roles, ps \in SUBSET Perms : EditRole(w, r, ps)
           \/ \E u \in Staff, r \in Roles \cup {NoRole}, cs \in (SUBSET Perms) \cup {Absent} :
                  PutUser(w, u, r, cs)
           \/ \E u \in Staff, r \in Roles : EditPage(w, u, r)
           \/ \E u \in Staff, cs \in SUBSET Perms : EditMatrix(w, u, cs)
           \/ CommitRole(w) \/ CommitUser(w) \/ Rollback(w)
           \/ (\E p \in Perms : SaveException(w, p)) \/ FinishMatrix(w)
    \/ \E d \in Readers : Store(d) \/ \E u \in Staff : Compute(d, u)
    \/ \E u \in Staff : Expire(u)

AccessSpec == AccessInit /\ [][AccessNext]_accessVars

-----------------------------------------------------------------------------
(***************************************************************************)
(* Properties.                                                             *)
(***************************************************************************)

\* What is cached for a user is what he may do now: whatever changes it drops
\* the cached set (signals.py, services.py:41-93).  Excepted are a set that a
\* reader stored while such a change was under way, and a user whose roles were
\* all taken by a form without a role and without permissions
\* (accounts/services.py:113).
CachedSetIsCurrent ==
    \A u \in Staff : cache[u] # Absent /\ ~cache[u].early => cache[u].codes = Effective(u)

\* What was ticked for a user, on his form or in the matrix, he may do, and he
\* may do nothing else but what a role grants him that he holds beside the
\* default one (services.py:209-285), until somebody changes the user or his
\* roles again.  In a tenant's database a matrix that is being saved, or whose
\* save died half-way, has changed him with the first row it committed.
TicksAreObeyed ==
    \A u \in Staff : asked[u] # Absent =>
        /\ asked[u] \subseteq Effective(u)
        /\ Effective(u) \ asked[u] \subseteq GrantedBy(holds[u] \ {default[u]})

\* What the edit page says of itself, that permissions are managed in the matrix
\* (user_form.js:148): saving a user on it with the role he has leaves what he
\* may do as it is.
EditSaved(w, u) ==
    /\ change[w].kind = "user" /\ ~change[w].keep /\ change'[w] = Ready
    /\ change[w].user = u /\ change[w].codes = {}
    /\ change[w].role = default[u] /\ default[u] # NoRole
EditKeepsPermissions ==
    [][\A w \in Web, u \in Staff : EditSaved(w, u) => Effective(u)' = Effective(u)]_accessVars

=============================================================================
