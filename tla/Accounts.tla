------------------------------ MODULE Accounts ------------------------------
(***************************************************************************)
(* Users, sales teams, brokers and their agencies, as administrators keep  *)
(* them.                                                                   *)
(*                                                                         *)
(* Nothing is versioned.  A team's form is a page that posts whom it shows *)
(* as chosen, also those it was loaded with and cannot show any more; the  *)
(* post makes the team's rows those.  Services read a row when the request *)
(* comes and write all its columns when they are done, so what another     *)
(* request wrote in between is undone, but where a row is locked when it   *)
(* is read.  An agency's name is copied to its brokers.                    *)
(*                                                                         *)
(* at[a] is the page that administrator a has open or the request that he  *)
(* has sent: one at a time.  A step of a request reads or writes as the    *)
(* database lets others see it: at a statement, or at the commit.  Requests *)
(* that are refused, and pages that are closed, change nothing (Leave).    *)
(***************************************************************************)
EXTENDS Naturals, FiniteSets

CONSTANTS
    Users,
    Teams,
    Brokers,
    Agencies,
    Names,         \* of agencies
    Admins,        \* administrators, and users who change their own password
    None           \* no row, nobody, no agency, no name

VARIABLES
    user,          \* User and its profile: may it sign in, which role it has by default
    team,          \* Team.sales_head and the team's rows of TeamMember
    broker,        \* Broker: its login, its agency and company_name
    agency,        \* Agency.name
    at,
    crossed,       \* for the properties: teams last saved from a page older than a save,
                   \* or activated since by a request older than a save
    joined,        \* for the properties: brokers that joined an agency while it was renamed
    removed,       \* for the properties: logins whose broker was deleted
    again          \* for the properties: those of them that the pages of users turned on

vars == <<user, team, broker, agency, at, crossed, joined, removed, again>>

SalesRoles == {"SALES", "SALES_HEAD"}
User == [on : BOOLEAN, role : SalesRoles \cup {"BROKERS"}]
Team == [head : Users \cup {None}, heads : SUBSET Users, members : SUBSET Users]
Broker == [login : Users \cup {None}, agency : Agencies \cup {None}, company : Names \cup {None}]
Agency == Names
Idle == [kind |-> "idle"]
Request ==
    {Idle}
    \cup [kind : {"user"}, user : Users, row : User]
    \cup [kind : {"page"}, team : Teams \cup {None}, heads : SUBSET Users,
          members : SUBSET Users, keepHeads : SUBSET Users, keepMembers : SUBSET Users,
          old : BOOLEAN]
    \cup [kind : {"post"}, team : Teams \cup {None}, heads : SUBSET Users,
          members : SUBSET Users, old : BOOLEAN]
    \cup [kind : {"row"}, team : Teams, head : Users \cup {None}, old : BOOLEAN]
    \cup [kind : {"new", "edit"}, broker : Brokers, agency : Agencies \cup {None},
          company : Names \cup {None}, login : Users \cup {None}, row : User \cup {None}]

ASSUME NoneIsNothing ==
    /\ None \notin Users \cup Teams \cup Brokers \cup Agencies \cup Names
    /\ None \notin User \cup Team \cup Broker

TypeOK ==
    /\ user \in [Users -> User \cup {None}]
    /\ team \in [Teams -> Team \cup {None}]
    /\ \A t \in Teams : team[t] # None => team[t].heads \cap team[t].members = {}
    /\ broker \in [Brokers -> Broker \cup {None}]
    /\ agency \in [Agencies -> Agency \cup {None}]
    /\ at \in [Admins -> Request]
    /\ crossed \subseteq Teams
    /\ joined \subseteq Brokers
    /\ removed \subseteq Users
    /\ again \subseteq Users

\* A company with staff, and no team, broker or agency yet.
Init ==
    /\ user \in [Users -> [on : {TRUE}, role : SalesRoles] \cup {None}]
    /\ team = [t \in Teams |-> None]
    /\ broker = [b \in Brokers |-> None]
    /\ agency = [g \in Agencies |-> None]
    /\ at = [a \in Admins |-> Idle]
    /\ crossed = {}
    /\ joined = {}
    /\ removed = {}
    /\ again = {}

Leave(a) ==
    /\ at[a] # Idle
    /\ at' = [at EXCEPT ![a] = Idle]
    /\ UNCHANGED <<user, team, broker, agency, crossed, joined, removed, again>>

-----------------------------------------------------------------------------
(***************************************************************************)
(* Users.                                                                  *)
(***************************************************************************)

\* The row that a request about a user, or the user's own session, has read.
ReadUser(a, u) ==
    /\ at[a] = Idle
    /\ user[u] # None
    /\ at' = [at EXCEPT ![a] = [kind |-> "user", user |-> u, row |-> user[u]]]
    /\ UNCHANGED <<user, team, broker, agency, crossed, joined, removed, again>>

\* user.save() and profile.save() write the whole row.
SaveUser(a, row) ==
    /\ user' = [user EXCEPT ![at[a].user] = row]
    /\ again' = IF row.on THEN again \cup ({at[a].user} \cap removed) ELSE again
    /\ at' = [at EXCEPT ![a] = Idle]
    /\ UNCHANGED <<team, broker, agency, crossed, joined, removed>>

\* UserService.update_user: the forms offer every role but that of brokers.
UpdateUser(a) ==
    /\ at[a].kind = "user"
    /\ \E r \in SalesRoles : SaveUser(a, [at[a].row EXCEPT !.role = r])

\* UserService.change_password.
ChangePassword(a) ==
    /\ at[a].kind = "user"
    /\ at[a].row.on
    /\ SaveUser(a, at[a].row)

\* UserService.delete_user.
DeactivateUser(a) ==
    /\ at[a].kind = "user"
    /\ SaveUser(a, [at[a].row EXCEPT !.on = FALSE])

\* UserService.activate_user.
ActivateUser(a) ==
    /\ at[a].kind = "user"
    /\ SaveUser(a, [at[a].row EXCEPT !.on = TRUE])

Holds(a, u) ==
    \/ at[a].kind = "user" /\ at[a].user = u
    \/ at[a].kind = "edit" /\ at[a].login = u
    \/ at[a].kind = "row" /\ at[a].head = u

\* UserService.destroy_user: the user's memberships go with him, teams and brokers
\* lose their reference to him.  Only while no other request has read the user, or
\* a team that he leads: to save that one would be refused, as he is gone.
DestroyUser(u) ==
    /\ user[u] # None
    /\ \A a \in Admins : ~ Holds(a, u)
    /\ user' = [user EXCEPT ![u] = None]
    /\ team' = [t \in Teams |-> IF team[t] = None THEN None ELSE
           [head |-> IF team[t].head = u THEN None ELSE team[t].head,
            heads |-> team[t].heads \ {u},
            members |-> team[t].members \ {u}]]
    /\ broker' = [b \in Brokers |->
           IF broker[b] # None /\ broker[b].login = u
           THEN [broker[b] EXCEPT !.login = None] ELSE broker[b]]
    /\ removed' = removed \ {u}
    /\ again' = again \ {u}
    /\ UNCHANGED <<agency, at, crossed, joined>>

-----------------------------------------------------------------------------
(***************************************************************************)
(* Teams.                                                                  *)
(***************************************************************************)

Rows(t) == IF t = None \/ team[t] = None
           THEN [head |-> None, heads |-> {}, members |-> {}] ELSE team[t]
OnTeam(u, t) == u \in Rows(t).heads \cup Rows(t).members

\* _unassigned_or_in_team: active users of the role who are on no team, or on this.
Available(role, t) ==
    {u \in Users :
        /\ user[u] # None /\ user[u].on /\ user[u].role = role
        /\ OnTeam(u, t) \/ \A s \in Teams : ~ OnTeam(u, s)}

\* What the page posts beside the users it shows as chosen: those the team had when
\* it was loaded and whom it does not show.
\* Mutant of Unseen: it posts only whom it shows.
NothingUnseen(chosen, shown) == {}
Unseen(chosen, shown) == chosen \ shown

\* team_create and team_edit: the page with its two lists.
OpenTeam(a, t) ==
    /\ at[a] = Idle
    /\ t # None => team[t] # None
    /\ LET heads == Available("SALES_HEAD", t)
           members == Available("SALES", t)
       IN at' = [at EXCEPT ![a] =
              [kind |-> "page", team |-> t, heads |-> heads, members |-> members,
               keepHeads |-> Unseen(Rows(t).heads, heads),
               keepMembers |-> Unseen(Rows(t).members, members), old |-> FALSE]]
    /\ UNCHANGED <<user, team, broker, agency, crossed, joined, removed, again>>

\* The page is posted with any of those it shows; team_api_edit reads the team.
PostTeam(a, heads, members) ==
    /\ at[a].kind = "page"
    /\ at[a].team # None => team[at[a].team] # None
    /\ heads \subseteq at[a].heads
    /\ members \subseteq at[a].members
    /\ at' = [at EXCEPT ![a] =
           [kind |-> "post", team |-> at[a].team, heads |-> heads \cup at[a].keepHeads,
            members |-> members \cup at[a].keepMembers, old |-> at[a].old]]
    /\ UNCHANGED <<user, team, broker, agency, crossed, joined, removed, again>>

\* The rows of a team that had those of old and is to have these heads and members:
\* whoever has a row keeps it as it is, and goes if its list does not name him.
Synced(old, heads, members) ==
    LET hs == (old.heads \cap heads) \cup (heads \ (old.heads \cup old.members))
        ms == (old.members \cap members) \cup (members \ (hs \cup old.members))
    IN [heads |-> hs, members |-> ms]

\* The first of the posted heads leads the team.
Leads(u, heads) == IF heads = {} THEN u = None ELSE u \in heads

WriteTeam(a, t, h) ==
    LET p == at[a]
        rows == Synced(Rows(t), p.heads, p.members)
    IN /\ Leads(h, p.heads)
       /\ \A u \in p.heads \cup p.members : user[u] # None
       /\ team' = [team EXCEPT ![t] =
              [head |-> h, heads |-> rows.heads, members |-> rows.members]]
       /\ at' = [x \in Admins |->
              IF x = a THEN Idle
              ELSE IF at[x].kind \in {"page", "post", "row"} /\ at[x].team = t
              THEN [at[x] EXCEPT !.old = TRUE] ELSE at[x]]
       /\ crossed' = IF p.old THEN crossed \cup {t} ELSE crossed \ {t}
       /\ UNCHANGED <<user, broker, agency, joined, removed, again>>

\* TeamService.create_team.
CreateTeam(a, t, h) ==
    /\ at[a].kind = "post"
    /\ at[a].team = None
    /\ team[t] = None
    /\ WriteTeam(a, t, h)

\* TeamService.update_team.  Its first statement locks the team's row, so that updates
\* of one team run one after the other; of a team deleted since the request read it,
\* it makes a new row.
UpdateTeam(a, t, h) ==
    /\ at[a].kind = "post"
    /\ at[a].team = t
    /\ WriteTeam(a, t, h)

\* team_activate and team_api_activate: the team's row as the request reads it.
ReadTeam(a, t) ==
    /\ at[a] = Idle
    /\ team[t] # None
    /\ at' = [at EXCEPT ![a] =
           [kind |-> "row", team |-> t, head |-> team[t].head, old |-> FALSE]]
    /\ UNCHANGED <<user, team, broker, agency, crossed, joined, removed, again>>

\* TeamService.activate_team saves that whole row, the head included; of a team
\* deleted meanwhile it makes a new row, with nobody on it.
ActivateTeam(a) ==
    /\ at[a].kind = "row"
    /\ LET t == at[a].team
       IN /\ team' = [team EXCEPT ![t] =
                 [head |-> at[a].head, heads |-> Rows(t).heads, members |-> Rows(t).members]]
          /\ crossed' = IF at[a].old \/ team[t] = None THEN crossed \cup {t} ELSE crossed
    /\ at' = [at EXCEPT ![a] = Idle]
    /\ UNCHANGED <<user, broker, agency, joined, removed, again>>

\* TeamService.delete_team.
DeleteTeam(t) ==
    /\ team[t] # None
    /\ team' = [team EXCEPT ![t] = None]
    /\ crossed' = crossed \ {t}
    /\ UNCHANGED <<user, broker, agency, at, joined, removed, again>>

-----------------------------------------------------------------------------
(***************************************************************************)
(* Agencies.                                                               *)
(***************************************************************************)

\* update_broker holds the row of its broker from its first statement on.
\* Mutant of Locked: it reads the broker without locking it.
NotLocked(b) == FALSE
Locked(b) == \E a \in Admins : at[a].kind = "edit" /\ at[a].broker = b

In(g) == {b \in Brokers : broker[b] # None /\ broker[b].agency = g}

CreateAgency(g, n) ==
    /\ agency[g] = None
    /\ agency' = [agency EXCEPT ![g] = n]
    /\ UNCHANGED <<user, team, broker, at, crossed, joined, removed, again>>

\* Mutant of TellBrokers: the name is not copied.
KeepBrokers(g, n) == broker
TellBrokers(g, n) ==
    [b \in Brokers |-> IF b \in In(g) THEN [broker[b] EXCEPT !.company = n] ELSE broker[b]]

\* AgencyService.update_agency: it waits for the brokers of the agency that others
\* are editing.
RenameAgency(g, n) ==
    /\ agency[g] # None
    /\ \A b \in In(g) : ~ Locked(b)
    /\ agency' = [agency EXCEPT ![g] = n]
    /\ broker' = TellBrokers(g, n)
    /\ joined' = joined \ In(g)
    /\ UNCHANGED <<user, team, at, crossed, removed, again>>

\* AgencyService.delete_agency: its brokers keep its name.
DeleteAgency(g) ==
    /\ agency[g] # None
    /\ \A b \in In(g) : ~ Locked(b)
    /\ agency' = [agency EXCEPT ![g] = None]
    /\ broker' = [b \in Brokers |->
           IF b \in In(g) THEN [broker[b] EXCEPT !.agency = None] ELSE broker[b]]
    /\ joined' = joined \ In(g)
    /\ UNCHANGED <<user, team, at, crossed, removed, again>>

-----------------------------------------------------------------------------
(***************************************************************************)
(* Brokers.                                                                *)
(***************************************************************************)

\* The name that the selected agency has now; an independent broker has none.
NameOf(g) == IF g = None THEN None ELSE agency[g]

\* BrokerService.create_broker up to its rows; the id is new.
StartBroker(a, b, g) ==
    /\ at[a] = Idle
    /\ broker[b] = None
    /\ \A x \in Admins : at[x].kind \in {"new", "edit"} => at[x].broker # b
    /\ g # None => agency[g] # None
    /\ at' = [at EXCEPT ![a] =
           [kind |-> "new", broker |-> b, agency |-> g, company |-> NameOf(g),
            login |-> None, row |-> None]]
    /\ UNCHANGED <<user, team, broker, agency, crossed, joined, removed, again>>

\* BrokerService.update_broker up to its rows: the broker is locked, then the agency
\* and the broker's login are read.
EditBroker(a, b, g) ==
    /\ at[a] = Idle
    /\ broker[b] # None
    /\ ~ Locked(b)
    /\ g # None => agency[g] # None
    /\ at' = [at EXCEPT ![a] =
           [kind |-> "edit", broker |-> b, agency |-> g, company |-> NameOf(g),
            login |-> broker[b].login,
            row |-> IF broker[b].login = None THEN None ELSE user[broker[b].login]]]
    /\ UNCHANGED <<user, team, broker, agency, crossed, joined, removed, again>>

\* A new agency's row must be there when the broker's is written.
SaveRow(a, login) ==
    LET p == at[a]
        was == IF broker[p.broker] = None THEN None ELSE broker[p.broker].agency
    IN /\ p.agency \notin {None, was} => agency[p.agency] # None
       /\ broker' = [broker EXCEPT ![p.broker] =
              [login |-> login, agency |-> p.agency, company |-> p.company]]
       /\ joined' = IF p.agency \notin {None, was} /\ p.company # agency[p.agency]
                    THEN joined \cup {p.broker} ELSE joined \ {p.broker}
       /\ at' = [at EXCEPT ![a] = Idle]

\* The login of a broker that has none is created with it, for an email that no user has.
SaveNewLogin(a, u) ==
    /\ at[a].kind \in {"new", "edit"}
    /\ at[a].row = None
    /\ user[u] = None
    /\ user' = [user EXCEPT ![u] = [on |-> TRUE, role |-> "BROKERS"]]
    /\ SaveRow(a, u)
    /\ UNCHANGED <<team, agency, crossed, removed, again>>

\* The page posts the broker's email, so the login's row is written, as it was read.
SaveBroker(a) ==
    /\ at[a].kind = "edit"
    /\ at[a].row # None
    /\ user' = [user EXCEPT ![at[a].login] = at[a].row]
    /\ SaveRow(a, at[a].login)
    /\ UNCHANGED <<team, agency, crossed, removed, again>>

\* BrokerService.delete_broker: the login of the broker is turned off.
DeleteBroker(b) ==
    LET u == broker[b].login
    IN /\ broker[b] # None
       /\ ~ Locked(b)
       /\ broker' = [broker EXCEPT ![b] = None]
       /\ IF u = None THEN UNCHANGED <<user, removed, again>>
          ELSE /\ user' = [user EXCEPT ![u].on = FALSE]
               /\ removed' = removed \cup {u}
               /\ again' = again \ {u}
       /\ joined' = joined \ {b}
       /\ UNCHANGED <<team, agency, at, crossed>>

-----------------------------------------------------------------------------

Next ==
    \/ \E a \in Admins :
        \/ Leave(a)
        \/ \E u \in Users : ReadUser(a, u)
        \/ UpdateUser(a)
        \/ ChangePassword(a)
        \/ DeactivateUser(a)
        \/ ActivateUser(a)
        \/ \E t \in Teams \cup {None} : OpenTeam(a, t)
        \/ \E heads, members \in SUBSET Users : PostTeam(a, heads, members)
        \/ \E t \in Teams, h \in Users \cup {None} : CreateTeam(a, t, h)
        \/ \E t \in Teams, h \in Users \cup {None} : UpdateTeam(a, t, h)
        \/ \E t \in Teams : ReadTeam(a, t)
        \/ ActivateTeam(a)
        \/ \E b \in Brokers, g \in Agencies \cup {None} : StartBroker(a, b, g)
        \/ \E b \in Brokers, g \in Agencies \cup {None} : EditBroker(a, b, g)
        \/ \E u \in Users : SaveNewLogin(a, u)
        \/ SaveBroker(a)
    \/ \E u \in Users : DestroyUser(u)
    \/ \E t \in Teams : DeleteTeam(t)
    \/ \E g \in Agencies, n \in Names : CreateAgency(g, n)
    \/ \E g \in Agencies, n \in Names : RenameAgency(g, n)
    \/ \E g \in Agencies : DeleteAgency(g)
    \/ \E b \in Brokers : DeleteBroker(b)

Spec == Init /\ [][Next]_vars

-----------------------------------------------------------------------------
(***************************************************************************)
(* Properties.                                                             *)
(***************************************************************************)

\* Who leads a team has a row on it (accounts/services.py:416-439), unless the team was
\* last saved from a page that another save had overtaken: a member whom the page then
\* names as a head keeps his member's row when the heads are synced and loses it when
\* the members are.  Excepted too is a team that a request activated with the head it
\* had read before another save, or a deletion (accounts/services.py:472).
HeadIsOnTeam ==
    \A t \in Teams : team[t] # None /\ team[t].head # None =>
        OnTeam(team[t].head, t) \/ t \in crossed

\* A broker of an agency carries the agency's name (accounts/services.py:766-768), unless
\* he joined it with a name read before it was renamed: the agency is not locked for that.
\* Edits of a broker who stays are safe, as his row is locked before the name is read.
NameFollowsAgency ==
    \A b \in Brokers : broker[b] # None /\ broker[b].agency # None =>
        broker[b].company = agency[broker[b].agency] \/ b \in joined

\* Who was a broker that has been deleted cannot sign in (accounts/services.py:702-705),
\* unless the pages of users turned his login on again, also by writing a row that they
\* read before; an edit of the broker never does.
RemovedBrokerIsOut == \A u \in removed : user[u].on => u \in again

=============================================================================
