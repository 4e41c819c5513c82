--------------------------- MODULE Accounts_proofs ---------------------------
(***************************************************************************)
(* The heads of teams, the names of brokers and the logins of brokers that *)
(* are gone, for every set of users, teams, brokers, agencies and          *)
(* administrators.                                                         *)
(*                                                                         *)
(* None of the three is inductive.  That a head is on his team rests on    *)
(* what an open page, or a request to activate the team, has in hand       *)
(* (PagesInv, HeadsRead); that a name follows on what a request has read   *)
(* while its broker was locked (NamesRead) and on one request for each     *)
(* broker (OneWriter); that a removed login stays off on logins being      *)
(* nobody else's (Logins, OneLogin) and on the request that edits a broker *)
(* having its login (EditsInv).  The types need Logins too: a login that   *)
(* is turned off has a row.                                                *)
(***************************************************************************)
EXTENDS Accounts, Access, TLAPS

UserRequest == [kind : {"user"}, user : Users, row : User]
PageRequest ==
    [kind : {"page"}, team : Teams \cup {None}, heads : SUBSET Users,
     members : SUBSET Users, keepHeads : SUBSET Users, keepMembers : SUBSET Users,
     old : BOOLEAN]
PostRequest ==
    [kind : {"post"}, team : Teams \cup {None}, heads : SUBSET Users,
     members : SUBSET Users, old : BOOLEAN]
RowRequest == [kind : {"row"}, team : Teams, head : Users \cup {None}, old : BOOLEAN]
BrokerRequest ==
    [kind : {"new", "edit"}, broker : Brokers, agency : Agencies \cup {None},
     company : Names \cup {None}, login : Users \cup {None}, row : User \cup {None}]

\* A request of each kind has the fields of its kind.
LEMMA RequestKinds ==
    ASSUME NEW q \in Request
    PROVE  /\ q.kind = "user" => q \in UserRequest
           /\ q.kind = "page" => q \in PageRequest
           /\ q.kind = "post" => q \in PostRequest
           /\ q.kind = "row" => q \in RowRequest
           /\ q.kind \in {"new", "edit"} => q \in BrokerRequest
BY DEF Request, Idle, UserRequest, PageRequest, PostRequest, RowRequest, BrokerRequest

LEMMA RequestsAre ==
    /\ Idle \in Request
    /\ UserRequest \subseteq Request
    /\ PageRequest \subseteq Request
    /\ PostRequest \subseteq Request
    /\ RowRequest \subseteq Request
    /\ BrokerRequest \subseteq Request
BY DEF Request, UserRequest, PageRequest, PostRequest, RowRequest, BrokerRequest

\* A request that a save of its team overtakes.
LEMMA OvertakenIs ==
    ASSUME NEW q \in Request, q.kind \in {"page", "post", "row"}
    PROVE  LET o == [q EXCEPT !.old = TRUE]
           IN o \in Request /\ o.kind = q.kind /\ o.team = q.team /\ o.old = TRUE
<1>1. q \in PageRequest \cup PostRequest \cup RowRequest
  BY RequestKinds
<1>2. CASE q \in PageRequest
  BY <1>2, RequestsAre DEF PageRequest
<1>3. CASE q \in PostRequest
  BY <1>3, RequestsAre DEF PostRequest
<1>4. CASE q \in RowRequest
  BY <1>4, RequestsAre DEF RowRequest
<1> QED BY <1>1, <1>2, <1>3, <1>4

LEMMA RowsOfTeams ==
    ASSUME TypeOK, NEW t \in Teams \cup {None}
    PROVE  /\ Rows(t).heads \subseteq Users /\ Rows(t).members \subseteq Users
           /\ Rows(t).heads \cap Rows(t).members = {}
BY DEF TypeOK, Rows, Team

\* The login of a broker exists, and no broker that is gone had it.
Logins ==
    \A b \in Brokers : broker[b] # None /\ broker[b].login # None =>
        /\ user[broker[b].login] # None
        /\ broker[b].login \notin removed

LEMMA TypeInit == ASSUME Init PROVE TypeOK
BY NoneIsNothing, RequestsAre DEF Init, TypeOK, SalesRoles, User

LEMMA TypeStep ==
    ASSUME TypeOK, Logins, Next
    PROVE  TypeOK'
<1> USE RequestsAre, NoneIsNothing
<1>1. ASSUME NEW a \in Admins, Leave(a) PROVE TypeOK'
  BY <1>1 DEF Leave, TypeOK
<1>2. ASSUME NEW a \in Admins, NEW u \in Users, ReadUser(a, u) PROVE TypeOK'
  <2>1. [kind |-> "user", user |-> u, row |-> user[u]] \in UserRequest
    BY <1>2 DEF ReadUser, TypeOK, UserRequest
  <2> QED BY <1>2, <2>1 DEF ReadUser, TypeOK
<1>3. ASSUME NEW a \in Admins, NEW row \in User, at[a].kind = "user", SaveUser(a, row)
      PROVE  TypeOK'
  <2>1. at[a].user \in Users
    BY <1>3, RequestKinds DEF TypeOK, UserRequest
  <2> QED BY <1>3, <2>1 DEF SaveUser, TypeOK
<1>4. ASSUME NEW a \in Admins,
             \/ UpdateUser(a) \/ ChangePassword(a)
             \/ DeactivateUser(a) \/ ActivateUser(a)
      PROVE  TypeOK'
  <2>1. at[a].kind = "user"
    BY <1>4 DEF UpdateUser, ChangePassword, DeactivateUser, ActivateUser
  <2>2. at[a].row \in User
    BY <2>1, RequestKinds DEF TypeOK, UserRequest
  <2>3. PICK row \in User : SaveUser(a, row)
    BY <1>4, <2>2 DEF UpdateUser, ChangePassword, DeactivateUser, ActivateUser, User, SalesRoles
  <2> QED BY <1>3, <2>1, <2>3
<1>5. ASSUME NEW a \in Admins, NEW t \in Teams \cup {None}, OpenTeam(a, t) PROVE TypeOK'
  <2> DEFINE heads == Available("SALES_HEAD", t)
             members == Available("SALES", t)
  <2>1. heads \subseteq Users /\ members \subseteq Users
    BY DEF Available
  <2>2. [kind |-> "page", team |-> t, heads |-> heads, members |-> members,
         keepHeads |-> Unseen(Rows(t).heads, heads),
         keepMembers |-> Unseen(Rows(t).members, members), old |-> FALSE] \in PageRequest
    <3> HIDE DEF heads, members
    <3> QED BY <2>1, RowsOfTeams DEF PageRequest, Unseen
  <2> QED BY <1>5, <2>2 DEF OpenTeam, TypeOK
<1>6. ASSUME NEW a \in Admins, NEW heads \in SUBSET Users, NEW members \in SUBSET Users,
             PostTeam(a, heads, members)
      PROVE  TypeOK'
  <2>1. at[a] \in PageRequest
    BY <1>6, RequestKinds DEF PostTeam, TypeOK
  <2>2. [kind |-> "post", team |-> at[a].team, heads |-> heads \cup at[a].keepHeads,
         members |-> members \cup at[a].keepMembers, old |-> at[a].old] \in PostRequest
    BY <2>1 DEF PageRequest, PostRequest
  <2> QED BY <1>6, <2>2 DEF PostTeam, TypeOK
<1>7. ASSUME NEW a \in Admins, NEW t \in Teams, NEW h \in Users \cup {None},
             CreateTeam(a, t, h) \/ UpdateTeam(a, t, h)
      PROVE  TypeOK'
  <2>1. at[a] \in PostRequest
    BY <1>7, RequestKinds DEF CreateTeam, UpdateTeam, TypeOK
  <2>2. WriteTeam(a, t, h)
    BY <1>7 DEF CreateTeam, UpdateTeam
  <2> DEFINE rows == Synced(Rows(t), at[a].heads, at[a].members)
  <2>3. /\ rows.heads \subseteq Users /\ rows.members \subseteq Users
        /\ rows.heads \cap rows.members = {}
    BY <2>1, RowsOfTeams DEF Synced, PostRequest
  <2>4. [head |-> h, heads |-> rows.heads, members |-> rows.members] \in Team
    <3> HIDE DEF rows
    <3> QED BY <2>3 DEF Team
  <2>5. team' \in [Teams -> Team \cup {None}]
        /\ \A s \in Teams : team'[s] # None => team'[s].heads \cap team'[s].members = {}
    BY <2>2, <2>3, <2>4 DEF WriteTeam, TypeOK
  <2>6. \A x \in Admins : at'[x] \in Request
    <3> TAKE x \in Admins
    <3>1. CASE x = a
      BY <3>1, <2>2 DEF WriteTeam
    <3>2. CASE x # a /\ at[x].kind \in {"page", "post", "row"} /\ at[x].team = t
      <4>1. [at[x] EXCEPT !.old = TRUE] \in Request
        BY <3>2, OvertakenIs DEF TypeOK
      <4> QED BY <3>2, <4>1, <2>2 DEF WriteTeam
    <3>3. CASE x # a /\ ~(at[x].kind \in {"page", "post", "row"} /\ at[x].team = t)
      BY <3>3, <2>2 DEF WriteTeam, TypeOK
    <3> QED BY <3>1, <3>2, <3>3
  <2>7. at' \in [Admins -> Request]
    BY <2>2, <2>6 DEF WriteTeam
  <2> QED BY <2>2, <2>5, <2>7 DEF WriteTeam, TypeOK
<1>8. ASSUME NEW a \in Admins, NEW b \in Brokers, NEW g \in Agencies \cup {None},
             StartBroker(a, b, g) \/ EditBroker(a, b, g)
      PROVE  TypeOK'
  <2>1. NameOf(g) \in Names \cup {None}
    BY DEF NameOf, TypeOK, Agency
  <2>2. PICK q \in BrokerRequest : at' = [at EXCEPT ![a] = q]
    <3>1. CASE StartBroker(a, b, g)
      BY <3>1, <2>1 DEF StartBroker, BrokerRequest
    <3>2. CASE EditBroker(a, b, g)
      <4>1. broker[b].login \in Users \cup {None}
        BY <3>2 DEF EditBroker, TypeOK, Broker
      <4>2. (IF broker[b].login = None THEN None ELSE user[broker[b].login]) \in User \cup {None}
        BY <4>1 DEF TypeOK
      <4> QED BY <3>2, <2>1, <4>1, <4>2 DEF EditBroker, BrokerRequest
    <3> QED BY <1>8, <3>1, <3>2
  <2> QED BY <1>8, <2>2 DEF StartBroker, EditBroker, TypeOK
<1>9. ASSUME NEW a \in Admins, (\E u \in Users : SaveNewLogin(a, u)) \/ SaveBroker(a)
      PROVE  TypeOK'
  <2>1. at[a] \in BrokerRequest
    BY <1>9, RequestKinds DEF SaveNewLogin, SaveBroker, TypeOK
  <2>2. PICK login \in Users \cup {None} : SaveRow(a, login)
    BY <1>9, <2>1 DEF SaveNewLogin, SaveBroker, BrokerRequest
  <2>3. broker' \in [Brokers -> Broker \cup {None}] /\ joined' \subseteq Brokers
        /\ at' \in [Admins -> Request]
    BY <2>1, <2>2 DEF SaveRow, BrokerRequest, Broker, TypeOK
  <2>4. user' \in [Users -> User \cup {None}]
    <3>1. CASE \E u \in Users : SaveNewLogin(a, u)
      BY <3>1 DEF SaveNewLogin, User, TypeOK
    <3>2. CASE SaveBroker(a)
      <4>1. at[a].row \in User
        BY <3>2, <2>1 DEF SaveBroker, BrokerRequest
      <4> QED BY <3>2, <4>1 DEF SaveBroker, TypeOK
    <3> QED BY <1>9, <3>1, <3>2
  <2> QED BY <1>9, <2>3, <2>4 DEF SaveNewLogin, SaveBroker, TypeOK
<1>10. ASSUME NEW u \in Users, DestroyUser(u) PROVE TypeOK'
  <2>1. team' \in [Teams -> Team \cup {None}]
        /\ \A t \in Teams : team'[t] # None => team'[t].heads \cap team'[t].members = {}
    BY <1>10 DEF DestroyUser, TypeOK, Team
  <2>2. broker' \in [Brokers -> Broker \cup {None}]
    BY <1>10 DEF DestroyUser, TypeOK, Broker
  <2> QED BY <1>10, <2>1, <2>2 DEF DestroyUser, TypeOK
<1>11. ASSUME NEW t \in Teams, DeleteTeam(t) PROVE TypeOK'
  BY <1>11 DEF DeleteTeam, TypeOK
<1>12. ASSUME NEW g \in Agencies, NEW n \in Names, CreateAgency(g, n) PROVE TypeOK'
  BY <1>12 DEF CreateAgency, TypeOK, Agency
<1>13. ASSUME NEW g \in Agencies, NEW n \in Names, RenameAgency(g, n) PROVE TypeOK'
  <2>1. broker' \in [Brokers -> Broker \cup {None}]
    BY <1>13 DEF RenameAgency, TellBrokers, In, Broker, TypeOK
  <2> QED BY <1>13, <2>1 DEF RenameAgency, TypeOK, Agency
<1>14. ASSUME NEW g \in Agencies, DeleteAgency(g) PROVE TypeOK'
  <2>1. broker' \in [Brokers -> Broker \cup {None}]
    BY <1>14 DEF DeleteAgency, In, Broker, TypeOK
  <2> QED BY <1>14, <2>1 DEF DeleteAgency, TypeOK
<1>15. ASSUME NEW b \in Brokers, DeleteBroker(b) PROVE TypeOK'
  <2>1. broker[b].login \in Users \cup {None}
    BY <1>15 DEF DeleteBroker, TypeOK, Broker
  <2>2. /\ user' \in [Users -> User \cup {None}]
        /\ removed' \subseteq Users /\ again' \subseteq Users
    <3>1. CASE broker[b].login = None
      BY <1>15, <3>1 DEF DeleteBroker, TypeOK
    <3>2. CASE broker[b].login # None
      <4>1. user[broker[b].login] \in User
        BY <1>15, <2>1, <3>2 DEF DeleteBroker, Logins, TypeOK
      <4>2. [user[broker[b].login] EXCEPT !.on = FALSE] \in User
        BY <4>1 DEF User
      <4> QED BY <1>15, <2>1, <3>2, <4>2 DEF DeleteBroker, TypeOK
    <3> QED BY <3>1, <3>2
  <2> QED BY <1>15, <2>2 DEF DeleteBroker, TypeOK
<1>16. ASSUME NEW a \in Admins, NEW t \in Teams, ReadTeam(a, t) PROVE TypeOK'
  <2>1. [kind |-> "row", team |-> t, head |-> team[t].head, old |-> FALSE] \in RowRequest
    BY <1>16 DEF ReadTeam, TypeOK, Team, RowRequest
  <2> QED BY <1>16, <2>1 DEF ReadTeam, TypeOK
<1>17. ASSUME NEW a \in Admins, ActivateTeam(a) PROVE TypeOK'
  <2>1. PICK t \in Teams, h \in Users \cup {None} : at[a].team = t /\ at[a].head = h
    BY <1>17, RequestKinds DEF ActivateTeam, TypeOK, RowRequest
  <2> DEFINE new == [head |-> h, heads |-> Rows(t).heads, members |-> Rows(t).members]
  <2>2. new \in Team /\ new.heads \cap new.members = {}
    BY RowsOfTeams DEF Team
  <2>3. team' = [team EXCEPT ![t] = new]
    BY <1>17, <2>1 DEF ActivateTeam
  <2>4. crossed' \subseteq Teams
    BY <1>17, <2>1 DEF ActivateTeam, TypeOK
  <2> HIDE DEF new
  <2>5. team' \in [Teams -> Team \cup {None}]
        /\ \A s \in Teams : team'[s] # None => team'[s].heads \cap team'[s].members = {}
    BY <2>2, <2>3 DEF TypeOK
  <2> QED BY <1>17, <2>4, <2>5 DEF ActivateTeam, TypeOK
<1> QED
  BY <1>1, <1>2, <1>4, <1>5, <1>6, <1>7, <1>8, <1>9, <1>10, <1>11, <1>12, <1>13, <1>14,
     <1>15, <1>16, <1>17
  DEF Next

-----------------------------------------------------------------------------
(***************************************************************************)
(* Brokers and their logins.                                               *)
(***************************************************************************)

Writes(a) == at[a].kind \in {"new", "edit"}

\* No two brokers share a login.
OneLogin ==
    \A b, c \in Brokers :
        /\ broker[b] # None /\ broker[c] # None
        /\ broker[b].login # None /\ broker[b].login = broker[c].login
        => b = c

\* The broker that a request edits is there, with the login that the request has read.
EditsInv ==
    \A a \in Admins :
        /\ at[a].kind = "edit" =>
               /\ broker[at[a].broker] # None
               /\ broker[at[a].broker].login = at[a].login
               /\ at[a].row = None <=> at[a].login = None
        /\ at[a].kind = "new" => broker[at[a].broker] = None

OneWriter ==
    \A a, c \in Admins : Writes(a) /\ Writes(c) /\ at[a].broker = at[c].broker => a = c

\* Whoever was a removed broker's login has a row, and is off or was turned on again.
Removed ==
    \A u \in removed : user[u] # None /\ (user[u].on => u \in again)

BrokersInv == Logins /\ OneLogin /\ EditsInv /\ OneWriter

\* Steps that are not about brokers.
LEMMA NotAboutBrokers ==
    ASSUME BrokersInv, broker' = broker, removed' = removed,
           \A u \in Users : user[u] # None => user'[u] # None,
           \A b \in Brokers : broker[b] # None => broker[b].login \in Users \cup {None},
           \A x \in Admins : at'[x] = at[x] \/ at'[x].kind \notin {"new", "edit"}
    PROVE  BrokersInv'
BY DEF BrokersInv, Logins, OneLogin, EditsInv, OneWriter, Writes

LEMMA LoginsAreUsers ==
    ASSUME TypeOK, NEW b \in Brokers, broker[b] # None
    PROVE  broker[b].login \in Users \cup {None} /\ broker[b].agency \in Agencies \cup {None}
BY DEF TypeOK, Broker

LEMMA WriterType ==
    ASSUME TypeOK, NEW a \in Admins, Writes(a)
    PROVE  at[a] \in BrokerRequest
BY RequestKinds DEF TypeOK, Writes

\* A row of a broker is written by the request that holds it.
LEMMA RowSaved ==
    ASSUME TypeOK, BrokersInv, NEW a \in Admins, NEW login \in Users \cup {None},
           Writes(a), SaveRow(a, login), removed' = removed,
           login # None => user'[login] # None /\ login \notin removed,
           \A b \in Brokers : broker[b] # None /\ login # None /\ broker[b].login = login
               => b = at[a].broker,
           \A u \in Users : user[u] # None => user'[u] # None
    PROVE  BrokersInv'
<1> DEFINE p == at[a]
           row == [login |-> login, agency |-> p.agency, company |-> p.company]
<1>1. p.broker \in Brokers
  BY WriterType DEF BrokerRequest
<1>2. row \in Broker
  BY WriterType DEF BrokerRequest, Broker
<1>3. row # None
  BY <1>2, NoneIsNothing
<1>4. broker' = [broker EXCEPT ![p.broker] = row]
  BY DEF SaveRow
<1>5. at' = [at EXCEPT ![a] = Idle]
  BY DEF SaveRow
<1>6. \A b \in Brokers : broker'[b] = IF b = p.broker THEN row ELSE broker[b]
  BY <1>1, <1>4 DEF TypeOK
<1>7. \A x \in Admins : at'[x] = IF x = a THEN Idle ELSE at[x]
  BY <1>5 DEF TypeOK
<1>8. \A x \in Admins : Writes(x)' => x # a /\ Writes(x) /\ at[x].broker # p.broker /\ at'[x] = at[x]
  BY <1>7 DEF Writes, Idle, BrokersInv, OneWriter
<1>9. row.login = login
  OBVIOUS
<1> HIDE DEF p, row
<1>10. Logins'
  BY <1>3, <1>6, <1>9, LoginsAreUsers DEF Logins, BrokersInv
<1>11. OneLogin'
  BY <1>3, <1>6, <1>9 DEF OneLogin, BrokersInv, p
<1>12. EditsInv'
  <2> SUFFICES ASSUME NEW x \in Admins, Writes(x)' PROVE EditsInv!(x)'
    BY DEF EditsInv, Writes
  <2>1. at[x].broker \in Brokers /\ at[x].broker # p.broker /\ at'[x] = at[x]
    BY <1>8, WriterType DEF BrokerRequest
  <2> QED BY <1>6, <2>1 DEF EditsInv, BrokersInv
<1>13. OneWriter'
  BY <1>8 DEF OneWriter, BrokersInv, Writes
<1> QED BY <1>10, <1>11, <1>12, <1>13 DEF BrokersInv

LEMMA BrokersStep ==
    ASSUME TypeOK, BrokersInv, Removed, Next
    PROVE  BrokersInv' /\ Removed'
<1> USE NoneIsNothing
<1>0. \A b \in Brokers : broker[b] # None => broker[b].login \in Users \cup {None}
  BY LoginsAreUsers
<1>1. ASSUME NEW a \in Admins,
             \/ Leave(a)
             \/ \E u \in Users : ReadUser(a, u)
             \/ \E t \in Teams \cup {None} : OpenTeam(a, t)
             \/ \E heads, members \in SUBSET Users : PostTeam(a, heads, members)
             \/ (\E t \in Teams : ReadTeam(a, t)) \/ ActivateTeam(a)
      PROVE  BrokersInv' /\ Removed'
  <2>1. /\ user' = user /\ broker' = broker /\ removed' = removed /\ again' = again
        /\ \A x \in Admins : at'[x] = at[x] \/ at'[x].kind \notin {"new", "edit"}
    BY <1>1 DEF Leave, ReadUser, OpenTeam, PostTeam, ReadTeam, ActivateTeam, TypeOK, Idle
  <2>2. BrokersInv'
    BY <1>0, <2>1, NotAboutBrokers
  <2> QED BY <2>1, <2>2 DEF Removed
<1>2. ASSUME NEW a \in Admins,
             UpdateUser(a) \/ ChangePassword(a) \/ DeactivateUser(a) \/ ActivateUser(a)
      PROVE  BrokersInv' /\ Removed'
  <2>1. at[a] \in UserRequest
    BY <1>2, RequestKinds DEF UpdateUser, ChangePassword, DeactivateUser, ActivateUser, TypeOK
  <2>2. PICK row \in User : SaveUser(a, row)
    BY <1>2, <2>1
    DEF UpdateUser, ChangePassword, DeactivateUser, ActivateUser, User, SalesRoles, UserRequest
  <2>3. /\ broker' = broker /\ removed' = removed
        /\ \A x \in Admins : at'[x] = at[x] \/ at'[x].kind \notin {"new", "edit"}
    BY <2>2 DEF SaveUser, TypeOK, Idle
  <2>4. \A u \in Users : user'[u] = IF u = at[a].user THEN row ELSE user[u]
    BY <2>1, <2>2 DEF SaveUser, TypeOK
  <2>5. BrokersInv'
    BY <1>0, <2>3, <2>4, NotAboutBrokers
  <2>6. Removed'
    BY <2>2, <2>4 DEF Removed, SaveUser, TypeOK
  <2> QED BY <2>5, <2>6
<1>3. ASSUME NEW a \in Admins, NEW t \in Teams, NEW h \in Users \cup {None},
             CreateTeam(a, t, h) \/ UpdateTeam(a, t, h)
      PROVE  BrokersInv' /\ Removed'
  <2>1. WriteTeam(a, t, h)
    BY <1>3 DEF CreateTeam, UpdateTeam
  <2>2. \A x \in Admins : at'[x] = at[x] \/ at'[x].kind \notin {"new", "edit"}
    <3> TAKE x \in Admins
    <3>1. CASE x = a
      BY <2>1, <3>1 DEF WriteTeam, Idle
    <3>2. CASE x # a /\ at[x].kind \in {"page", "post", "row"} /\ at[x].team = t
      <4>2. [at[x] EXCEPT !.old = TRUE].kind = at[x].kind
        BY <3>2, OvertakenIs DEF TypeOK
      <4> QED BY <2>1, <3>2, <4>2 DEF WriteTeam
    <3>3. CASE x # a /\ ~(at[x].kind \in {"page", "post", "row"} /\ at[x].team = t)
      BY <2>1, <3>3 DEF WriteTeam
    <3> QED BY <3>1, <3>2, <3>3
  <2>3. user' = user /\ broker' = broker /\ removed' = removed /\ again' = again
    BY <2>1 DEF WriteTeam
  <2>4. BrokersInv'
    BY <1>0, <2>2, <2>3, NotAboutBrokers
  <2> QED BY <2>3, <2>4 DEF Removed
<1>4. ASSUME NEW a \in Admins, NEW b \in Brokers, NEW g \in Agencies \cup {None},
             StartBroker(a, b, g) \/ EditBroker(a, b, g)
      PROVE  BrokersInv' /\ Removed'
  <2>1. user' = user /\ broker' = broker /\ removed' = removed /\ again' = again
    BY <1>4 DEF StartBroker, EditBroker
  <2>2. Logins' /\ OneLogin' /\ Removed'
    BY <2>1 DEF BrokersInv, Logins, OneLogin, Removed
  <2>3. EditsInv'
    <3>1. CASE StartBroker(a, b, g)
      BY <2>1, <3>1 DEF StartBroker, BrokersInv, EditsInv, TypeOK
    <3>2. CASE EditBroker(a, b, g)
      <4>1. broker[b] # None
            /\ (broker[b].login # None => user[broker[b].login] # None)
        BY <3>2 DEF EditBroker, BrokersInv, Logins
      <4> QED BY <2>1, <3>2, <4>1 DEF EditBroker, BrokersInv, EditsInv, TypeOK
    <3> QED BY <1>4, <3>1, <3>2
  <2>4. OneWriter'
    <3>1. /\ \A x \in Admins : x # a => at'[x] = at[x]
          /\ at'[a].broker = b
      BY <1>4 DEF StartBroker, EditBroker, TypeOK
    <3>2. \A x \in Admins : Writes(x) => at[x].broker # b
      BY <1>4 DEF StartBroker, EditBroker, BrokersInv, EditsInv, Locked, Writes
    <3> QED BY <3>1, <3>2 DEF BrokersInv, OneWriter, Writes
  <2> QED BY <2>2, <2>3, <2>4 DEF BrokersInv
<1>5. ASSUME NEW a \in Admins, NEW u \in Users, SaveNewLogin(a, u)
      PROVE  BrokersInv' /\ Removed'
  <2>1. Writes(a) /\ SaveRow(a, u) /\ removed' = removed /\ again' = again
    BY <1>5 DEF SaveNewLogin, Writes
  <2>2. [on |-> TRUE, role |-> "BROKERS"] \in User
    BY DEF User
  <2>3. \A v \in Users : user'[v] = IF v = u THEN [on |-> TRUE, role |-> "BROKERS"] ELSE user[v]
    BY <1>5 DEF SaveNewLogin, TypeOK
  <2>4. u \notin removed
    BY <1>5 DEF SaveNewLogin, Removed
  <2>5. \A b \in Brokers : broker[b] # None => broker[b].login # u
    BY <1>5 DEF SaveNewLogin, BrokersInv, Logins
  <2>6. BrokersInv'
    BY <2>1, <2>2, <2>3, <2>4, <2>5, RowSaved
  <2>7. Removed'
    BY <2>1, <2>3, <2>4 DEF Removed, TypeOK
  <2> QED BY <2>6, <2>7
<1>6. ASSUME NEW a \in Admins, SaveBroker(a)
      PROVE  BrokersInv' /\ Removed'
  <2> DEFINE u == at[a].login
  <2>1. Writes(a) /\ SaveRow(a, u) /\ removed' = removed /\ again' = again
    BY <1>6 DEF SaveBroker, Writes
  <2>2. at[a] \in BrokerRequest
    BY <2>1, WriterType
  <2>3. u \in Users /\ at[a].row \in User /\ at[a].broker \in Brokers
    BY <1>6, <2>2 DEF SaveBroker, BrokersInv, EditsInv, BrokerRequest
  <2>4. broker[at[a].broker] # None /\ broker[at[a].broker].login = u
    BY <1>6 DEF SaveBroker, BrokersInv, EditsInv
  <2>5. u \notin removed
    BY <2>3, <2>4 DEF BrokersInv, Logins
  <2>6. \A v \in Users : user'[v] = IF v = u THEN at[a].row ELSE user[v]
    BY <1>6, <2>3 DEF SaveBroker, TypeOK
  <2>7. \A b \in Brokers : broker[b] # None /\ broker[b].login = u => b = at[a].broker
    BY <2>3, <2>4 DEF BrokersInv, OneLogin
  <2>8. BrokersInv'
    BY <2>1, <2>3, <2>5, <2>6, <2>7, RowSaved
  <2>9. Removed'
    BY <2>1, <2>5, <2>6 DEF Removed, TypeOK
  <2> QED BY <2>8, <2>9
<1>7. ASSUME NEW u \in Users, DestroyUser(u) PROVE BrokersInv' /\ Removed'
  <2>1. \A v \in Users : user'[v] = IF v = u THEN None ELSE user[v]
    BY <1>7 DEF DestroyUser, TypeOK
  <2>2. \A b \in Brokers :
           /\ broker'[b] # None <=> broker[b] # None
           /\ broker[b] # None => broker'[b].login = IF broker[b].login = u THEN None ELSE broker[b].login
    <3> TAKE b \in Brokers
    <3>1. CASE broker[b] # None /\ broker[b].login = u
      <4>1. broker[b] \in Broker /\ [broker[b] EXCEPT !.login = None] \in Broker
        BY <3>1 DEF TypeOK, Broker
      <4> QED BY <1>7, <3>1, <4>1 DEF DestroyUser, Broker
    <3>2. CASE ~(broker[b] # None /\ broker[b].login = u)
      BY <1>7, <3>2 DEF DestroyUser
    <3> QED BY <3>1, <3>2
  <2>3. at' = at /\ removed' = removed \ {u} /\ again' = again \ {u}
    BY <1>7 DEF DestroyUser
  <2>4. Logins' /\ OneLogin'
    BY <1>0, <2>1, <2>2, <2>3 DEF BrokersInv, Logins, OneLogin
  <2>5. EditsInv'
    <3> SUFFICES ASSUME NEW x \in Admins, Writes(x) PROVE EditsInv!(x)'
      BY <2>3 DEF EditsInv, Writes
    <3>1. at[x].broker \in Brokers
      BY WriterType DEF BrokerRequest
    <3>2. at[x].kind = "edit" => at[x].login # u
      BY <1>7 DEF DestroyUser, Holds
    <3> QED BY <2>2, <2>3, <3>1, <3>2 DEF BrokersInv, EditsInv
  <2>6. OneWriter'
    BY <2>3 DEF BrokersInv, OneWriter, Writes
  <2>7. Removed'
    BY <2>1, <2>3 DEF Removed, TypeOK
  <2> QED BY <2>4, <2>5, <2>6, <2>7 DEF BrokersInv
<1>8. ASSUME \/ \E t \in Teams : DeleteTeam(t)
             \/ \E g \in Agencies, n \in Names : CreateAgency(g, n)
      PROVE  BrokersInv' /\ Removed'
  BY <1>8 DEF DeleteTeam, CreateAgency, BrokersInv, Logins, OneLogin, EditsInv, OneWriter, Writes, Removed
<1>9. ASSUME NEW g \in Agencies,
             (\E n \in Names : RenameAgency(g, n)) \/ DeleteAgency(g)
      PROVE  BrokersInv' /\ Removed'
  <2>1. /\ user' = user /\ removed' = removed /\ again' = again /\ at' = at
    BY <1>9 DEF RenameAgency, DeleteAgency
  <2>2. \A b \in Brokers :
           /\ broker'[b] # None <=> broker[b] # None
           /\ broker[b] # None => broker'[b].login = broker[b].login
    <3> TAKE b \in Brokers
    <3>1. CASE b \in In(g)
      <4>1. broker[b] \in Broker
        BY <3>1 DEF In, TypeOK
      <4>2. PICK q : /\ q \in {[broker[b] EXCEPT !.company = n] : n \in Names}
                              \cup {[broker[b] EXCEPT !.agency = None]}
                     /\ broker'[b] = q
        BY <1>9, <3>1 DEF RenameAgency, DeleteAgency, TellBrokers
      <4>3. q \in Broker /\ q.login = broker[b].login
        BY <4>1, <4>2 DEF Broker
      <4> QED BY <3>1, <4>2, <4>3 DEF In
    <3>2. CASE b \notin In(g)
      BY <1>9, <3>2 DEF RenameAgency, DeleteAgency, TellBrokers
    <3> QED BY <3>1, <3>2
  <2>3. Logins' /\ OneLogin' /\ Removed'
    BY <2>1, <2>2 DEF BrokersInv, Logins, OneLogin, Removed
  <2>4. EditsInv'
    <3> SUFFICES ASSUME NEW x \in Admins, Writes(x) PROVE EditsInv!(x)'
      BY <2>1 DEF EditsInv, Writes
    <3>1. at[x].broker \in Brokers
      BY WriterType DEF BrokerRequest
    <3> QED BY <2>1, <2>2, <3>1 DEF BrokersInv, EditsInv
  <2>5. OneWriter'
    BY <2>1 DEF BrokersInv, OneWriter, Writes
  <2> QED BY <2>3, <2>4, <2>5 DEF BrokersInv
<1>10. ASSUME NEW b \in Brokers, DeleteBroker(b) PROVE BrokersInv' /\ Removed'
  <2> DEFINE u == broker[b].login
  <2>1. /\ broker[b] # None /\ ~ Locked(b) /\ at' = at
        /\ \A c \in Brokers : broker'[c] = IF c = b THEN None ELSE broker[c]
    BY <1>10 DEF DeleteBroker, TypeOK
  <2>2. u \in Users \cup {None}
    BY <1>0, <2>1
  <2>3. \A x \in Admins : at[x].kind = "edit" => at[x].broker # b
    BY <2>1 DEF Locked
  <2>4. EditsInv'
    <3> SUFFICES ASSUME NEW x \in Admins, Writes(x) PROVE EditsInv!(x)'
      BY <2>1 DEF EditsInv, Writes
    <3>1. at[x].broker \in Brokers
      BY WriterType DEF BrokerRequest
    <3> QED BY <2>1, <2>3, <3>1 DEF BrokersInv, EditsInv
  <2>5. OneWriter' /\ OneLogin'
    BY <2>1 DEF BrokersInv, OneWriter, OneLogin, Writes
  <2>6. Logins' /\ Removed'
    <3>1. CASE u = None
      BY <1>10, <2>1, <3>1 DEF DeleteBroker, BrokersInv, Logins, Removed
    <3>2. CASE u # None
      <4> DEFINE off == [user[u] EXCEPT !.on = FALSE]
      <4>0. user[u] \in User
        BY <2>1, <2>2, <3>2 DEF BrokersInv, Logins, TypeOK
      <4>1. off \in User /\ off.on = FALSE /\ off # None
        BY <4>0 DEF User
      <4>2. \A v \in Users : user'[v] = IF v = u THEN off ELSE user[v]
        BY <1>10, <2>2, <3>2 DEF DeleteBroker, TypeOK
      <4> HIDE DEF off
      <4>3. removed' = removed \cup {u} /\ again' = again \ {u}
        BY <1>10, <3>2 DEF DeleteBroker
      <4>4. \A c \in Brokers : c # b /\ broker[c] # None => broker[c].login # u
        BY <2>1, <3>2 DEF BrokersInv, OneLogin
      <4>5. Logins'
        BY <1>0, <2>1, <4>1, <4>2, <4>3, <4>4 DEF BrokersInv, Logins
      <4>6. Removed'
        BY <2>2, <3>2, <4>1, <4>2, <4>3 DEF Removed, TypeOK
      <4> QED BY <4>5, <4>6
    <3> QED BY <3>1, <3>2
  <2> QED BY <2>4, <2>5, <2>6 DEF BrokersInv
<1> QED
  BY <1>1, <1>2, <1>3, <1>4, <1>5, <1>6, <1>7, <1>8, <1>9, <1>10 DEF Next

-----------------------------------------------------------------------------
(***************************************************************************)
(* Agencies and their names.                                               *)
(***************************************************************************)

AgenciesInv ==
    \A b \in Brokers : broker[b] # None /\ broker[b].agency # None =>
        agency[broker[b].agency] # None

\* A request that leaves its broker in the agency has read the name that it has: the
\* broker's row is locked, so the agency cannot be renamed.
NamesRead ==
    \A a \in Admins :
        /\ at[a].kind = "edit" /\ at[a].agency # None
        /\ at[a].agency = broker[at[a].broker].agency
        => at[a].company = agency[at[a].agency]

NamesInv == AgenciesInv /\ NamesRead /\ NameFollowsAgency

\* Steps that are about neither.
LEMMA NotAboutAgencies ==
    ASSUME NamesInv, agency' = agency, joined' = joined,
           TypeOK, EditsInv,
           \A b \in Brokers :
               /\ broker'[b] # None => broker[b] # None
               /\ broker[b] # None /\ broker'[b] # None =>
                   /\ broker'[b].agency = broker[b].agency
                   /\ broker'[b].company = broker[b].company,
           \A x \in Admins : at'[x] = at[x] \/ at'[x].kind # "edit",
           \A x \in Admins : at'[x].kind = "edit" => broker'[at'[x].broker] # None
    PROVE  NamesInv'
<1>1. \A x \in Admins : at'[x].kind = "edit" => at'[x] = at[x] /\ at[x].broker \in Brokers
  BY WriterType DEF Writes, BrokerRequest
<1>2. NamesRead'
  BY <1>1 DEF NamesInv, NamesRead, EditsInv
<1>3. AgenciesInv' /\ NameFollowsAgency'
  BY DEF NamesInv, AgenciesInv, NameFollowsAgency
<1> QED BY <1>2, <1>3 DEF NamesInv

LEMMA NamesStep ==
    ASSUME TypeOK, BrokersInv, BrokersInv', NamesInv, Next
    PROVE  NamesInv'
<1> USE NoneIsNothing
<1>0. /\ EditsInv /\ EditsInv'
      /\ \A b \in Brokers : broker[b] # None => broker[b].agency \in Agencies \cup {None}
  BY LoginsAreUsers DEF BrokersInv
<1>1. ASSUME agency' = agency, joined' = joined, broker' = broker,
             \A x \in Admins : at'[x] = at[x] \/ at'[x].kind # "edit"
      PROVE  NamesInv'
  BY <1>0, <1>1, NotAboutAgencies DEF EditsInv
<1>2. ASSUME NEW a \in Admins,
             \/ Leave(a)
             \/ \E u \in Users : ReadUser(a, u)
             \/ \E t \in Teams \cup {None} : OpenTeam(a, t)
             \/ \E heads, members \in SUBSET Users : PostTeam(a, heads, members)
             \/ (\E t \in Teams : ReadTeam(a, t)) \/ ActivateTeam(a)
             \/ \E b \in Brokers, g \in Agencies \cup {None} : StartBroker(a, b, g)
             \/ \E row \in User : SaveUser(a, row)
      PROVE  NamesInv'
  BY <1>1, <1>2
  DEF Leave, ReadUser, OpenTeam, PostTeam, ReadTeam, ActivateTeam, StartBroker, SaveUser,
      TypeOK, Idle
<1>3. ASSUME NEW a \in Admins,
             UpdateUser(a) \/ ChangePassword(a) \/ DeactivateUser(a) \/ ActivateUser(a)
      PROVE  NamesInv'
  <2>1. at[a] \in UserRequest
    BY <1>3, RequestKinds DEF UpdateUser, ChangePassword, DeactivateUser, ActivateUser, TypeOK
  <2>2. PICK row \in User : SaveUser(a, row)
    BY <1>3, <2>1
    DEF UpdateUser, ChangePassword, DeactivateUser, ActivateUser, User, SalesRoles, UserRequest
  <2> QED BY <1>2, <2>2
<1>4. ASSUME NEW a \in Admins, NEW t \in Teams, NEW h \in Users \cup {None},
             CreateTeam(a, t, h) \/ UpdateTeam(a, t, h)
      PROVE  NamesInv'
  <2>1. WriteTeam(a, t, h)
    BY <1>4 DEF CreateTeam, UpdateTeam
  <2>2. \A x \in Admins : at'[x] = at[x] \/ at'[x].kind # "edit"
    <3> TAKE x \in Admins
    <3>1. CASE x = a
      BY <2>1, <3>1 DEF WriteTeam, Idle
    <3>2. CASE x # a /\ at[x].kind \in {"page", "post", "row"} /\ at[x].team = t
      <4>2. [at[x] EXCEPT !.old = TRUE].kind = at[x].kind
        BY <3>2, OvertakenIs DEF TypeOK
      <4> QED BY <2>1, <3>2, <4>2 DEF WriteTeam
    <3>3. CASE x # a /\ ~(at[x].kind \in {"page", "post", "row"} /\ at[x].team = t)
      BY <2>1, <3>3 DEF WriteTeam
    <3> QED BY <3>1, <3>2, <3>3
  <2> QED BY <1>1, <2>1, <2>2 DEF WriteTeam
<1>5. ASSUME NEW a \in Admins, NEW b \in Brokers, NEW g \in Agencies \cup {None},
             EditBroker(a, b, g)
      PROVE  NamesInv'
  <2>1. agency' = agency /\ joined' = joined /\ broker' = broker
    BY <1>5 DEF EditBroker
  <2>2. AgenciesInv' /\ NameFollowsAgency'
    BY <2>1 DEF NamesInv, AgenciesInv, NameFollowsAgency
  <2>3. NamesRead'
    <3>1. at'[a].agency = g /\ at'[a].company = NameOf(g)
      BY <1>5 DEF EditBroker, TypeOK
    <3>2. \A x \in Admins : x # a => at'[x] = at[x]
      BY <1>5 DEF EditBroker, TypeOK
    <3> QED BY <2>1, <3>1, <3>2 DEF NamesInv, NamesRead, NameOf
  <2> QED BY <2>2, <2>3 DEF NamesInv
<1>6. ASSUME NEW a \in Admins, NEW login \in Users \cup {None},
             Writes(a), SaveRow(a, login), agency' = agency
      PROVE  NamesInv'
  <2> DEFINE p == at[a]
             row == [login |-> login, agency |-> p.agency, company |-> p.company]
             was == IF broker[p.broker] = None THEN None ELSE broker[p.broker].agency
  <2>1. p \in BrokerRequest
    BY <1>6, WriterType
  <2>2. /\ p.broker \in Brokers /\ p.agency \in Agencies \cup {None}
        /\ row \in Broker /\ row # None
        /\ row.agency = p.agency /\ row.company = p.company
    BY <2>1 DEF BrokerRequest, Broker
  <2>3. \A b \in Brokers : broker'[b] = IF b = p.broker THEN row ELSE broker[b]
    BY <1>6, <2>2 DEF SaveRow, TypeOK
  <2>4. \A x \in Admins : at'[x] = IF x = a THEN Idle ELSE at[x]
    BY <1>6 DEF SaveRow, TypeOK
  <2>5. p.agency \notin {None, was} => agency[p.agency] # None
    BY <1>6 DEF SaveRow
  <2>6. joined' = IF p.agency \notin {None, was} /\ p.company # agency[p.agency]
                  THEN joined \cup {p.broker} ELSE joined \ {p.broker}
    BY <1>6 DEF SaveRow
  <2>7. p.agency # None /\ p.agency = was =>
            p.company = agency[p.agency] /\ agency[p.agency] # None
    <3>1. at[a].kind = "new" => was = None
      BY <1>0 DEF EditsInv
    <3>2. at[a].kind = "edit" => broker[p.broker] # None /\ was = broker[p.broker].agency
      BY <1>0 DEF EditsInv
    <3>3. at[a].kind \in {"new", "edit"}
      BY <1>6 DEF Writes
    <3> HIDE DEF was
    <3> QED BY <2>2, <3>1, <3>2, <3>3 DEF NamesInv, NamesRead, AgenciesInv
  <2> HIDE DEF row, was
  <2>8. AgenciesInv'
    BY <1>6, <2>2, <2>3, <2>5, <2>7 DEF NamesInv, AgenciesInv
  <2>9. NameFollowsAgency'
    BY <1>6, <2>2, <2>3, <2>6, <2>7 DEF NamesInv, NameFollowsAgency
  <2>10. NamesRead'
    <3> SUFFICES ASSUME NEW x \in Admins, at'[x].kind = "edit" PROVE NamesRead!(x)'
      BY DEF NamesRead
    <3>1. x # a /\ at'[x] = at[x] /\ Writes(x)
      BY <2>4 DEF Idle, Writes
    <3>2. at[x].broker \in Brokers /\ at[x].broker # p.broker
      BY <1>6, <3>1, WriterType DEF BrokersInv, OneWriter, BrokerRequest
    <3> QED BY <1>6, <2>3, <3>1, <3>2 DEF NamesInv, NamesRead
  <2> QED BY <2>8, <2>9, <2>10 DEF NamesInv
<1>7. ASSUME NEW a \in Admins, (\E u \in Users : SaveNewLogin(a, u)) \/ SaveBroker(a)
      PROVE  NamesInv'
  <2>1. Writes(a) /\ agency' = agency
    BY <1>7 DEF SaveNewLogin, SaveBroker, Writes
  <2>2. at[a] \in BrokerRequest
    BY <2>1, WriterType
  <2>3. PICK login \in Users \cup {None} : SaveRow(a, login)
    BY <1>7, <2>2 DEF SaveNewLogin, SaveBroker, BrokerRequest
  <2> QED BY <1>6, <2>1, <2>3
<1>8. ASSUME NEW u \in Users, DestroyUser(u) PROVE NamesInv'
  <2>1. \A b \in Brokers :
           /\ broker'[b] # None => broker[b] # None
           /\ broker[b] # None /\ broker'[b] # None =>
               /\ broker'[b].agency = broker[b].agency
               /\ broker'[b].company = broker[b].company
    <3> TAKE b \in Brokers
    <3>1. CASE broker[b] # None /\ broker[b].login = u
      <4>1. broker[b] \in Broker
        BY <3>1 DEF TypeOK
      <4> QED BY <1>8, <3>1, <4>1 DEF DestroyUser, Broker
    <3>2. CASE ~(broker[b] # None /\ broker[b].login = u)
      BY <1>8, <3>2 DEF DestroyUser
    <3> QED BY <3>1, <3>2
  <2>2. agency' = agency /\ joined' = joined /\ at' = at
    BY <1>8 DEF DestroyUser
  <2> QED BY <1>0, <2>1, <2>2, NotAboutAgencies DEF EditsInv
<1>9. ASSUME NEW t \in Teams, DeleteTeam(t) PROVE NamesInv'
  BY <1>1, <1>9 DEF DeleteTeam
<1>10. ASSUME NEW g \in Agencies, NEW n \in Names, CreateAgency(g, n) PROVE NamesInv'
  <2>1. /\ broker' = broker /\ joined' = joined /\ at' = at
        /\ agency[g] = None
        /\ \A k \in Agencies : agency'[k] = IF k = g THEN n ELSE agency[k]
    BY <1>10 DEF CreateAgency, TypeOK
  <2>2. AgenciesInv' /\ NameFollowsAgency'
    BY <1>0, <2>1 DEF NamesInv, AgenciesInv, NameFollowsAgency
  <2>3. NamesRead'
    <3> SUFFICES ASSUME NEW x \in Admins, at[x].kind = "edit" PROVE NamesRead!(x)'
      BY <2>1 DEF NamesRead
    <3>1. at[x].broker \in Brokers /\ broker[at[x].broker] # None
          /\ at[x].agency \in Agencies \cup {None}
      BY <1>0, WriterType DEF EditsInv, Writes, BrokerRequest
    <3> QED BY <2>1, <3>1 DEF NamesInv, NamesRead, AgenciesInv
  <2> QED BY <2>2, <2>3 DEF NamesInv
<1>11. ASSUME NEW g \in Agencies, NEW n \in Names, RenameAgency(g, n) PROVE NamesInv'
  <2>1. /\ joined' = joined \ In(g) /\ at' = at /\ agency[g] # None
        /\ \A k \in Agencies : agency'[k] = IF k = g THEN n ELSE agency[k]
        /\ \A b \in In(g) : ~ Locked(b)
    BY <1>11 DEF RenameAgency, TypeOK
  <2>2. \A b \in Brokers : b \notin In(g) => broker'[b] = broker[b]
    BY <1>11 DEF RenameAgency, TellBrokers
  <2>3. \A b \in In(g) : /\ broker[b] # None /\ broker[b].agency = g
                         /\ broker'[b].agency = g /\ broker'[b].company = n
    <3> TAKE b \in In(g)
    <3>1. broker[b] \in Broker /\ broker[b] # None /\ broker[b].agency = g /\ b \in Brokers
      BY DEF In, TypeOK
    <3>2. broker'[b] = [broker[b] EXCEPT !.company = n]
      BY <1>11, <3>1 DEF RenameAgency, TellBrokers
    <3> QED BY <3>1, <3>2 DEF Broker
  <2>4. \A b \in Brokers : b \notin In(g) /\ broker[b] # None => broker[b].agency # g
    BY DEF In
  <2>5. AgenciesInv'
    BY <1>0, <2>1, <2>2, <2>3, <2>4 DEF NamesInv, AgenciesInv
  <2>6. NameFollowsAgency'
    BY <1>0, <2>1, <2>2, <2>3, <2>4 DEF NamesInv, NameFollowsAgency
  <2>7. NamesRead'
    <3> SUFFICES ASSUME NEW x \in Admins, at[x].kind = "edit" PROVE NamesRead!(x)'
      BY <2>1 DEF NamesRead
    <3>1. /\ at[x].broker \in Brokers /\ broker[at[x].broker] # None
          /\ at[x].agency \in Agencies \cup {None}
      BY <1>0, WriterType DEF EditsInv, Writes, BrokerRequest
    <3>2. at[x].broker \notin In(g)
      BY <2>1 DEF Locked
    <3> QED BY <2>1, <2>2, <2>4, <3>1, <3>2 DEF NamesInv, NamesRead
  <2> QED BY <2>5, <2>6, <2>7 DEF NamesInv
<1>12. ASSUME NEW g \in Agencies, DeleteAgency(g) PROVE NamesInv'
  <2>1. /\ joined' = joined \ In(g) /\ at' = at
        /\ \A k \in Agencies : agency'[k] = IF k = g THEN None ELSE agency[k]
        /\ \A b \in In(g) : ~ Locked(b)
    BY <1>12 DEF DeleteAgency, TypeOK
  <2>2. \A b \in Brokers : b \notin In(g) => broker'[b] = broker[b]
    BY <1>12 DEF DeleteAgency
  <2>3. \A b \in In(g) : broker'[b].agency = None
    <3> TAKE b \in In(g)
    <3>1. broker[b] \in Broker /\ b \in Brokers
      BY DEF In, TypeOK
    <3>2. broker'[b] = [broker[b] EXCEPT !.agency = None]
      BY <1>12, <3>1 DEF DeleteAgency
    <3> QED BY <3>1, <3>2 DEF Broker
  <2>4. \A b \in Brokers : b \notin In(g) /\ broker[b] # None => broker[b].agency # g
    BY DEF In
  <2>5. AgenciesInv' /\ NameFollowsAgency'
    BY <1>0, <2>1, <2>2, <2>3, <2>4 DEF NamesInv, AgenciesInv, NameFollowsAgency
  <2>6. NamesRead'
    <3> SUFFICES ASSUME NEW x \in Admins, at[x].kind = "edit" PROVE NamesRead!(x)'
      BY <2>1 DEF NamesRead
    <3>1. /\ at[x].broker \in Brokers /\ broker[at[x].broker] # None
          /\ at[x].agency \in Agencies \cup {None}
      BY <1>0, WriterType DEF EditsInv, Writes, BrokerRequest
    <3>2. at[x].broker \notin In(g)
      BY <2>1 DEF Locked
    <3> QED BY <2>1, <2>2, <2>4, <3>1, <3>2 DEF NamesInv, NamesRead
  <2> QED BY <2>5, <2>6 DEF NamesInv
<1>13. ASSUME NEW b \in Brokers, DeleteBroker(b) PROVE NamesInv'
  <2>1. /\ agency' = agency /\ at' = at /\ joined' = joined \ {b}
        /\ \A c \in Brokers : broker'[c] = IF c = b THEN None ELSE broker[c]
    BY <1>13 DEF DeleteBroker, TypeOK
  <2>2. AgenciesInv' /\ NameFollowsAgency'
    BY <2>1 DEF NamesInv, AgenciesInv, NameFollowsAgency
  <2>3. NamesRead'
    <3> SUFFICES ASSUME NEW x \in Admins, at[x].kind = "edit" PROVE NamesRead!(x)'
      BY <2>1 DEF NamesRead
    <3>1. at[x].broker \in Brokers /\ broker'[at[x].broker] # None
      BY <1>0, <2>1, WriterType DEF EditsInv, Writes, BrokerRequest
    <3> QED BY <2>1, <3>1 DEF NamesInv, NamesRead
  <2> QED BY <2>2, <2>3 DEF NamesInv
<1> QED
  BY <1>2, <1>3, <1>4, <1>5, <1>7, <1>8, <1>9, <1>10, <1>11, <1>12, <1>13 DEF Next

-----------------------------------------------------------------------------
(***************************************************************************)
(* Teams and their heads.                                                  *)
(***************************************************************************)

\* A page that no save has overtaken posts as a member every member whom it may also
\* post as a head.
PagesInv ==
    \A a \in Admins :
        /\ at[a].kind = "page" /\ ~ at[a].old =>
               /\ at[a].heads \cap Rows(at[a].team).members \subseteq at[a].keepMembers
               /\ at[a].keepHeads \cap Rows(at[a].team).members = {}
        /\ at[a].kind = "post" /\ ~ at[a].old =>
               at[a].heads \cap Rows(at[a].team).members \subseteq at[a].members

\* A request to activate a team that no save has overtaken has read a head who is on it.
HeadsRead ==
    \A a \in Admins, t \in Teams, h \in Users :
        /\ at[a].kind = "row" /\ ~ at[a].old
        /\ at[a].team = t /\ at[a].head = h /\ team[t] # None
        => OnTeam(h, t) \/ t \in crossed

TeamsInv == PagesInv /\ HeadsRead /\ HeadIsOnTeam

LEMMA NotAboutTeams ==
    ASSUME TeamsInv, team' = team, crossed' = crossed,
           \A x \in Admins : at'[x] = at[x] \/ at'[x].kind \notin {"page", "post", "row"}
    PROVE  TeamsInv'
BY DEF TeamsInv, PagesInv, HeadsRead, HeadIsOnTeam, Rows, OnTeam

LEMMA TeamsStep ==
    ASSUME TypeOK, TeamsInv, Next
    PROVE  TeamsInv'
<1> USE NoneIsNothing
<1>1. ASSUME NEW a \in Admins,
             \/ Leave(a)
             \/ \E u \in Users : ReadUser(a, u)
             \/ \E row \in User : SaveUser(a, row)
             \/ \E b \in Brokers, g \in Agencies \cup {None} : StartBroker(a, b, g)
             \/ \E b \in Brokers, g \in Agencies \cup {None} : EditBroker(a, b, g)
             \/ \E u \in Users : SaveNewLogin(a, u)
             \/ SaveBroker(a)
      PROVE  TeamsInv'
  <2>1. team' = team /\ crossed' = crossed
    BY <1>1 DEF Leave, ReadUser, SaveUser, StartBroker, EditBroker, SaveNewLogin, SaveBroker
  <2>2. \A x \in Admins : at'[x] = at[x] \/ at'[x].kind \notin {"page", "post", "row"}
    <3>1. CASE \/ Leave(a)
               \/ \E row \in User : SaveUser(a, row)
               \/ \E u \in Users : SaveNewLogin(a, u)
               \/ SaveBroker(a)
      <4>1. at' = [at EXCEPT ![a] = Idle]
        BY <3>1 DEF Leave, SaveUser, SaveNewLogin, SaveBroker, SaveRow
      <4> QED BY <4>1 DEF TypeOK, Idle
    <3>2. CASE \E u \in Users : ReadUser(a, u)
      <4>1. at'[a].kind = "user" /\ \A x \in Admins : x # a => at'[x] = at[x]
        BY <3>2 DEF ReadUser, TypeOK
      <4> QED BY <4>1
    <3>4. CASE \E b \in Brokers, g \in Agencies \cup {None} : StartBroker(a, b, g)
      <4>1. PICK b \in Brokers, g \in Agencies \cup {None} : StartBroker(a, b, g)
        BY <3>4
      <4>2. at'[a].kind = "new" /\ \A x \in Admins : x # a => at'[x] = at[x]
        BY <4>1 DEF StartBroker, TypeOK
      <4> QED BY <4>2
    <3>5. CASE \E b \in Brokers, g \in Agencies \cup {None} : EditBroker(a, b, g)
      <4>1. PICK b \in Brokers, g \in Agencies \cup {None} : EditBroker(a, b, g)
        BY <3>5
      <4>2. at'[a].kind = "edit" /\ \A x \in Admins : x # a => at'[x] = at[x]
        BY <4>1 DEF EditBroker, TypeOK
      <4> QED BY <4>2
    <3> QED BY <1>1, <3>1, <3>2, <3>4, <3>5
  <2> QED BY <2>1, <2>2, NotAboutTeams
<1>2. ASSUME NEW a \in Admins,
             UpdateUser(a) \/ ChangePassword(a) \/ DeactivateUser(a) \/ ActivateUser(a)
      PROVE  TeamsInv'
  <2>1. at[a] \in UserRequest
    BY <1>2, RequestKinds DEF UpdateUser, ChangePassword, DeactivateUser, ActivateUser, TypeOK
  <2>2. PICK row \in User : SaveUser(a, row)
    BY <1>2, <2>1
    DEF UpdateUser, ChangePassword, DeactivateUser, ActivateUser, User, SalesRoles, UserRequest
  <2> QED BY <1>1, <2>2
<1>3. ASSUME NEW a \in Admins, NEW t \in Teams \cup {None}, OpenTeam(a, t)
      PROVE  TeamsInv'
  <2>1. Available("SALES_HEAD", t) \cap Available("SALES", t) = {}
    BY DEF Available
  <2>2. /\ at'[a].heads = Available("SALES_HEAD", t) /\ at'[a].team = t
        /\ at'[a].keepHeads = Rows(t).heads \ Available("SALES_HEAD", t)
        /\ at'[a].keepMembers = Rows(t).members \ Available("SALES", t)
        /\ at'[a].kind = "page"
    BY <1>3 DEF OpenTeam, Unseen, TypeOK
  <2>3. /\ \A x \in Admins : x # a => at'[x] = at[x]
        /\ team' = team /\ crossed' = crossed
    BY <1>3 DEF OpenTeam, TypeOK
  <2>4. Rows(t).heads \cap Rows(t).members = {}
    BY RowsOfTeams
  <2>5. PagesInv'
    BY <2>1, <2>2, <2>3, <2>4 DEF TeamsInv, PagesInv, Rows
  <2>6. HeadIsOnTeam'
    BY <2>3 DEF TeamsInv, HeadIsOnTeam, OnTeam, Rows
  <2>7. HeadsRead'
    BY <2>2, <2>3 DEF TeamsInv, HeadsRead, OnTeam, Rows
  <2> QED BY <2>5, <2>6, <2>7 DEF TeamsInv
<1>4. ASSUME NEW a \in Admins, NEW heads \in SUBSET Users, NEW members \in SUBSET Users,
             PostTeam(a, heads, members)
      PROVE  TeamsInv'
  <2>1. /\ at[a].kind = "page" /\ heads \subseteq at[a].heads
        /\ at'[a].kind = "post" /\ at'[a].team = at[a].team /\ at'[a].old = at[a].old
        /\ at'[a].heads = heads \cup at[a].keepHeads
        /\ at'[a].members = members \cup at[a].keepMembers
    BY <1>4 DEF PostTeam, TypeOK
  <2>2. /\ \A x \in Admins : x # a => at'[x] = at[x]
        /\ team' = team /\ crossed' = crossed
    BY <1>4 DEF PostTeam, TypeOK
  <2>3. PagesInv'
    BY <2>1, <2>2 DEF TeamsInv, PagesInv, Rows
  <2>4. HeadIsOnTeam'
    BY <2>2 DEF TeamsInv, HeadIsOnTeam, OnTeam, Rows
  <2>5. HeadsRead'
    BY <2>1, <2>2 DEF TeamsInv, HeadsRead, OnTeam, Rows
  <2> QED BY <2>3, <2>4, <2>5 DEF TeamsInv
<1>5. ASSUME NEW a \in Admins, NEW t \in Teams, NEW h \in Users \cup {None},
             CreateTeam(a, t, h) \/ UpdateTeam(a, t, h)
      PROVE  TeamsInv'
  <2> DEFINE p == at[a]
             rows == Synced(Rows(t), p.heads, p.members)
             new == [head |-> h, heads |-> rows.heads, members |-> rows.members]
  <2>1. WriteTeam(a, t, h) /\ p \in PostRequest /\ p.kind = "post"
    BY <1>5, RequestKinds DEF CreateTeam, UpdateTeam, TypeOK
  <2>2. new \in Team /\ new # None
    <3>1. rows.heads \subseteq Users /\ rows.members \subseteq Users
      BY <2>1, RowsOfTeams DEF Synced, PostRequest
    <3> HIDE DEF rows
    <3> QED BY <3>1 DEF Team
  <2>3. \A s \in Teams : team'[s] = IF s = t THEN new ELSE team[s]
    BY <2>1 DEF WriteTeam, TypeOK
  <2>4. h # None => h \in p.heads
    BY <2>1 DEF WriteTeam, Leads
  <2>5. ~ p.old => p.heads \cap Rows(t).members \subseteq p.members
    <3>1. CASE p.team = t
      BY <2>1, <3>1 DEF TeamsInv, PagesInv
    <3>2. CASE p.team # t
      BY <1>5, <3>2 DEF CreateTeam, UpdateTeam, Rows
    <3> QED BY <3>1, <3>2
  <2>6. h # None /\ ~ p.old => h \in rows.heads \cup rows.members
    BY <2>4, <2>5 DEF Synced
  <2>7. crossed' = IF p.old THEN crossed \cup {t} ELSE crossed \ {t}
    BY <2>1 DEF WriteTeam
  <2>8. p.old \in BOOLEAN
    BY <2>1 DEF PostRequest
  <2>9. new.head = h /\ new.heads = rows.heads /\ new.members = rows.members
    OBVIOUS
  <2> HIDE DEF rows, new
  <2>10. HeadIsOnTeam'
    <3> SUFFICES ASSUME NEW s \in Teams, team'[s] # None, team'[s].head # None
                 PROVE  team'[s].head \in team'[s].heads \cup team'[s].members \/ s \in crossed'
      BY DEF HeadIsOnTeam, OnTeam, Rows
    <3>1. CASE s = t
      BY <2>3, <2>6, <2>7, <2>8, <2>9, <3>1
    <3>2. CASE s # t
      BY <2>3, <2>7, <3>2 DEF TeamsInv, HeadIsOnTeam, OnTeam, Rows
    <3> QED BY <3>1, <3>2
  <2>11. \A x \in Admins :
            \/ at'[x] = at[x] /\ at[x].kind \in {"page", "post", "row"} /\ at[x].team # t
            \/ at'[x].kind \in {"page", "post", "row"} /\ at'[x].old
            \/ at'[x].kind \notin {"page", "post", "row"}
    <3> TAKE x \in Admins
    <3>1. CASE x = a
      BY <2>1, <3>1 DEF WriteTeam, Idle
    <3>2. CASE x # a /\ at[x].kind \in {"page", "post", "row"} /\ at[x].team = t
      <4>2. /\ [at[x] EXCEPT !.old = TRUE].kind = at[x].kind
            /\ [at[x] EXCEPT !.old = TRUE].old = TRUE
        BY <3>2, OvertakenIs DEF TypeOK
      <4> QED BY <2>1, <3>2, <4>2 DEF WriteTeam
    <3>3. CASE x # a /\ ~(at[x].kind \in {"page", "post", "row"} /\ at[x].team = t)
      BY <2>1, <3>3 DEF WriteTeam
    <3> QED BY <3>1, <3>2, <3>3
  <2>12. \A x \in Admins : at[x].kind \in {"page", "post"} => at[x].team \in Teams \cup {None}
    BY RequestKinds DEF TypeOK, PageRequest, PostRequest
  <2>13. \A s \in Teams \cup {None} : s # t => Rows(s)' = Rows(s)
    BY <2>3 DEF Rows
  <2>14. PagesInv'
    BY <2>11, <2>12, <2>13 DEF TeamsInv, PagesInv
  <2>15. HeadsRead'
    <3> SUFFICES ASSUME NEW x \in Admins, NEW s \in Teams, NEW k \in Users,
                        at'[x].kind = "row", ~ at'[x].old, at'[x].team = s, at'[x].head = k,
                        team'[s] # None
                 PROVE  OnTeam(k, s)' \/ s \in crossed'
      BY DEF HeadsRead
    <3>1. at'[x] = at[x] /\ s # t
      BY <2>11
    <3>2. Rows(s)' = Rows(s) /\ team'[s] = team[s]
      BY <2>3, <3>1 DEF Rows
    <3>3. OnTeam(k, s) \/ s \in crossed
      BY <3>1, <3>2 DEF TeamsInv, HeadsRead
    <3> QED BY <2>7, <3>1, <3>2, <3>3 DEF OnTeam
  <2> QED BY <2>10, <2>14, <2>15 DEF TeamsInv
<1>6. ASSUME NEW u \in Users, DestroyUser(u) PROVE TeamsInv'
  <2>1. /\ at' = at /\ crossed' = crossed
        /\ \A t \in Teams : team'[t] = IF team[t] = None THEN None ELSE
               [head |-> IF team[t].head = u THEN None ELSE team[t].head,
                heads |-> team[t].heads \ {u},
                members |-> team[t].members \ {u}]
    BY <1>6 DEF DestroyUser
  <2>2. \A t \in Teams :
           /\ team'[t] # None => team[t] # None
           /\ team'[t] # None =>
                /\ team'[t].head = IF team[t].head = u THEN None ELSE team[t].head
                /\ team'[t].heads = team[t].heads \ {u}
                /\ team'[t].members = team[t].members \ {u}
    <3> TAKE t \in Teams
    <3>1. CASE team[t] = None
      BY <2>1, <3>1
    <3>2. CASE team[t] # None
      <4> DEFINE h == IF team[t].head = u THEN None ELSE team[t].head
      <4>1. team'[t] = [head |-> h, heads |-> team[t].heads \ {u},
                        members |-> team[t].members \ {u}]
        BY <2>1, <3>2
      <4> HIDE DEF h
      <4>2. team'[t].head = h /\ team'[t].heads = team[t].heads \ {u}
            /\ team'[t].members = team[t].members \ {u}
        BY <4>1
      <4> QED BY <3>2, <4>2 DEF h
    <3> QED BY <3>1, <3>2
  <2>3. HeadIsOnTeam'
    BY <2>1, <2>2 DEF TeamsInv, HeadIsOnTeam, OnTeam, Rows
  <2>4. \A t \in Teams \cup {None} : Rows(t)'.members \subseteq Rows(t).members
    BY <2>2 DEF Rows
  <2>5. \A x \in Admins : at[x].kind \in {"page", "post"} => at[x].team \in Teams \cup {None}
    BY RequestKinds DEF TypeOK, PageRequest, PostRequest
  <2>6. PagesInv'
    <3> SUFFICES ASSUME NEW x \in Admins, at[x].kind \in {"page", "post"} PROVE PagesInv!(x)'
      BY <2>1 DEF PagesInv
    <3>1. Rows(at[x].team)'.members \subseteq Rows(at[x].team).members
      BY <2>1, <2>4, <2>5
    <3> QED BY <2>1, <3>1 DEF TeamsInv, PagesInv
  <2>7. HeadsRead'
    <3> SUFFICES ASSUME NEW x \in Admins, NEW s \in Teams, NEW k \in Users,
                        at[x].kind = "row", ~ at[x].old, at[x].team = s, at[x].head = k,
                        team'[s] # None
                 PROVE  OnTeam(k, s)' \/ s \in crossed
      BY <2>1 DEF HeadsRead
    <3>1. k # u
      BY <1>6 DEF DestroyUser, Holds
    <3>2. OnTeam(k, s) \/ s \in crossed
      BY <2>2 DEF TeamsInv, HeadsRead
    <3> QED BY <2>2, <3>1, <3>2 DEF OnTeam, Rows
  <2> QED BY <2>3, <2>6, <2>7 DEF TeamsInv
<1>7. ASSUME NEW t \in Teams, DeleteTeam(t) PROVE TeamsInv'
  <2>1. /\ at' = at /\ crossed' = crossed \ {t}
        /\ \A s \in Teams : team'[s] = IF s = t THEN None ELSE team[s]
    BY <1>7 DEF DeleteTeam, TypeOK
  <2>2. HeadIsOnTeam'
    BY <2>1 DEF TeamsInv, HeadIsOnTeam, OnTeam, Rows
  <2>3. \A s \in Teams \cup {None} : Rows(s)'.members \subseteq Rows(s).members
    BY <2>1 DEF Rows
  <2>4. \A x \in Admins : at[x].kind \in {"page", "post"} => at[x].team \in Teams \cup {None}
    BY RequestKinds DEF TypeOK, PageRequest, PostRequest
  <2>5. PagesInv'
    <3> SUFFICES ASSUME NEW x \in Admins, at[x].kind \in {"page", "post"} PROVE PagesInv!(x)'
      BY <2>1 DEF PagesInv
    <3>1. Rows(at[x].team)'.members \subseteq Rows(at[x].team).members
      BY <2>1, <2>3, <2>4
    <3> QED BY <2>1, <3>1 DEF TeamsInv, PagesInv
  <2>6. HeadsRead'
    <3> SUFFICES ASSUME NEW x \in Admins, NEW s \in Teams, NEW k \in Users,
                        at[x].kind = "row", ~ at[x].old, at[x].team = s, at[x].head = k,
                        team'[s] # None
                 PROVE  OnTeam(k, s)' \/ s \in crossed'
      BY <2>1 DEF HeadsRead
    <3>1. s # t /\ (OnTeam(k, s) \/ s \in crossed)
      BY <2>1 DEF TeamsInv, HeadsRead
    <3> QED BY <2>1, <3>1 DEF OnTeam, Rows
  <2> QED BY <2>2, <2>5, <2>6 DEF TeamsInv
<1>8. ASSUME \/ \E g \in Agencies, n \in Names : CreateAgency(g, n) \/ RenameAgency(g, n)
             \/ \E g \in Agencies : DeleteAgency(g)
             \/ \E b \in Brokers : DeleteBroker(b)
      PROVE  TeamsInv'
  BY <1>8, NotAboutTeams DEF CreateAgency, RenameAgency, DeleteAgency, DeleteBroker
<1>9. ASSUME NEW a \in Admins, NEW t \in Teams, ReadTeam(a, t) PROVE TeamsInv'
  <2>1. /\ at'[a].kind = "row" /\ at'[a].team = t /\ at'[a].head = team[t].head
        /\ \A x \in Admins : x # a => at'[x] = at[x]
        /\ team' = team /\ crossed' = crossed
    BY <1>9 DEF ReadTeam, TypeOK
  <2>2. PagesInv'
    BY <2>1 DEF TeamsInv, PagesInv, Rows
  <2>3. HeadIsOnTeam'
    BY <2>1 DEF TeamsInv, HeadIsOnTeam, OnTeam, Rows
  <2>4. HeadsRead'
    BY <2>1 DEF TeamsInv, HeadsRead, HeadIsOnTeam, OnTeam, Rows
  <2> QED BY <2>2, <2>3, <2>4 DEF TeamsInv
<1>10. ASSUME NEW a \in Admins, ActivateTeam(a) PROVE TeamsInv'
  <2> PICK t \in Teams, h \in Users \cup {None} : at[a].team = t /\ at[a].head = h
    BY <1>10, RequestKinds DEF ActivateTeam, TypeOK, RowRequest
  <2> DEFINE new == [head |-> h, heads |-> Rows(t).heads, members |-> Rows(t).members]
  <2>1. new \in Team /\ new # None
    BY RowsOfTeams DEF Team
  <2>2. \A s \in Teams : team'[s] = IF s = t THEN new ELSE team[s]
    BY <1>10 DEF ActivateTeam, TypeOK
  <2>3. new.head = h /\ new.heads = Rows(t).heads /\ new.members = Rows(t).members
    OBVIOUS
  <2> HIDE DEF new
  <2>4. \A s \in Teams \cup {None} : /\ Rows(s)'.heads = Rows(s).heads
                                   /\ Rows(s)'.members = Rows(s).members
    BY <2>1, <2>2, <2>3 DEF Rows
  <2>5. \A s \in Teams : \A u : OnTeam(u, s)' <=> OnTeam(u, s)
    BY <2>4 DEF OnTeam
  <2>6. /\ crossed \subseteq crossed'
        /\ at[a].old \/ team[t] = None => t \in crossed'
        /\ \A x \in Admins : at'[x] = IF x = a THEN Idle ELSE at[x]
    BY <1>10 DEF ActivateTeam, TypeOK
  <2>7. \A x \in Admins : /\ at[x].kind \in {"page", "post"} => at[x].team \in Teams \cup {None}
                          /\ at[x].kind = "row" => at[x].team \in Teams
    BY RequestKinds DEF TypeOK, PageRequest, PostRequest, RowRequest
  <2>8. PagesInv'
    BY <2>4, <2>6, <2>7 DEF TeamsInv, PagesInv, Idle
  <2>9. HeadIsOnTeam'
    <3> SUFFICES ASSUME NEW s \in Teams, team'[s] # None, team'[s].head # None
                 PROVE  OnTeam(team'[s].head, s) \/ s \in crossed'
      BY <2>5 DEF HeadIsOnTeam
    <3>1. CASE s = t
      BY <1>10, <2>2, <2>3, <2>6, <3>1 DEF TeamsInv, HeadsRead, ActivateTeam
    <3>2. CASE s # t
      BY <2>2, <2>6, <3>2 DEF TeamsInv, HeadIsOnTeam
    <3> QED BY <3>1, <3>2
  <2>10. HeadsRead'
    <3> SUFFICES ASSUME NEW x \in Admins, NEW s \in Teams, NEW k \in Users,
                        x # a, at[x].kind = "row", ~ at[x].old, at[x].team = s,
                        at[x].head = k, team'[s] # None
                 PROVE  OnTeam(k, s) \/ s \in crossed'
      BY <2>5, <2>6 DEF HeadsRead, Idle
    <3>1. CASE s = t /\ team[t] = None
      BY <2>6, <3>1
    <3>2. CASE ~(s = t /\ team[t] = None)
      BY <2>2, <2>6, <3>2 DEF TeamsInv, HeadsRead
    <3> QED BY <3>1, <3>2
  <2> QED BY <2>8, <2>9, <2>10 DEF TeamsInv
<1> QED
  BY <1>1, <1>2, <1>3, <1>4, <1>5, <1>6, <1>7, <1>8, <1>9, <1>10 DEF Next

-----------------------------------------------------------------------------
\* The inductive invariant.
Inv == TypeOK /\ BrokersInv /\ Removed /\ NamesInv /\ TeamsInv

LEMMA InitInv == ASSUME Init PROVE Inv
<1>1. TypeOK
  BY TypeInit
<1>2. BrokersInv /\ Removed /\ NamesInv /\ TeamsInv
  BY DEF Init, Idle, BrokersInv, Logins, OneLogin, EditsInv, OneWriter, Writes, Removed,
         NamesInv, AgenciesInv, NamesRead, NameFollowsAgency, TeamsInv, PagesInv, HeadsRead, HeadIsOnTeam
<1> QED BY <1>1, <1>2 DEF Inv

LEMMA StepInv == ASSUME Inv, [Next]_vars PROVE Inv'
<1>1. CASE Next
  BY <1>1, TypeStep, BrokersStep, NamesStep, TeamsStep DEF Inv, BrokersInv
<1>2. CASE UNCHANGED vars
  BY <1>2
  DEF vars, Inv, TypeOK, BrokersInv, Logins, OneLogin, EditsInv, OneWriter, Writes, Removed,
      NamesInv, AgenciesInv, NamesRead, NameFollowsAgency, TeamsInv, PagesInv, HeadsRead, HeadIsOnTeam,
      Rows, OnTeam
<1> QED BY <1>1, <1>2

\* The inductive invariant holds in every state.
THEOREM AccountsInv == Spec => []Inv
<1>1. Init => Inv
  BY InitInv
<1>2. Inv /\ [Next]_vars => Inv'
  BY StepInv
<1> QED BY <1>1, <1>2, PTL DEF Spec

\* The types of every row and of every open page and request (accounts/models.py).
THEOREM TypeCorrect == Spec => []TypeOK
BY AccountsInv, PTL DEF Inv

\* Who leads a team has a row on it, unless its last save came from a page that another
\* save had overtaken (TeamService.update_team), or it was activated by a request that
\* one had overtaken (TeamService.activate_team).
THEOREM HeadsAreOnTeams == Spec => []HeadIsOnTeam
BY AccountsInv, PTL DEF Inv, TeamsInv

\* A broker carries his agency's name, unless he joined it while it was renamed
\* (AgencyService.update_agency, BrokerService.update_broker).
THEOREM NamesFollow == Spec => []NameFollowsAgency
BY AccountsInv, PTL DEF Inv, NamesInv

\* A broker that was deleted cannot sign in, unless the pages of users turned his login on
\* again (BrokerService.delete_broker).
THEOREM RemovedAreOut == Spec => []RemovedBrokerIsOut
<1>1. Inv => RemovedBrokerIsOut
  BY DEF Inv, Removed, RemovedBrokerIsOut
<1> QED BY <1>1, AccountsInv, PTL


-----------------------------------------------------------------------------
(***************************************************************************)
(* The cached permissions of users, and what was ticked for them, for      *)
(* every set of users, roles, permissions, requests and readers.           *)
(*                                                                         *)
(* That a cached set is current rests on what the readers carry (Fresh)    *)
(* and on nothing but early sets being cached while a change is under way  *)
(* (RolesHeld, UsersHeld).  That ticks are obeyed rests on what a change   *)
(* that nothing overtook is to write (AloneInv), on what a matrix saved    *)
(* row by row has written so far (MatrixInv), and on a default role being  *)
(* held (DefaultsInv).                                                     *)
(***************************************************************************)

RoleChange == [kind : {"role"}, role : Roles, add : SUBSET Perms, remove : SUBSET Perms]
UserChange ==
    [kind : {"user"}, user : Staff, role : Roles \cup {NoRole},
     codes : (SUBSET Perms) \cup {Absent}, keep : BOOLEAN, alone : BOOLEAN,
     add : SUBSET (Perms \X Effects), remove : SUBSET (Perms \X Effects)]
MatrixChange ==
    [kind : {"matrix"}, user : Staff, codes : SUBSET Perms,
     add : SUBSET (Perms \X Effects), left : SUBSET Perms, alone : BOOLEAN]
Reading == [kind : {"read"}, user : Staff, codes : SUBSET Perms, early : BOOLEAN]

LEMMA ChangeKinds ==
    ASSUME NEW c \in Change
    PROVE  /\ c.kind = "role" => c \in RoleChange
           /\ c.kind = "user" => c \in UserChange
           /\ c.kind = "matrix" => c \in MatrixChange
           /\ c.kind \in {"none", "role", "user", "matrix"}
BY DEF Change, Ready, RoleChange, UserChange, MatrixChange

LEMMA ReadKinds ==
    ASSUME NEW d \in Read
    PROVE  d.kind = "read" => d \in Reading
BY DEF Read, Ready, Reading

LEMMA KindsAre ==
    /\ Ready \in Change /\ RoleChange \subseteq Change /\ UserChange \subseteq Change
    /\ MatrixChange \subseteq Change
    /\ Ready \in Read /\ Reading \subseteq Read
    /\ Ready.kind = "none"
BY DEF Change, Ready, RoleChange, UserChange, MatrixChange, Read, Reading

LEMMA ExceptionsAre ==
    ASSUME AccessTypeOK, NEW r \in Roles \cup {NoRole}, NEW codes \in SUBSET Perms
    PROVE  Exceptions(r, codes) \subseteq Perms \X Effects
<1>1. (IF r = NoRole THEN {} ELSE grants[r]) \subseteq Perms
  BY NoRoleIsNone DEF AccessTypeOK, Grants
<1> QED BY <1>1 DEF Exceptions, Effects

LEMMA EffectiveIs ==
    ASSUME AccessTypeOK, NEW u \in Staff
    PROVE  Effective(u) \in SUBSET Perms
BY DEF AccessTypeOK, Grants, Held, Effective, GrantedBy, With

\* What commits leaves another change what it is, but for its being alone.
LEMMA ToldIs ==
    ASSUME AccessTypeOK, NEW w \in Web, NEW next \in Change
    PROVE  /\ Told(w, next) \in [Web -> Change]
           /\ Told(w, next)[w] = next
           /\ \A v \in Web : v # w =>
                /\ Told(w, next)[v].kind = change[v].kind
                /\ change[v].kind \notin {"user", "matrix"} => Told(w, next)[v] = change[v]
                /\ change[v].kind \in {"user", "matrix"} =>
                     /\ Told(w, next)[v].user = change[v].user
                     /\ Told(w, next)[v].alone = FALSE
                /\ change[v].kind = "user" =>
                     /\ Told(w, next)[v].role = change[v].role
                     /\ Told(w, next)[v].codes = change[v].codes
                     /\ Told(w, next)[v].keep = change[v].keep
<1>1. \A v \in Web : change[v] \in Change
  BY DEF AccessTypeOK
<1>2. ASSUME NEW v \in Web, change[v].kind = "user"
      PROVE  /\ [change[v] EXCEPT !.alone = FALSE] \in UserChange
             /\ [change[v] EXCEPT !.alone = FALSE].kind = "user"
             /\ [change[v] EXCEPT !.alone = FALSE].user = change[v].user
             /\ [change[v] EXCEPT !.alone = FALSE].role = change[v].role
             /\ [change[v] EXCEPT !.alone = FALSE].codes = change[v].codes
             /\ [change[v] EXCEPT !.alone = FALSE].keep = change[v].keep
             /\ [change[v] EXCEPT !.alone = FALSE].alone = FALSE
  <2>1. change[v] \in UserChange
    BY <1>1, <1>2, ChangeKinds
  <2> QED BY <2>1 DEF UserChange
<1>3. ASSUME NEW v \in Web, change[v].kind = "matrix"
      PROVE  /\ [change[v] EXCEPT !.alone = FALSE] \in MatrixChange
             /\ [change[v] EXCEPT !.alone = FALSE].kind = "matrix"
             /\ [change[v] EXCEPT !.alone = FALSE].user = change[v].user
             /\ [change[v] EXCEPT !.alone = FALSE].alone = FALSE
  <2>1. change[v] \in MatrixChange
    BY <1>1, <1>3, ChangeKinds
  <2> QED BY <2>1 DEF MatrixChange
<1> QED BY <1>1, <1>2, <1>3, KindsAre DEF Told

LEMMA DoneIs ==
    ASSUME AccessTypeOK, NEW w \in Web
    PROVE  /\ Done(w) \in [Web -> Change]
           /\ Done(w)[w] = Ready
           /\ \A v \in Web : v # w =>
                /\ Done(w)[v].kind = change[v].kind
                /\ change[v].kind \notin {"user", "matrix"} => Done(w)[v] = change[v]
                /\ change[v].kind \in {"user", "matrix"} =>
                     /\ Done(w)[v].user = change[v].user
                     /\ Done(w)[v].alone = FALSE
                /\ change[v].kind = "user" =>
                     /\ Done(w)[v].role = change[v].role
                     /\ Done(w)[v].codes = change[v].codes
                     /\ Done(w)[v].keep = change[v].keep
BY ToldIs, KindsAre DEF Done

\* The same of one other change, whatever the next state of the one that commits is.
LEMMA ToldOther ==
    ASSUME AccessTypeOK, NEW w \in Web, NEW next, NEW v \in Web, v # w,
           NEW new, new = Told(w, next)
    PROVE  /\ new[v].kind = change[v].kind
           /\ change[v].kind \notin {"user", "matrix"} => new[v] = change[v]
           /\ change[v].kind \in {"user", "matrix"} => new[v].user = change[v].user
           /\ change[v].kind = "user" => /\ new[v].role = change[v].role
                                         /\ new[v].codes = change[v].codes
                                         /\ new[v].keep = change[v].keep
<1>1. change[v] \in Change
  BY DEF AccessTypeOK
<1>2. change[v].kind = "user" => change[v] \in UserChange
  BY <1>1, ChangeKinds
<1>3. change[v].kind = "matrix" => change[v] \in MatrixChange
  BY <1>1, ChangeKinds
<1>4. new[v] = IF change[v].kind \in {"user", "matrix"} THEN [change[v] EXCEPT !.alone = FALSE]
               ELSE change[v]
  BY DEF Told
<1> QED BY <1>2, <1>3, <1>4 DEF UserChange, MatrixChange

\* A row of the matrix: the next state of its change, and what stays.
Saves(w, p, u, next) ==
    /\ change[w] \in MatrixChange /\ u = change[w].user
    /\ next.user = u /\ next.kind = "matrix" /\ next.add = change[w].add
    /\ next.codes = change[w].codes /\ next.alone = change[w].alone
    /\ change' = Told(w, next)
    /\ reader' = Overtake({u})
    /\ cache' \in {cache, Drop({u})}
    /\ override' \in Overrides
    /\ \A v \in Staff \ {u} : override'[v] = override[v]
    /\ \A q \in Perms \ {p} :
         /\ override'[u] \cap ({q} \X Effects) = override[u] \cap ({q} \X Effects)
         /\ q \notin next.left => q \notin change[w].left
    /\ p \notin next.left =>
         override'[u] \cap ({p} \X Effects) = change[w].add \cap ({p} \X Effects)

LEMMA SaveIs ==
    ASSUME AccessTypeOK, NEW w \in Web, NEW p \in Perms, SaveException(w, p)
    PROVE  \E u \in Staff, next \in MatrixChange : Saves(w, p, u, next)
<1> DEFINE c == change[w]
           u == c.user
           wrong == (override[u] \cap ({p} \X Effects)) \ c.add
<1>1. change[w] \in MatrixChange
  BY ChangeKinds DEF SaveException, AccessTypeOK
<1>2. u \in Staff /\ c.add \in SUBSET (Perms \X Effects) /\ c.left \in SUBSET Perms
  BY <1>1 DEF MatrixChange
<1>3. reader' = Overtake({u}) /\ cache' \in {cache, Drop({u})}
  BY DEF SaveException
<1>4. override \in [Staff -> SUBSET (Perms \X Effects)]
  BY DEF AccessTypeOK, Overrides
<1>5. CASE /\ \E row \in wrong : override' = [override EXCEPT ![u] = @ \ {row}]
           /\ change' = Told(w, c)
  <2>1. PICK row \in override[u] \cap ({p} \X Effects) :
             override' = [override EXCEPT ![u] = @ \ {row}]
    BY <1>5
  <2>2. \A q \in Perms \ {p} : row \notin {q} \X Effects
    BY <2>1
  <2>3. override'[u] = override[u] \ {row} /\ \A v \in Staff \ {u} : override'[v] = override[v]
    BY <1>2, <1>4, <2>1
  <2>4. override' \in Overrides
    BY <1>2, <1>4, <2>1 DEF Overrides
  <2>5. p \in c.left
    BY DEF SaveException
  <2>6. \A q \in Perms \ {p} :
            override'[u] \cap ({q} \X Effects) = override[u] \cap ({q} \X Effects)
    BY <2>2, <2>3
  <2>7. c.kind = "matrix"
    BY DEF SaveException
  <2> HIDE DEF wrong
  <2> QED BY <1>1, <1>2, <1>3, <1>5, <2>3, <2>4, <2>5, <2>6, <2>7 DEF Saves
<1>6. CASE /\ wrong = {}
           /\ override' = [override EXCEPT ![u] = @ \cup (c.add \cap ({p} \X Effects))]
           /\ change' = Told(w, [c EXCEPT !.left = @ \ {p}])
  <2> DEFINE next == [c EXCEPT !.left = @ \ {p}]
  <2>1. /\ next \in MatrixChange /\ next.user = u /\ next.kind = "matrix"
        /\ next.add = c.add /\ next.codes = c.codes /\ next.alone = c.alone
        /\ next.left = c.left \ {p}
    BY <1>1 DEF MatrixChange
  <2>2. /\ override'[u] = override[u] \cup (c.add \cap ({p} \X Effects))
        /\ \A v \in Staff \ {u} : override'[v] = override[v]
    BY <1>2, <1>4, <1>6
  <2>3. override' \in Overrides
    BY <1>2, <1>4, <1>6 DEF Overrides
  <2>4. \A q \in Perms \ {p} :
            override'[u] \cap ({q} \X Effects) = override[u] \cap ({q} \X Effects)
    BY <2>2
  <2>5. override'[u] \cap ({p} \X Effects) = c.add \cap ({p} \X Effects)
    BY <1>6, <2>2
  <2>6. change' = Told(w, next)
    BY <1>6
  <2> HIDE DEF next, wrong
  <2> QED BY <1>1, <1>2, <1>3, <2>1, <2>2, <2>3, <2>4, <2>5, <2>6 DEF Saves
<1> QED BY <1>5, <1>6 DEF SaveException

LEMMA OvertakeIs ==
    ASSUME AccessTypeOK, NEW us \in SUBSET Staff
    PROVE  /\ Overtake(us) \in [Readers -> Read]
           /\ \A d \in Readers :
                /\ Overtake(us)[d].kind = reader[d].kind
                /\ reader[d].kind = "read" =>
                     /\ Overtake(us)[d].user = reader[d].user
                     /\ Overtake(us)[d].codes = reader[d].codes
                     /\ ~Overtake(us)[d].early => ~reader[d].early /\ reader[d].user \notin us
<1>1. ASSUME NEW d \in Readers, reader[d].kind = "read"
      PROVE  /\ [reader[d] EXCEPT !.early = TRUE] \in Reading
             /\ reader[d] \in Reading
             /\ [reader[d] EXCEPT !.early = TRUE].kind = "read"
             /\ [reader[d] EXCEPT !.early = TRUE].user = reader[d].user
             /\ [reader[d] EXCEPT !.early = TRUE].codes = reader[d].codes
             /\ [reader[d] EXCEPT !.early = TRUE].early = TRUE
  <2>1. reader[d] \in Reading
    BY <1>1, ReadKinds DEF AccessTypeOK
  <2> QED BY <2>1 DEF Reading
<1>2. \A d \in Readers : reader[d] \in Read
  BY DEF AccessTypeOK
<1> QED BY <1>1, <1>2, KindsAre DEF Overtake

-----------------------------------------------------------------------------
(***************************************************************************)
(* Types.                                                                  *)
(***************************************************************************)

LEMMA AccessTypeInit == ASSUME AccessInit PROVE AccessTypeOK
BY KindsAre DEF AccessInit, AccessTypeOK, Grants, Held, Overrides

LEMMA TypeBegin ==
    ASSUME AccessTypeOK, NEW w \in Web, NEW u \in Staff, NEW r \in Roles \cup {NoRole},
           NEW codes \in (SUBSET Perms) \cup {Absent}, NEW keep \in BOOLEAN,
           Begin(w, u, r, codes, keep)
    PROVE  change' \in [Web -> Change]
<1> DEFINE want == IF codes = Absent THEN {} ELSE Exceptions(r, codes)
           gone == IF codes = Absent THEN {} ELSE override[u] \ want
           c == [kind |-> "user", user |-> u, role |-> r, codes |-> codes, keep |-> keep,
                 add |-> want, remove |-> gone, alone |-> TRUE]
<1>1. want \subseteq Perms \X Effects
  BY ExceptionsAre
<1>2. gone \subseteq Perms \X Effects
  BY DEF AccessTypeOK, Overrides
<1>3. change' = [change EXCEPT ![w] = c]
  BY DEF Begin
<1> HIDE DEF want, gone
<1>4. c \in UserChange
  BY <1>1, <1>2 DEF UserChange
<1> HIDE DEF c
<1> QED BY <1>3, <1>4, KindsAre DEF AccessTypeOK

LEMMA DropIs ==
    ASSUME AccessTypeOK, NEW us
    PROVE  Drop(us) \in [Staff -> Entry \cup {Absent}]
BY DEF AccessTypeOK, Drop

LEMMA AccessTypeStep ==
    ASSUME AccessTypeOK, AccessNext
    PROVE  AccessTypeOK'
<1>1. ASSUME NEW w \in Web, NEW r \in Roles, NEW ps \in SUBSET Perms, EditRole(w, r, ps)
      PROVE  AccessTypeOK'
  <2>1. [kind |-> "role", role |-> r, add |-> ps, remove |-> grants[r]] \in RoleChange
    BY DEF AccessTypeOK, Grants, RoleChange
  <2> QED BY <1>1, <2>1, KindsAre, DropIs DEF EditRole, AccessTypeOK
<1>2. ASSUME NEW w \in Web, NEW u \in Staff, NEW r \in Roles \cup {NoRole},
             NEW cs \in (SUBSET Perms) \cup {Absent}, PutUser(w, u, r, cs)
      PROVE  AccessTypeOK'
  BY <1>2, TypeBegin, DropIs DEF PutUser, AccessTypeOK
<1>3. ASSUME NEW w \in Web, NEW u \in Staff, NEW r \in Roles, EditPage(w, u, r)
      PROVE  AccessTypeOK'
  BY <1>2, <1>3 DEF EditPage
<1>4. ASSUME NEW w \in Web, NEW u \in Staff, NEW cs \in SUBSET Perms, EditMatrix(w, u, cs)
      PROVE  AccessTypeOK'
  <2>1. default[u] \in Roles \cup {NoRole}
    BY DEF AccessTypeOK
  <2> DEFINE c == [kind |-> "matrix", user |-> u, codes |-> cs,
                   add |-> Exceptions(default[u], cs), left |-> Perms, alone |-> TRUE]
  <2>2. c \in MatrixChange
    BY <2>1, ExceptionsAre DEF MatrixChange
  <2>3. CASE db = "default"
    BY <1>4, <2>1, <2>3, TypeBegin, DropIs DEF EditMatrix, AccessTypeOK
  <2>4. CASE db # "default"
    <3>1. change' = [change EXCEPT ![w] = c]
      BY <1>4, <2>4 DEF EditMatrix
    <3> HIDE DEF c
    <3> QED BY <1>4, <2>2, <3>1, KindsAre, DropIs DEF EditMatrix, AccessTypeOK
  <2> QED BY <2>3, <2>4
<1>5. ASSUME NEW w \in Web, CommitRole(w)
      PROVE  AccessTypeOK'
  <2>1. change[w] \in RoleChange
    BY <1>5, ChangeKinds DEF CommitRole, AccessTypeOK
  <2>2. grants' \in Grants
    BY <1>5, <2>1 DEF CommitRole, AccessTypeOK, Grants, RoleChange
  <2>3. reader' \in [Readers -> Read]
    <3>1. HoldersOf(change[w].role) \subseteq Staff
      BY DEF HoldersOf
    <3>2. PICK us \in SUBSET Staff : reader' = Overtake(us)
      BY <1>5, <3>1 DEF CommitRole
    <3> QED BY <3>2, OvertakeIs
  <2> QED BY <1>5, <2>2, <2>3, DoneIs DEF CommitRole, AccessTypeOK
<1>6. ASSUME NEW w \in Web, CommitUser(w)
      PROVE  AccessTypeOK'
  <2>1. change[w] \in UserChange
    BY <1>6, ChangeKinds DEF CommitUser, AccessTypeOK
  <2>2. change[w].user \in Staff /\ change[w].role \in Roles \cup {NoRole}
    BY <2>1 DEF UserChange
  <2>3. reader' \in [Readers -> Read]
    BY <1>6, <2>2, OvertakeIs DEF CommitUser
  <2>4. holds' \in Held /\ default' \in [Staff -> Roles \cup {NoRole}]
    BY <1>6, <2>2 DEF CommitUser, AccessTypeOK, Held
  <2>5. override' \in Overrides
    BY <1>6, <2>1 DEF CommitUser, AccessTypeOK, Overrides, UserChange
  <2>6. cache' \in [Staff -> Entry \cup {Absent}]
    <3>1. CASE cache' = cache
      BY <3>1 DEF AccessTypeOK
    <3>2. CASE /\ cache[change[w].user] # Absent
               /\ cache' = [cache EXCEPT ![change[w].user].early = TRUE]
      <4>1. cache[change[w].user] \in Entry
        BY <3>2, <2>2 DEF AccessTypeOK
      <4>2. [cache[change[w].user] EXCEPT !.early = TRUE] \in Entry
        BY <4>1 DEF Entry
      <4> QED BY <3>2, <4>2, <2>2 DEF AccessTypeOK
    <3> QED BY <1>6, <3>1, <3>2 DEF CommitUser
  <2>7. asked' \in [Staff -> (SUBSET Perms) \cup {Absent}]
    BY <1>6, <2>1 DEF CommitUser, AccessTypeOK, UserChange
  <2> QED BY <1>6, <2>3, <2>4, <2>5, <2>6, <2>7, DoneIs DEF CommitUser, AccessTypeOK
<1>7. ASSUME NEW w \in Web, Rollback(w) PROVE AccessTypeOK'
  BY <1>7, KindsAre DEF Rollback, AccessTypeOK
<1>8. ASSUME NEW d \in Readers, Store(d) PROVE AccessTypeOK'
  <2>1. reader[d] \in Reading
    BY <1>8, ReadKinds DEF Store, AccessTypeOK
  <2> DEFINE e == [codes |-> reader[d].codes,
                   early |-> reader[d].early \/ \E v \in Web : Touches(v, reader[d].user)]
  <2>2. e \in Entry
    BY <2>1 DEF Reading, Entry
  <2>3. cache' = [cache EXCEPT ![reader[d].user] = e]
    BY <1>8 DEF Store
  <2> HIDE DEF e
  <2> QED BY <1>8, <2>1, <2>2, <2>3, KindsAre DEF Store, AccessTypeOK, Reading
<1>9. ASSUME NEW d \in Readers, NEW u \in Staff, Compute(d, u) PROVE AccessTypeOK'
  <2>1. [kind |-> "read", user |-> u, codes |-> Effective(u), early |-> FALSE] \in Reading
    BY EffectiveIs DEF Reading
  <2> QED BY <1>9, <2>1, KindsAre DEF Compute, AccessTypeOK
<1>10. ASSUME NEW u \in Staff, Expire(u) PROVE AccessTypeOK'
  BY <1>10, DropIs DEF Expire, AccessTypeOK
<1>11. ASSUME NEW w \in Web, NEW p \in Perms, SaveException(w, p) PROVE AccessTypeOK'
  <2>1. PICK u \in Staff, next \in MatrixChange :
             /\ change' = Told(w, next) /\ reader' = Overtake({u})
             /\ cache' \in {cache, Drop({u})} /\ override' \in Overrides
    BY <1>11, SaveIs DEF Saves
  <2>2. change' \in [Web -> Change]
    <3>1. next \in Change
      BY KindsAre
    <3> QED BY <2>1, <3>1, ToldIs
  <2>5. reader' \in [Readers -> Read]
    BY <2>1, OvertakeIs
  <2>3. cache' \in [Staff -> Entry \cup {Absent}]
    BY <2>1, DropIs DEF AccessTypeOK
  <2>4. asked' \in [Staff -> (SUBSET Perms) \cup {Absent}]
    BY <1>11 DEF SaveException, AccessTypeOK
  <2> QED BY <1>11, <2>1, <2>2, <2>3, <2>4, <2>5 DEF SaveException, AccessTypeOK
<1>12. ASSUME NEW w \in Web, FinishMatrix(w) PROVE AccessTypeOK'
  <2>1. change[w] \in MatrixChange
    BY <1>12, ChangeKinds DEF FinishMatrix, AccessTypeOK
  <2>2. asked' \in [Staff -> (SUBSET Perms) \cup {Absent}]
    BY <1>12, <2>1 DEF FinishMatrix, AccessTypeOK, MatrixChange
  <2> QED BY <1>12, <2>2, KindsAre, DropIs DEF FinishMatrix, AccessTypeOK
<1> QED
  BY <1>1, <1>2, <1>3, <1>4, <1>5, <1>6, <1>7, <1>8, <1>9, <1>10, <1>11, <1>12
  DEF AccessNext

\* The type invariant of roles, users, changes under way, readers and the cache.
THEOREM AccessTypeCorrect == AccessSpec => []AccessTypeOK
<1>1. AccessTypeOK /\ [AccessNext]_accessVars => AccessTypeOK'
  BY AccessTypeStep DEF accessVars, AccessTypeOK
<1> QED BY <1>1, AccessTypeInit, PTL DEF AccessSpec

-----------------------------------------------------------------------------
(***************************************************************************)
(* What is cached.                                                         *)
(***************************************************************************)

EarlyOnly(u) == cache[u] = Absent \/ cache[u].early

\* A reader that nothing overtook holds what the rows say.
Fresh ==
    \A d \in Readers, u \in Staff :
        reader[d].kind = "read" /\ ~reader[d].early /\ reader[d].user = u =>
            reader[d].codes = Effective(u)

\* While a role's bundle is about to change, its holders have early sets or none.
RolesHeld ==
    \A w \in Web : change[w].kind = "role" /\ change[w].add \cup change[w].remove # {} =>
        \A u \in HoldersOf(change[w].role) : EarlyOnly(u)

\* And so has a user who is about to change, unless all is taken from him.
TakesAll(c) == ~c.keep /\ c.role = NoRole /\ c.codes = Absent
Changes(c) == c.kind = "matrix" \/ (c.kind = "user" /\ ~TakesAll(c))
UsersHeld ==
    \A w \in Web, u \in Staff : Changes(change[w]) /\ change[w].user = u => EarlyOnly(u)

CacheInv == CachedSetIsCurrent /\ Fresh /\ RolesHeld /\ UsersHeld

LEMMA RowsStay ==
    ASSUME UNCHANGED <<grants, holds, override>>
    PROVE  /\ \A u : Effective(u)' = Effective(u)
           /\ \A r : HoldersOf(r)' = HoldersOf(r)
BY DEF Effective, GrantedBy, With, HoldersOf

\* A request that begins drops what the change will make stale.
LEMMA BeginKeepsCache ==
    ASSUME AccessTypeOK, CacheInv, UNCHANGED <<grants, holds, override, reader>>,
           NEW w \in Web, NEW c, change' = [change EXCEPT ![w] = c],
           NEW us, cache' = Drop(us),
           c.kind = "role" /\ c.add \cup c.remove # {} => HoldersOf(c.role) \subseteq us,
           Changes(c) => c.user \in us
    PROVE  CacheInv'
<1>1. \A u \in Staff : cache'[u] = Absent \/ cache'[u] = cache[u]
  BY DEF Drop
<1>2. \A u \in Staff : EarlyOnly(u) => EarlyOnly(u)'
  BY <1>1 DEF EarlyOnly
<1>3. \A u \in Staff \cap us : EarlyOnly(u)'
  BY DEF Drop, EarlyOnly
<1>4. \A v \in Web : change'[v] = IF v = w THEN c ELSE change[v]
  BY DEF AccessTypeOK
<1>5. CachedSetIsCurrent'
  BY <1>1, RowsStay DEF CacheInv, CachedSetIsCurrent
<1>6. Fresh'
  BY RowsStay DEF CacheInv, Fresh
<1>7. RolesHeld'
  <2> SUFFICES ASSUME NEW v \in Web, change'[v].kind = "role",
                      change'[v].add \cup change'[v].remove # {},
                      NEW u \in HoldersOf(change'[v].role)
               PROVE  EarlyOnly(u)'
    BY RowsStay DEF RolesHeld
  <2>1. u \in Staff
    BY DEF HoldersOf
  <2> QED BY <1>2, <1>3, <1>4, <2>1 DEF CacheInv, RolesHeld
<1>8. UsersHeld'
  <2> SUFFICES ASSUME NEW v \in Web, NEW u \in Staff, Changes(change'[v]),
                      change'[v].user = u
               PROVE  EarlyOnly(u)'
    BY DEF UsersHeld, Changes, TakesAll
  <2> QED BY <1>2, <1>3, <1>4 DEF CacheInv, UsersHeld
<1> QED BY <1>5, <1>6, <1>7, <1>8 DEF CacheInv

LEMMA CommitRoleKeepsCache ==
    ASSUME AccessTypeOK, CacheInv, NEW w \in Web, CommitRole(w)
    PROVE  CacheInv'
<1> DEFINE r == change[w].role
           empty == change[w].add \cup change[w].remove = {}
<1>1. change[w] \in RoleChange
  BY ChangeKinds DEF CommitRole, AccessTypeOK
<1>2. \A u \in Staff : (empty \/ u \notin HoldersOf(r)) => Effective(u)' = Effective(u)
  <2>1. UNCHANGED <<holds, override>> /\ \A q \in Roles \ {r} : grants'[q] = grants[q]
    BY <1>1 DEF CommitRole, AccessTypeOK, Grants, RoleChange
  <2>2. empty => \A q \in Roles : grants'[q] = grants[q]
    BY <1>1 DEF CommitRole, AccessTypeOK, Grants, RoleChange
  <2>3. \A u \in Staff : holds[u] \subseteq Roles
    BY DEF AccessTypeOK, Held
  <2>4. ASSUME NEW u \in Staff, empty \/ u \notin HoldersOf(r)
        PROVE  GrantedBy(holds[u])' = GrantedBy(holds[u])
    <3>1. \A q \in holds[u] : grants'[q] = grants[q]
      BY <2>1, <2>2, <2>3, <2>4 DEF HoldersOf
    <3> QED BY <2>1, <3>1 DEF GrantedBy
  <2> QED BY <2>1, <2>4 DEF Effective, With
<1>3. UNCHANGED cache /\ UNCHANGED holds /\ change' = Done(w)
  BY DEF CommitRole
<1>4. CachedSetIsCurrent'
  <2> SUFFICES ASSUME NEW u \in Staff, cache[u] # Absent, ~cache[u].early
               PROVE  cache[u].codes = Effective(u)'
    BY <1>3 DEF CachedSetIsCurrent
  <2>1. empty \/ u \notin HoldersOf(r)
    BY DEF CacheInv, RolesHeld, EarlyOnly, CommitRole
  <2> QED BY <1>2, <2>1 DEF CacheInv, CachedSetIsCurrent
<1>5. Fresh'
  <2> DEFINE told == IF empty THEN {} ELSE HoldersOf(r)
  <2>1. told \subseteq Staff /\ reader' = Overtake(told)
    BY DEF CommitRole, HoldersOf
  <2> SUFFICES ASSUME NEW d \in Readers, NEW u \in Staff, reader'[d].kind = "read",
                      ~reader'[d].early, reader'[d].user = u
               PROVE  reader'[d].codes = Effective(u)'
    BY DEF Fresh
  <2>2. /\ reader[d].kind = "read" /\ ~reader[d].early /\ reader[d].user = u
        /\ reader'[d].codes = reader[d].codes /\ u \notin told
    <3> HIDE DEF told
    <3> QED BY <2>1, OvertakeIs
  <2> QED BY <1>2, <2>2 DEF CacheInv, Fresh
<1>6. RolesHeld'
  <2>1. \A q : HoldersOf(q)' = HoldersOf(q)
    BY <1>3 DEF HoldersOf
  <2> SUFFICES ASSUME NEW v \in Web, change'[v].kind = "role",
                      change'[v].add \cup change'[v].remove # {},
                      NEW u \in HoldersOf(change'[v].role)
               PROVE  EarlyOnly(u)
    BY <1>3, <2>1 DEF RolesHeld, EarlyOnly
  <2>2. change'[v] = change[v]
    BY <1>3, DoneIs, KindsAre
  <2> QED BY <2>2 DEF CacheInv, RolesHeld
<1>7. UsersHeld'
  <2> SUFFICES ASSUME NEW v \in Web, NEW u \in Staff, Changes(change'[v]),
                      change'[v].user = u
               PROVE  EarlyOnly(u)
    BY <1>3 DEF UsersHeld, EarlyOnly, Changes, TakesAll
  <2>1. change[v].user = u /\ Changes(change[v])
    BY <1>3, DoneIs, KindsAre DEF Changes, TakesAll
  <2> QED BY <2>1 DEF CacheInv, UsersHeld
<1> QED BY <1>4, <1>5, <1>6, <1>7 DEF CacheInv

LEMMA CommitUserKeepsCache ==
    ASSUME AccessTypeOK, CacheInv, NEW w \in Web, CommitUser(w)
    PROVE  CacheInv'
<1> PICK u \in Staff : u = change[w].user
  BY ChangeKinds DEF CommitUser, AccessTypeOK, UserChange
<1>1. change[w] \in UserChange
  BY ChangeKinds DEF CommitUser, AccessTypeOK
<1>2. \A v \in Staff \ {u} : Effective(v)' = Effective(v)
  <2>1. \A v \in Staff \ {u} : holds'[v] = holds[v] /\ override'[v] = override[v]
    BY <1>1 DEF CommitUser, AccessTypeOK, Held, Overrides
  <2>2. UNCHANGED grants
    BY DEF CommitUser
  <2> QED BY <2>1, <2>2 DEF Effective, GrantedBy, With
<1>3. EarlyOnly(u)'
  <2>1. CASE TakesAll(change[w]) /\ cache[u] # Absent
    <3>1. cache' = [cache EXCEPT ![u].early = TRUE]
      BY <2>1 DEF CommitUser, TakesAll
    <3>2. cache[u] \in Entry
      BY <1>1, <2>1 DEF AccessTypeOK
    <3>3. cache'[u] = [cache[u] EXCEPT !.early = TRUE]
      BY <1>1, <3>1 DEF AccessTypeOK
    <3>4. cache'[u].early
      BY <3>2, <3>3 DEF Entry
    <3> QED BY <3>4 DEF EarlyOnly
  <2>2. CASE ~(TakesAll(change[w]) /\ cache[u] # Absent)
    <3>1. cache' = cache
      BY <2>2 DEF CommitUser, TakesAll
    <3>2. EarlyOnly(u)
      BY <2>2 DEF CacheInv, UsersHeld, EarlyOnly, CommitUser, Changes
    <3> QED BY <3>1, <3>2 DEF EarlyOnly
  <2> QED BY <2>1, <2>2
<1>4. \A v \in Staff \ {u} : cache'[v] = cache[v]
  BY <1>1 DEF CommitUser, AccessTypeOK
<1>5. CachedSetIsCurrent'
  BY <1>2, <1>3, <1>4 DEF CacheInv, CachedSetIsCurrent, EarlyOnly
<1>6. Fresh'
  <2> SUFFICES ASSUME NEW d \in Readers, NEW v \in Staff, reader'[d].kind = "read",
                      ~reader'[d].early, reader'[d].user = v
               PROVE  reader'[d].codes = Effective(v)'
    BY DEF Fresh
  <2>1. reader' = Overtake({u})
    BY DEF CommitUser
  <2>2. /\ reader[d].kind = "read" /\ ~reader[d].early /\ reader[d].user = v
        /\ reader'[d].codes = reader[d].codes /\ v # u
    BY <2>1, OvertakeIs
  <2> QED BY <1>2, <2>2 DEF CacheInv, Fresh
<1>7. \A v \in Staff : EarlyOnly(v) => EarlyOnly(v)'
  BY <1>3, <1>4 DEF EarlyOnly
<1>8. RolesHeld'
  <2> SUFFICES ASSUME NEW x \in Web, change'[x].kind = "role",
                      change'[x].add \cup change'[x].remove # {},
                      NEW v \in Staff, change'[x].role \in holds'[v]
               PROVE  EarlyOnly(v)'
    BY DEF RolesHeld, HoldersOf
  <2>1. change'[x] = change[x]
    BY DoneIs, KindsAre DEF CommitUser
  <2>3. CASE v = u
    BY <1>3, <2>3
  <2>4. CASE v # u
    <3>1. v \in HoldersOf(change[x].role)
      BY <1>1, <2>1, <2>4 DEF HoldersOf, CommitUser, AccessTypeOK, Held
    <3> QED BY <1>7, <2>1, <3>1 DEF CacheInv, RolesHeld
  <2> QED BY <2>3, <2>4
<1>9. UsersHeld'
  <2> SUFFICES ASSUME NEW x \in Web, NEW v \in Staff, Changes(change'[x]),
                      change'[x].user = v
               PROVE  EarlyOnly(v)'
    BY DEF UsersHeld, Changes, TakesAll
  <2>1. change[x].user = v /\ Changes(change[x])
    BY DoneIs, KindsAre DEF Changes, TakesAll, CommitUser
  <2> QED BY <1>7, <2>1 DEF CacheInv, UsersHeld
<1> QED BY <1>5, <1>6, <1>8, <1>9 DEF CacheInv

\* A set that nobody is changing is stored as the rows say.
LEMMA StoreKeepsCache ==
    ASSUME AccessTypeOK, CacheInv, NEW d \in Readers, Store(d)
    PROVE  CacheInv'
<1> DEFINE u == reader[d].user
           pending == \E v \in Web : Touches(v, u)
           e == [codes |-> reader[d].codes, early |-> reader[d].early \/ pending]
<1>1. reader[d] \in Reading /\ u \in Staff /\ reader[d].kind = "read"
  BY ReadKinds DEF Store, AccessTypeOK, Reading
<1>2. \A v \in Staff : cache'[v] = IF v = u THEN e ELSE cache[v]
  BY <1>1 DEF Store, AccessTypeOK
<1>3. e.codes = reader[d].codes /\ e.early = (reader[d].early \/ pending)
  OBVIOUS
<1>4. UNCHANGED <<grants, holds, override, change>>
  BY DEF Store
<1> HIDE DEF e
<1>5. CachedSetIsCurrent'
  BY <1>1, <1>2, <1>3, <1>4, RowsStay DEF CacheInv, CachedSetIsCurrent, Fresh
<1>6. Fresh'
  <2>1. \A x \in Readers : reader'[x] = IF x = d THEN Ready ELSE reader[x]
    BY DEF Store, AccessTypeOK
  <2> QED BY <1>4, <2>1, RowsStay, KindsAre DEF CacheInv, Fresh
<1>7. \A v \in Staff : EarlyOnly(v) /\ (v = u => pending) => EarlyOnly(v)'
  BY <1>2, <1>3 DEF EarlyOnly
<1>8. RolesHeld'
  <2> SUFFICES ASSUME NEW x \in Web, change[x].kind = "role",
                      change[x].add \cup change[x].remove # {},
                      NEW v \in HoldersOf(change[x].role)
               PROVE  EarlyOnly(v)'
    BY <1>4, RowsStay DEF RolesHeld
  <2>1. v \in Staff /\ EarlyOnly(v) /\ (v = u => Touches(x, u))
    BY DEF HoldersOf, Touches, CacheInv, RolesHeld
  <2> QED BY <1>7, <2>1
<1>9. UsersHeld'
  <2> SUFFICES ASSUME NEW x \in Web, NEW v \in Staff, Changes(change[x]),
                      change[x].user = v
               PROVE  EarlyOnly(v)'
    BY <1>4 DEF UsersHeld, Changes, TakesAll
  <2>1. EarlyOnly(v) /\ (v = u => Touches(x, u))
    BY DEF Touches, CacheInv, UsersHeld, Changes
  <2> QED BY <1>7, <2>1
<1> QED BY <1>5, <1>6, <1>8, <1>9 DEF CacheInv

\* A row of the matrix changes one user, who has an early set or none.
LEMMA SaveKeepsCache ==
    ASSUME AccessTypeOK, CacheInv, NEW w \in Web, NEW p \in Perms, SaveException(w, p)
    PROVE  CacheInv'
<1> PICK u \in Staff, next \in MatrixChange : Saves(w, p, u, next)
  BY SaveIs
<1>0. /\ change[w] \in MatrixChange /\ u = change[w].user
      /\ next.user = u /\ next.kind = "matrix"
      /\ change' = Told(w, next) /\ reader' = Overtake({u})
      /\ cache' \in {cache, Drop({u})}
      /\ \A v \in Staff \ {u} : override'[v] = override[v]
  BY DEF Saves
<1> USE <1>0
<1>1. UNCHANGED <<grants, holds>>
  BY DEF SaveException
<1>2. \A v \in Staff \ {u} : Effective(v)' = Effective(v)
  BY <1>1 DEF Effective, GrantedBy, With
<1>3. \A v \in Staff : EarlyOnly(v) => EarlyOnly(v)'
  BY DEF EarlyOnly, Drop
<1>4. EarlyOnly(u)'
  <2>1. EarlyOnly(u)
    BY DEF CacheInv, UsersHeld, Changes, SaveException
  <2> QED BY <1>3, <2>1
<1>5. \A v \in Staff \ {u} : cache'[v] = cache[v]
  BY DEF Drop
<1>6. CachedSetIsCurrent'
  BY <1>2, <1>4, <1>5 DEF CacheInv, CachedSetIsCurrent, EarlyOnly
<1>7. Fresh'
  <2> SUFFICES ASSUME NEW d \in Readers, NEW v \in Staff, reader'[d].kind = "read",
                      ~reader'[d].early, reader'[d].user = v
               PROVE  reader'[d].codes = Effective(v)'
    BY DEF Fresh
  <2>1. /\ reader[d].kind = "read" /\ ~reader[d].early /\ reader[d].user = v
        /\ reader'[d].codes = reader[d].codes /\ v # u
    BY OvertakeIs
  <2> QED BY <1>2, <2>1 DEF CacheInv, Fresh
<1>8. ASSUME NEW x \in Web, x # w
      PROVE  /\ change'[x].kind = change[x].kind
             /\ change[x].kind \notin {"user", "matrix"} => change'[x] = change[x]
             /\ change[x].kind \in {"user", "matrix"} => change'[x].user = change[x].user
             /\ change[x].kind = "user" => /\ change'[x].role = change[x].role
                                           /\ change'[x].codes = change[x].codes
                                           /\ change'[x].keep = change[x].keep
  BY <1>8, ToldOther
<1>9. change'[w] = next
  <2>1. next \in Change
    BY KindsAre
  <2> QED BY <2>1, ToldIs
<1>10. RolesHeld'
  <2>1. \A q : HoldersOf(q)' = HoldersOf(q)
    BY <1>1 DEF HoldersOf
  <2> SUFFICES ASSUME NEW x \in Web, change'[x].kind = "role",
                      change'[x].add \cup change'[x].remove # {},
                      NEW v \in HoldersOf(change'[x].role)
               PROVE  EarlyOnly(v)'
    BY <2>1 DEF RolesHeld
  <2>2. change'[x] = change[x]
    BY <1>8, <1>9
  <2>3. v \in Staff
    BY DEF HoldersOf
  <2> QED BY <1>3, <2>2, <2>3 DEF CacheInv, RolesHeld
<1>11. UsersHeld'
  <2> SUFFICES ASSUME NEW x \in Web, NEW v \in Staff, Changes(change'[x]),
                      change'[x].user = v
               PROVE  EarlyOnly(v)'
    BY DEF UsersHeld, Changes, TakesAll
  <2>1. CASE x = w
    BY <1>4, <1>9, <2>1
  <2>2. CASE x # w
    <3>1. change[x].user = v /\ Changes(change[x])
      BY <1>8, <2>2 DEF Changes, TakesAll
    <3> QED BY <1>3, <3>1 DEF CacheInv, UsersHeld
  <2> QED BY <2>1, <2>2
<1> QED BY <1>6, <1>7, <1>10, <1>11 DEF CacheInv

LEMMA CacheStep ==
    ASSUME AccessTypeOK, CacheInv, AccessNext
    PROVE  CacheInv'
<1>1. ASSUME NEW w \in Web, NEW r \in Roles, NEW ps \in SUBSET Perms, EditRole(w, r, ps)
      PROVE  CacheInv'
  <2> DEFINE c == [kind |-> "role", role |-> r, add |-> ps, remove |-> grants[r]]
             us == IF ps \cup grants[r] = {} THEN {} ELSE HoldersOf(r)
  <2>1. change' = [change EXCEPT ![w] = c] /\ UNCHANGED <<grants, holds, override, reader>>
    BY <1>1 DEF EditRole
  <2>2. cache' = Drop(us)
    BY <1>1 DEF EditRole, Drop, AccessTypeOK
  <2>3. c.kind = "role" /\ c.role = r /\ c.add = ps /\ c.remove = grants[r] /\ ~Changes(c)
    BY DEF Changes
  <2>4. c.add \cup c.remove # {} => HoldersOf(c.role) \subseteq us
    OBVIOUS
  <2> HIDE DEF c, us
  <2> QED BY <2>1, <2>2, <2>3, <2>4, BeginKeepsCache
<1>2. ASSUME NEW w \in Web, NEW u \in Staff, NEW r, NEW cs, PutUser(w, u, r, cs)
      PROVE  CacheInv'
  <2> DEFINE us == {v \in {u} : r # NoRole \/ cs # Absent}
  <2>1. cache' = Drop(us) /\ UNCHANGED <<grants, holds, override, reader>>
    BY <1>2 DEF PutUser
  <2>2. PICK c : /\ change' = [change EXCEPT ![w] = c]
                 /\ c.kind = "user" /\ c.user = u /\ c.role = r /\ c.codes = cs /\ ~c.keep
    <3> DEFINE want == IF cs = Absent THEN {} ELSE Exceptions(r, cs)
               gone == IF cs = Absent THEN {} ELSE override[u] \ want
               c == [kind |-> "user", user |-> u, role |-> r, codes |-> cs, keep |-> FALSE,
                     add |-> want, remove |-> gone, alone |-> TRUE]
    <3>1. change' = [change EXCEPT ![w] = c]
      BY <1>2 DEF PutUser, Begin
    <3>2. c.kind = "user" /\ c.user = u /\ c.role = r /\ c.codes = cs /\ ~c.keep
      OBVIOUS
    <3> HIDE DEF c
    <3> QED BY <3>1, <3>2
  <2>3. Changes(c) => u \in us
    BY <2>2 DEF Changes, TakesAll
  <2> HIDE DEF us
  <2> QED BY <2>1, <2>2, <2>3, BeginKeepsCache
<1>3. ASSUME NEW w \in Web, NEW u \in Staff, NEW r, EditPage(w, u, r)
      PROVE  CacheInv'
  BY <1>2, <1>3 DEF EditPage
<1>4. ASSUME NEW w \in Web, NEW u \in Staff, NEW cs, EditMatrix(w, u, cs)
      PROVE  CacheInv'
  <2>1. cache' = Drop({u}) /\ UNCHANGED <<grants, holds, override, reader>>
    BY <1>4 DEF EditMatrix
  <2>2. \E c : change' = [change EXCEPT ![w] = c] /\ c.kind # "role" /\ c.user = u
    <3> DEFINE want == IF cs = Absent THEN {} ELSE Exceptions(default[u], cs)
               gone == IF cs = Absent THEN {} ELSE override[u] \ want
               c == [kind |-> "user", user |-> u, role |-> default[u], codes |-> cs,
                     keep |-> TRUE, add |-> want, remove |-> gone, alone |-> TRUE]
               d == [kind |-> "matrix", user |-> u, codes |-> cs,
                     add |-> Exceptions(default[u], cs), left |-> Perms, alone |-> TRUE]
    <3>1. change' = [change EXCEPT ![w] = c] \/ change' = [change EXCEPT ![w] = d]
      BY <1>4 DEF EditMatrix, Begin
    <3>2. c.kind # "role" /\ c.user = u /\ d.kind # "role" /\ d.user = u
      OBVIOUS
    <3> HIDE DEF c, d
    <3> QED BY <3>1, <3>2
  <2> PICK c : change' = [change EXCEPT ![w] = c] /\ c.kind # "role" /\ c.user = u
    BY <2>2
  <2> QED BY <2>1, BeginKeepsCache
<1>5. ASSUME NEW w \in Web, Rollback(w) PROVE CacheInv'
  <2>1. cache' = Drop({}) /\ UNCHANGED <<grants, holds, override, reader>>
    BY <1>5 DEF Rollback, Drop, AccessTypeOK
  <2>2. change' = [change EXCEPT ![w] = Ready] /\ Ready.kind # "role" /\ ~Changes(Ready)
    BY <1>5, KindsAre DEF Rollback, Changes
  <2> QED BY <2>1, <2>2, BeginKeepsCache
<1>6. ASSUME NEW d \in Readers, NEW u \in Staff, Compute(d, u) PROVE CacheInv'
  <2> DEFINE n == [kind |-> "read", user |-> u, codes |-> Effective(u), early |-> FALSE]
  <2>1. n.user = u /\ n.codes = Effective(u)
    OBVIOUS
  <2>2. \A x \in Readers : reader'[x] = IF x = d THEN n ELSE reader[x]
    BY <1>6 DEF Compute, AccessTypeOK
  <2>3. UNCHANGED <<grants, holds, override, cache, change>>
    BY <1>6 DEF Compute
  <2> HIDE DEF n
  <2>4. Fresh'
    BY <2>1, <2>2, <2>3, RowsStay DEF CacheInv, Fresh
  <2>5. CachedSetIsCurrent'
    BY <2>3, RowsStay DEF CacheInv, CachedSetIsCurrent
  <2>6. RolesHeld' /\ UsersHeld'
    BY <2>3, RowsStay DEF CacheInv, RolesHeld, UsersHeld, EarlyOnly, Changes, TakesAll
  <2> QED BY <2>4, <2>5, <2>6 DEF CacheInv
<1>7. ASSUME NEW u \in Staff, Expire(u) PROVE CacheInv'
  <2>1. \A v \in Staff : cache'[v] = Absent \/ cache'[v] = cache[v]
    BY <1>7 DEF Expire, Drop
  <2>2. UNCHANGED <<grants, holds, override, reader, change>>
    BY <1>7 DEF Expire
  <2>3. Fresh'
    BY <2>2, RowsStay DEF CacheInv, Fresh
  <2>4. CachedSetIsCurrent'
    BY <2>1, <2>2, RowsStay DEF CacheInv, CachedSetIsCurrent
  <2>5. \A v \in Staff : EarlyOnly(v) => EarlyOnly(v)'
    BY <2>1 DEF EarlyOnly
  <2>6. RolesHeld'
    BY <2>2, <2>5, RowsStay DEF CacheInv, RolesHeld, HoldersOf
  <2>7. UsersHeld'
    BY <2>2, <2>5 DEF CacheInv, UsersHeld, Changes, TakesAll
  <2> QED BY <2>3, <2>4, <2>6, <2>7 DEF CacheInv
<1>8. ASSUME NEW w \in Web, FinishMatrix(w) PROVE CacheInv'
  <2>1. cache' = Drop({change[w].user}) /\ UNCHANGED <<grants, holds, override, reader>>
    BY <1>8 DEF FinishMatrix
  <2>2. change' = [change EXCEPT ![w] = Ready] /\ Ready.kind # "role" /\ ~Changes(Ready)
    BY <1>8, KindsAre DEF FinishMatrix, Changes
  <2> QED BY <2>1, <2>2, BeginKeepsCache
<1> QED
  BY <1>1, <1>2, <1>3, <1>4, <1>5, <1>6, <1>7, <1>8, CommitRoleKeepsCache,
     CommitUserKeepsCache, SaveKeepsCache, StoreKeepsCache
  DEF AccessNext

LEMMA CacheInit == ASSUME AccessInit PROVE CacheInv
BY KindsAre DEF AccessInit, CacheInv, CachedSetIsCurrent, Fresh, RolesHeld, UsersHeld, Changes

LEMMA CacheStutter == ASSUME CacheInv, UNCHANGED accessVars PROVE CacheInv'
BY RowsStay
DEF accessVars, CacheInv, CachedSetIsCurrent, Fresh, RolesHeld, UsersHeld, EarlyOnly, Changes,
    TakesAll

\* However requests and readers interleave and fail, what is cached for a user is
\* what the rows say he may do, but for a set a reader stored while a change of
\* it was under way and for a form that took all of it silently.
THEOREM CachedCurrent == AccessSpec => []CachedSetIsCurrent
<1>1. AccessTypeOK /\ CacheInv /\ [AccessNext]_accessVars => CacheInv'
  BY CacheStep, CacheStutter
<1>2. CacheInv => CachedSetIsCurrent
  BY DEF CacheInv
<1> QED BY <1>1, <1>2, CacheInit, AccessTypeCorrect, PTL DEF AccessSpec

-----------------------------------------------------------------------------
(***************************************************************************)
(* What is ticked.                                                         *)
(***************************************************************************)

\* What a change writes that no other one overtook is what its form asked for.
AloneInv ==
    \A w \in Web, u \in Staff :
        /\ change[w].kind = "user" /\ change[w].user = u /\ change[w].alone
        /\ change[w].codes # Absent
        => /\ change[w].add = Exceptions(change[w].role, change[w].codes)
           /\ change[w].remove = override[u] \ change[w].add
           /\ change[w].keep => change[w].role = default[u]

\* And what a matrix that nothing overtook has looked at is as it was asked for.
MatrixInv ==
    \A w \in Web, u \in Staff :
        change[w].kind = "matrix" /\ change[w].user = u /\ change[w].alone
        => /\ change[w].add = Exceptions(default[u], change[w].codes)
           /\ \A p \in Perms \ change[w].left :
                override[u] \cap ({p} \X Effects) = change[w].add \cap ({p} \X Effects)

\* A default role is held; without one a user holds none.
DefaultsInv ==
    \A u \in Staff :
        IF default[u] = NoRole THEN holds[u] = {} ELSE default[u] \in holds[u]

TicksInv == TicksAreObeyed /\ AloneInv /\ MatrixInv /\ DefaultsInv

\* The exceptions from a role a user holds make what he may do the codes.
LEMMA ExceptionsObey ==
    ASSUME AccessTypeOK, NEW codes \in SUBSET Perms, NEW r \in Roles \cup {NoRole},
           NEW held \in SUBSET Roles,
           IF r = NoRole THEN held = {} ELSE r \in held,
           NEW may,
           \A p : p \in may <=>
               /\ \/ p \in GrantedBy(held)
                  \/ p \in Perms /\ <<p, "ALLOW">> \in Exceptions(r, codes)
               /\ ~(p \in Perms /\ <<p, "DENY">> \in Exceptions(r, codes))
    PROVE  codes \subseteq may /\ may \ codes \subseteq GrantedBy(held \ {r})
<1> DEFINE bundle == IF r = NoRole THEN {} ELSE grants[r]
<1>1. /\ \A p : <<p, "ALLOW">> \in Exceptions(r, codes) <=> p \in codes \ bundle
      /\ \A p : <<p, "DENY">> \in Exceptions(r, codes) <=> p \in bundle \ codes
  BY DEF Exceptions
<1>2. bundle \subseteq GrantedBy(held)
  BY DEF GrantedBy
<1>3. GrantedBy(held) \subseteq GrantedBy(held \ {r}) \cup bundle
  BY NoRoleIsNone DEF GrantedBy
<1>4. GrantedBy(held) \subseteq Perms
  BY DEF GrantedBy, AccessTypeOK, Grants
<1> HIDE DEF bundle
<1>5. ASSUME NEW p \in codes PROVE p \in may
  <2>1. p \in Perms /\ <<p, "DENY">> \notin Exceptions(r, codes)
    BY <1>1
  <2>2. p \in GrantedBy(held) \/ <<p, "ALLOW">> \in Exceptions(r, codes)
    BY <1>1, <1>2
  <2> QED BY <2>1, <2>2
<1>6. ASSUME NEW p \in may, p \notin codes PROVE p \in GrantedBy(held \ {r})
  <2>1. p \in GrantedBy(held)
    BY <1>1, <1>6
  <2>2. p \notin bundle
    BY <1>1, <1>4, <1>6, <2>1
  <2> QED BY <1>3, <2>1, <2>2
<1> QED BY <1>5, <1>6

\* A request that begins writes nothing, and was not overtaken yet.
LEMMA BeginKeepsTicks ==
    ASSUME AccessTypeOK, TicksInv, UNCHANGED <<grants, holds, default, override, asked>>,
           NEW w \in Web, NEW c, change' = [change EXCEPT ![w] = c],
           \A u \in Staff :
               c.kind = "user" /\ c.user = u /\ c.codes # Absent =>
                   /\ c.add = Exceptions(c.role, c.codes)
                   /\ c.remove = override[u] \ c.add
                   /\ c.keep => c.role = default[u],
           c.kind = "matrix" => c.left = Perms /\ c.add = Exceptions(default[c.user], c.codes)
    PROVE  TicksInv'
<1>1. TicksAreObeyed'
  BY RowsStay DEF TicksInv, TicksAreObeyed, GrantedBy
<1>2. DefaultsInv'
  BY DEF TicksInv, DefaultsInv
<1>3. \A v \in Web : change'[v] = IF v = w THEN c ELSE change[v]
  BY DEF AccessTypeOK
<1>4. \A r, codes : Exceptions(r, codes)' = Exceptions(r, codes)
  BY DEF Exceptions
<1>5. AloneInv'
  <2> SUFFICES ASSUME NEW v \in Web, NEW u \in Staff, change'[v].kind = "user",
                      change'[v].user = u, change'[v].alone, change'[v].codes # Absent
               PROVE  /\ change'[v].add = Exceptions(change'[v].role, change'[v].codes)
                      /\ change'[v].remove = override[u] \ change'[v].add
                      /\ change'[v].keep => change'[v].role = default[u]
    BY <1>4 DEF AloneInv, Exceptions
  <2>1. CASE v = w
    BY <1>3, <2>1
  <2>2. CASE v # w
    BY <1>3, <2>2 DEF TicksInv, AloneInv
  <2> QED BY <2>1, <2>2
<1>6. MatrixInv'
  <2> SUFFICES ASSUME NEW v \in Web, NEW u \in Staff, change'[v].kind = "matrix",
                      change'[v].user = u, change'[v].alone
               PROVE  /\ change'[v].add = Exceptions(default[u], change'[v].codes)
                      /\ \A p \in Perms \ change'[v].left :
                           override[u] \cap ({p} \X Effects)
                             = change'[v].add \cap ({p} \X Effects)
    BY <1>4 DEF MatrixInv, Exceptions
  <2>1. CASE v = w
    BY <1>3, <2>1
  <2>2. CASE v # w
    BY <1>3, <2>2 DEF TicksInv, MatrixInv
  <2> QED BY <2>1, <2>2
<1> QED BY <1>1, <1>2, <1>5, <1>6 DEF TicksInv

\* When a change ends no other one is alone.
LEMMA CommitsLeaveNoneAlone ==
    ASSUME AccessTypeOK, NEW w \in Web, change' = Done(w)
    PROVE  AloneInv' /\ MatrixInv'
<1> SUFFICES ASSUME NEW v \in Web, change'[v].kind \in {"user", "matrix"}, change'[v].alone
             PROVE  FALSE
  BY DEF AloneInv, MatrixInv
<1>1. v # w
  <2>1. Done(w)[w] = Ready
    BY DoneIs
  <2> QED BY <2>1, KindsAre
<1>2. change[v].kind \in {"user", "matrix"}
  BY <1>1, DoneIs
<1>3. change'[v].alone = FALSE
  BY <1>1, <1>2, DoneIs
<1> QED BY <1>3

LEMMA CommitRoleKeepsTicks ==
    ASSUME AccessTypeOK, TicksInv, NEW w \in Web, CommitRole(w)
    PROVE  TicksInv'
<1>1. AloneInv' /\ MatrixInv'
  BY CommitsLeaveNoneAlone DEF CommitRole
<1>2. DefaultsInv'
  BY DEF CommitRole, TicksInv, DefaultsInv
<1>3. TicksAreObeyed'
  <2> SUFFICES ASSUME NEW u \in Staff, asked'[u] # Absent
               PROVE  /\ asked'[u] \subseteq Effective(u)'
                      /\ Effective(u)' \ asked'[u] \subseteq GrantedBy(holds[u] \ {default[u]})'
    BY DEF TicksAreObeyed, CommitRole
  <2> PICK r \in Roles : r = change[w].role
    BY ChangeKinds DEF CommitRole, AccessTypeOK, RoleChange
  <2>1. r \notin holds[u] \cup {default[u]} /\ asked'[u] = asked[u]
    BY DEF CommitRole
  <2>2. UNCHANGED <<holds, override>> /\ \A q \in Roles \ {r} : grants'[q] = grants[q]
    BY DEF CommitRole, AccessTypeOK, Grants
  <2>3. holds[u] \subseteq Roles
    BY DEF AccessTypeOK, Held
  <2>4. \A rs \in SUBSET holds[u] : GrantedBy(rs)' = GrantedBy(rs)
    BY <2>1, <2>2, <2>3 DEF GrantedBy
  <2>5. Effective(u)' = Effective(u)
    BY <2>2, <2>4 DEF Effective, With
  <2>6. GrantedBy(holds[u] \ {default[u]})' = GrantedBy(holds[u] \ {default[u]})
    BY <2>2, <2>4 DEF CommitRole
  <2> QED BY <2>1, <2>5, <2>6 DEF TicksInv, TicksAreObeyed
<1> QED BY <1>1, <1>2, <1>3 DEF TicksInv

LEMMA CommitUserKeepsTicks ==
    ASSUME AccessTypeOK, TicksInv, NEW w \in Web, CommitUser(w)
    PROVE  TicksInv'
<1> PICK c \in UserChange, u \in Staff : c = change[w] /\ u = change[w].user
  BY ChangeKinds DEF CommitUser, AccessTypeOK, UserChange
<1>0. /\ c.role \in Roles \cup {NoRole} /\ c.codes \in (SUBSET Perms) \cup {Absent}
      /\ c.user = u
  BY DEF UserChange
<1>1. AloneInv' /\ MatrixInv'
  BY CommitsLeaveNoneAlone DEF CommitUser
<1>2. UNCHANGED grants
  BY DEF CommitUser
<1>3. \A v \in Staff \ {u} : /\ holds'[v] = holds[v] /\ default'[v] = default[v]
                            /\ override'[v] = override[v] /\ asked'[v] = asked[v]
  BY DEF CommitUser, AccessTypeOK, Held, Overrides
<1>4. /\ default'[u] = IF c.keep THEN default[u] ELSE c.role
      /\ holds'[u] = IF c.keep THEN holds[u]
                     ELSE IF c.role = NoRole THEN {} ELSE holds[u] \cup {c.role}
      /\ override'[u] = (override[u] \ c.remove) \cup c.add
      /\ asked'[u] = IF c.alone THEN c.codes ELSE Absent
  BY <1>0 DEF CommitUser, AccessTypeOK, Held, Overrides
<1>5. DefaultsInv'
  BY <1>3, <1>4 DEF TicksInv, DefaultsInv
<1>6. TicksAreObeyed'
  <2> SUFFICES ASSUME NEW v \in Staff, asked'[v] # Absent
               PROVE  /\ asked'[v] \subseteq Effective(v)'
                      /\ Effective(v)' \ asked'[v] \subseteq GrantedBy(holds'[v] \ {default'[v]})
    BY <1>2 DEF TicksAreObeyed, GrantedBy
  <2>1. CASE v # u
    <3>1. Effective(v)' = Effective(v)
      BY <1>2, <1>3, <2>1 DEF Effective, GrantedBy, With
    <3> QED BY <1>3, <2>1, <3>1 DEF TicksInv, TicksAreObeyed
  <2>2. CASE v = u
    <3>1. c.alone /\ c.codes # Absent /\ asked'[u] = c.codes /\ c.codes \in SUBSET Perms
      BY <1>0, <1>4, <2>2
    <3>2. /\ c.add = Exceptions(c.role, c.codes) /\ c.remove = override[u] \ c.add
          /\ c.keep => c.role = default[u]
      BY <1>0, <3>1 DEF TicksInv, AloneInv, CommitUser
    <3>3. override'[u] = Exceptions(c.role, c.codes) /\ default'[u] = c.role
      BY <1>4, <3>2
    <3>4. holds'[u] \in SUBSET Roles
      BY <1>0, <1>4 DEF AccessTypeOK, Held
    <3>5. IF c.role = NoRole THEN holds'[u] = {} ELSE c.role \in holds'[u]
      BY <1>5, <3>3 DEF DefaultsInv
    <3> DEFINE may == (GrantedBy(holds'[u])
                         \cup {p \in Perms : <<p, "ALLOW">> \in Exceptions(c.role, c.codes)})
                       \ {p \in Perms : <<p, "DENY">> \in Exceptions(c.role, c.codes)}
    <3>6. Effective(u)' = may
      BY <1>2, <3>3 DEF Effective, GrantedBy, With
    <3>7. c.codes \subseteq may /\ may \ c.codes \subseteq GrantedBy(holds'[u] \ {c.role})
      <4> PICK held, m, r, codes :
              held = holds'[u] /\ m = may /\ r = c.role /\ codes = c.codes
        OBVIOUS
      <4>1. held \in SUBSET Roles
        BY <3>4
      <4>2. codes \in SUBSET Perms /\ r \in Roles \cup {NoRole}
        BY <1>0, <3>1
      <4>3. IF r = NoRole THEN held = {} ELSE r \in held
        BY <3>5
      <4>4. \A p : p \in m <=>
               /\ \/ p \in GrantedBy(held)
                  \/ p \in Perms /\ <<p, "ALLOW">> \in Exceptions(r, codes)
               /\ ~(p \in Perms /\ <<p, "DENY">> \in Exceptions(r, codes))
        OBVIOUS
      <4>5. codes \subseteq m /\ m \ codes \subseteq GrantedBy(held \ {r})
        <5> HIDE DEF may
        <5> QED BY ONLY AccessTypeOK, <4>1, <4>2, <4>3, <4>4, ExceptionsObey
      <4> QED BY <4>5
    <3> HIDE DEF may
    <3> QED BY <2>2, <3>1, <3>3, <3>6, <3>7
  <2> QED BY <2>1, <2>2
<1> QED BY <1>1, <1>5, <1>6 DEF TicksInv

LEMMA TicksStay ==
    ASSUME TicksInv, UNCHANGED <<grants, holds, default, override, asked, change>>
    PROVE  TicksInv'
<1>1. TicksAreObeyed'
  BY RowsStay DEF TicksInv, TicksAreObeyed, GrantedBy
<1>2. DefaultsInv'
  BY DEF TicksInv, DefaultsInv
<1>3. AloneInv'
  BY DEF TicksInv, AloneInv, Exceptions
<1>4. MatrixInv'
  BY DEF TicksInv, MatrixInv, Exceptions
<1> QED BY <1>1, <1>2, <1>3, <1>4 DEF TicksInv

\* A row of the matrix takes the word of its user back; no other change of his is
\* alone any more.
LEMMA SaveKeepsTicks ==
    ASSUME AccessTypeOK, TicksInv, NEW w \in Web, NEW p \in Perms, SaveException(w, p)
    PROVE  TicksInv'
<1> PICK u \in Staff, next \in MatrixChange : Saves(w, p, u, next)
  BY SaveIs
<1>0. /\ u = change[w].user /\ change' = Told(w, next)
      /\ next.user = u /\ next.kind = "matrix" /\ next.add = change[w].add
      /\ next.codes = change[w].codes /\ next.alone = change[w].alone
  BY DEF Saves
<1> USE <1>0
<1>1. UNCHANGED <<grants, holds, default>> /\ change[w].kind = "matrix"
  BY DEF SaveException
<1>2. DefaultsInv'
  BY <1>1 DEF TicksInv, DefaultsInv
<1>3. next \in Change
  BY KindsAre
<1>4. change'[w] = next
  BY <1>3, ToldIs
<1>5. \A x \in Web : x # w /\ change'[x].kind \in {"user", "matrix"} => ~change'[x].alone
  BY <1>3, ToldIs
<1>6. AloneInv'
  BY <1>4, <1>5 DEF AloneInv
<1>7. MatrixInv'
  <2> SUFFICES ASSUME next.alone
               PROVE  /\ next.add = Exceptions(default[u], next.codes)'
                      /\ \A q \in Perms \ next.left :
                           override'[u] \cap ({q} \X Effects) = next.add \cap ({q} \X Effects)
    BY <1>1, <1>4, <1>5 DEF MatrixInv, Exceptions
  <2>1. /\ change[w].add = Exceptions(default[u], change[w].codes)
        /\ \A q \in Perms \ change[w].left :
             override[u] \cap ({q} \X Effects) = change[w].add \cap ({q} \X Effects)
    BY <1>1 DEF TicksInv, MatrixInv
  <2>2. Exceptions(default[u], next.codes)' = Exceptions(default[u], next.codes)
    BY <1>1 DEF Exceptions
  <2>3. ASSUME NEW q \in Perms \ next.left
        PROVE  override'[u] \cap ({q} \X Effects) = next.add \cap ({q} \X Effects)
    BY <2>1 DEF Saves
  <2> QED BY <2>1, <2>2, <2>3
<1>8. TicksAreObeyed'
  <2> SUFFICES ASSUME NEW v \in Staff, asked'[v] # Absent
               PROVE  /\ asked'[v] \subseteq Effective(v)'
                      /\ Effective(v)' \ asked'[v] \subseteq GrantedBy(holds[v] \ {default[v]})
    BY <1>1 DEF TicksAreObeyed, GrantedBy
  <2>1. override'[v] = override[v] /\ asked'[v] = asked[v]
    <3>1. CASE override' = override
      BY <3>1 DEF SaveException
    <3>2. CASE override' # override
      <4>2. v # u => override'[v] = override[v]
        BY DEF Saves
      <4>1. asked' = [asked EXCEPT ![u] = Absent]
        BY <3>2 DEF SaveException
      <4> QED BY <4>1, <4>2 DEF AccessTypeOK
    <3> QED BY <3>1, <3>2
  <2>2. Effective(v)' = Effective(v)
    BY <1>1, <2>1 DEF Effective, GrantedBy, With
  <2> QED BY <2>1, <2>2 DEF TicksInv, TicksAreObeyed
<1> QED BY <1>2, <1>6, <1>7, <1>8 DEF TicksInv

\* A matrix that was saved to the end, and overtaken by nobody, is obeyed.
LEMMA FinishKeepsTicks ==
    ASSUME AccessTypeOK, TicksInv, NEW w \in Web, FinishMatrix(w)
    PROVE  TicksInv'
<1> PICK c \in MatrixChange, u \in Staff : c = change[w] /\ u = c.user
  BY ChangeKinds DEF FinishMatrix, AccessTypeOK, MatrixChange
<1>0. c.codes \in SUBSET Perms /\ c.add \in SUBSET (Perms \X Effects)
  BY DEF MatrixChange
<1>1. UNCHANGED <<grants, holds, default, override>>
  BY DEF FinishMatrix
<1>2. DefaultsInv'
  BY <1>1 DEF TicksInv, DefaultsInv
<1>3. \A x \in Web : change'[x] = IF x = w THEN Ready ELSE change[x]
  BY DEF FinishMatrix, AccessTypeOK
<1>4. \A r, codes : Exceptions(r, codes)' = Exceptions(r, codes)
  BY <1>1 DEF Exceptions
<1>5. AloneInv'
  BY <1>1, <1>3, <1>4, KindsAre DEF TicksInv, AloneInv
<1>6. MatrixInv'
  BY <1>1, <1>3, <1>4, KindsAre DEF TicksInv, MatrixInv
<1>7. /\ \A v \in Staff \ {u} : asked'[v] = asked[v]
      /\ asked'[u] = IF c.alone THEN c.codes ELSE asked[u]
  BY DEF FinishMatrix, AccessTypeOK
<1>8. \A v : Effective(v)' = Effective(v)
  BY <1>1, RowsStay
<1>9. ASSUME c.alone
      PROVE  /\ c.codes \subseteq Effective(u)
             /\ Effective(u) \ c.codes \subseteq GrantedBy(holds[u] \ {default[u]})
  <2>1. /\ c.add = Exceptions(default[u], c.codes)
        /\ \A p \in Perms : override[u] \cap ({p} \X Effects) = c.add \cap ({p} \X Effects)
    BY <1>9 DEF TicksInv, MatrixInv, FinishMatrix
  <2>2. override[u] \in SUBSET (Perms \X Effects)
    BY DEF AccessTypeOK, Overrides
  <2>3. \A p \in Perms, e \in Effects : <<p, e>> \in override[u] <=> <<p, e>> \in c.add
    BY <2>1
  <2>4. With(u, "ALLOW") = {p \in Perms : <<p, "ALLOW">> \in Exceptions(default[u], c.codes)}
    BY <2>1, <2>3 DEF With, Effects
  <2>5. With(u, "DENY") = {p \in Perms : <<p, "DENY">> \in Exceptions(default[u], c.codes)}
    BY <2>1, <2>3 DEF With, Effects
  <2>6. default[u] \in Roles \cup {NoRole} /\ holds[u] \in SUBSET Roles
    BY DEF AccessTypeOK, Held
  <2>7. IF default[u] = NoRole THEN holds[u] = {} ELSE default[u] \in holds[u]
    BY DEF TicksInv, DefaultsInv
  <2> PICK may, held, r, codes :
          may = Effective(u) /\ held = holds[u] /\ r = default[u] /\ codes = c.codes
    OBVIOUS
  <2>8. may = (GrantedBy(held) \cup {p \in Perms : <<p, "ALLOW">> \in Exceptions(r, codes)})
                \ {p \in Perms : <<p, "DENY">> \in Exceptions(r, codes)}
    BY <2>4, <2>5 DEF Effective
  <2>9. \A p : p \in may <=>
            /\ \/ p \in GrantedBy(held)
               \/ p \in Perms /\ <<p, "ALLOW">> \in Exceptions(r, codes)
            /\ ~(p \in Perms /\ <<p, "DENY">> \in Exceptions(r, codes))
    BY ONLY <2>8
  <2>10. /\ codes \in SUBSET Perms /\ r \in Roles \cup {NoRole} /\ held \in SUBSET Roles
         /\ IF r = NoRole THEN held = {} ELSE r \in held
    BY <1>0, <2>6, <2>7
  <2>11. codes \subseteq may /\ may \ codes \subseteq GrantedBy(held \ {r})
    BY ONLY AccessTypeOK, <2>9, <2>10, ExceptionsObey
  <2> QED BY <2>11
<1>10. TicksAreObeyed'
  <2> SUFFICES ASSUME NEW v \in Staff, asked'[v] # Absent
               PROVE  /\ asked'[v] \subseteq Effective(v)
                      /\ Effective(v) \ asked'[v] \subseteq GrantedBy(holds[v] \ {default[v]})
    BY <1>1, <1>8 DEF TicksAreObeyed, GrantedBy
  <2>1. CASE v = u /\ c.alone
    BY <1>7, <1>9, <2>1
  <2>2. CASE ~(v = u /\ c.alone)
    BY <1>7, <2>2 DEF TicksInv, TicksAreObeyed
  <2> QED BY <2>1, <2>2
<1> QED BY <1>2, <1>5, <1>6, <1>10 DEF TicksInv

LEMMA TicksStep ==
    ASSUME AccessTypeOK, TicksInv, AccessNext
    PROVE  TicksInv'
<1>1. ASSUME NEW w \in Web, NEW r \in Roles, NEW ps \in SUBSET Perms, EditRole(w, r, ps)
      PROVE  TicksInv'
  <2> DEFINE c == [kind |-> "role", role |-> r, add |-> ps, remove |-> grants[r]]
  <2>1. c.kind \notin {"user", "matrix"}
    OBVIOUS
  <2>2. change' = [change EXCEPT ![w] = c]
        /\ UNCHANGED <<grants, holds, default, override, asked>>
    BY <1>1 DEF EditRole
  <2> HIDE DEF c
  <2> QED BY <2>1, <2>2, BeginKeepsTicks
<1>2. ASSUME NEW w \in Web, NEW u \in Staff, NEW r, NEW cs, NEW keep,
             Begin(w, u, r, cs, keep), keep => r = default[u],
             UNCHANGED <<grants, holds, default, override, asked>>
      PROVE  TicksInv'
  <2> DEFINE want == IF cs = Absent THEN {} ELSE Exceptions(r, cs)
             gone == IF cs = Absent THEN {} ELSE override[u] \ want
             c == [kind |-> "user", user |-> u, role |-> r, codes |-> cs, keep |-> keep,
                   add |-> want, remove |-> gone, alone |-> TRUE]
  <2>1. change' = [change EXCEPT ![w] = c]
    BY <1>2 DEF Begin
  <2>2. /\ c.user = u /\ c.role = r /\ c.codes = cs /\ c.keep = keep /\ c.kind = "user"
        /\ c.add = want /\ c.remove = gone
    OBVIOUS
  <2>3. cs # Absent => want = Exceptions(r, cs) /\ gone = override[u] \ want
    OBVIOUS
  <2> HIDE DEF c, want, gone
  <2> QED BY <1>2, <2>1, <2>2, <2>3, BeginKeepsTicks
<1>3. ASSUME NEW w \in Web, NEW u \in Staff, NEW r, NEW cs, PutUser(w, u, r, cs)
      PROVE  TicksInv'
  BY <1>2, <1>3 DEF PutUser
<1>4. ASSUME NEW w \in Web, NEW u \in Staff, NEW r, EditPage(w, u, r)
      PROVE  TicksInv'
  BY <1>3, <1>4 DEF EditPage
<1>5. ASSUME NEW w \in Web, NEW u \in Staff, NEW cs, EditMatrix(w, u, cs)
      PROVE  TicksInv'
  <2>1. CASE db = "default"
    BY <1>2, <1>5, <2>1 DEF EditMatrix
  <2>2. CASE db # "default"
    <3> DEFINE c == [kind |-> "matrix", user |-> u, codes |-> cs,
                     add |-> Exceptions(default[u], cs), left |-> Perms, alone |-> TRUE]
    <3>1. /\ change' = [change EXCEPT ![w] = c]
          /\ UNCHANGED <<grants, holds, default, override, asked>>
      BY <1>5, <2>2 DEF EditMatrix
    <3>2. /\ c.kind = "matrix" /\ c.user = u /\ c.codes = cs /\ c.left = Perms
          /\ c.add = Exceptions(default[u], cs)
      OBVIOUS
    <3> HIDE DEF c
    <3> QED BY <3>1, <3>2, BeginKeepsTicks
  <2> QED BY <2>1, <2>2
<1>6. ASSUME NEW w \in Web, Rollback(w) PROVE TicksInv'
  BY <1>6, BeginKeepsTicks, KindsAre DEF Rollback
<1>7. ASSUME NEW d \in Readers, Store(d) \/ \E u \in Staff : Compute(d, u)
      PROVE  TicksInv'
  BY <1>7, TicksStay DEF Store, Compute
<1>8. ASSUME NEW u \in Staff, Expire(u) PROVE TicksInv'
  BY <1>8, TicksStay DEF Expire
<1> QED
  BY <1>1, <1>3, <1>4, <1>5, <1>6, <1>7, <1>8, CommitRoleKeepsTicks, CommitUserKeepsTicks,
     SaveKeepsTicks, FinishKeepsTicks
  DEF AccessNext

LEMMA TicksInit == ASSUME AccessInit PROVE TicksInv
BY KindsAre DEF AccessInit, TicksInv, TicksAreObeyed, AloneInv, MatrixInv, DefaultsInv

\* However forms, the matrix and roles are saved at once, in whatever order they
\* commit or fail, a user may do what was last ticked for him, and nothing else
\* but what other roles of his grant, until a change of him commits, or, in a
\* tenant's database, one row of a matrix that may never be saved to its end.
THEOREM TicksObeyed == AccessSpec => []TicksAreObeyed
<1>1. AccessTypeOK /\ TicksInv /\ [AccessNext]_accessVars => TicksInv'
  BY TicksStep, TicksStay DEF accessVars
<1>2. TicksInv => TicksAreObeyed
  BY DEF TicksInv
<1> QED BY <1>1, <1>2, TicksInit, AccessTypeCorrect, PTL DEF AccessSpec

=============================================================================
