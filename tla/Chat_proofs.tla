----------------------------- MODULE Chat_proofs -----------------------------
(***************************************************************************)
(* What reaches its reader: of a chat, one conversation for two users and  *)
(* the read marks of its messages, for every set of users and whatever is  *)
(* opened, sent or lost; of the reminders, what is sent once, however many *)
(* workers, reminders and clocks there are and whatever batch a sweep      *)
(* takes.                                                                  *)
(*                                                                         *)
(* RowsInv is what the types and the references among the rows amount to.  *)
(* ThreadInv adds what a request that is about to create a conversation    *)
(* knows; SaidInv that what was shown before it was saved is excepted;     *)
(* HeardInv where a message is that its reader's page has not shown yet.   *)
(***************************************************************************)
EXTENDS Chat, Reminders, FiniteSetTheorems, TLAPS

-----------------------------------------------------------------------------
(***************************************************************************)
(* Pairs and wires.                                                        *)
(***************************************************************************)

LEMMA PairsAre ==
    ASSUME NEW p \in Pairs
    PROVE  \E a, b \in Users : a # b /\ p = {a, b}
<1>1. Cardinality(p) = 2 /\ p \in SUBSET Users
  BY DEF Pairs
<1>2. IsFiniteSet(p)
  BY <1>1, ChatInputs, FS_Subset
<1>3. PICK a \in p : TRUE
  BY <1>1, <1>2, FS_EmptySet
<1>4. IsFiniteSet(p \ {a}) /\ Cardinality(p \ {a}) = 1
  BY <1>1, <1>2, <1>3, FS_RemoveElement
<1>5. PICK b : p \ {a} = {b}
  BY <1>4, FS_Singleton
<1>6. a # b /\ p = {a, b} /\ a \in Users /\ b \in Users
  BY <1>1, <1>3, <1>5
<1> QED BY <1>6

\* Whoever of a pair did not write a message is its reader.
LEMMA ReaderIs ==
    ASSUME NEW i, convo[message[i].convo] \in Pairs,
           message[i].from \in convo[message[i].convo]
    PROVE  /\ Reader(i) \in convo[message[i].convo] /\ Reader(i) \in Users
           /\ Reader(i) # message[i].from
           /\ \A v \in convo[message[i].convo] : v # message[i].from => v = Reader(i)
<1> PICK a \in Users, b \in Users : a # b /\ convo[message[i].convo] = {a, b}
  BY PairsAre
<1>1. \E v \in convo[message[i].convo] : v # message[i].from
  OBVIOUS
<1>2. Reader(i) \in convo[message[i].convo] /\ Reader(i) # message[i].from
  BY <1>1 DEF Reader
<1> QED BY <1>2

LEMMA NoPairIsEmpty == {} \notin Pairs
BY PairsAre

Elements(s) == {s[k] : k \in DOMAIN s}

LEMMA WirePut ==
    ASSUME NEW s \in Seq(Nat), NEW i \in Nat
    PROVE  Append(s, i) \in Seq(Nat) /\ Elements(Append(s, i)) = Elements(s) \cup {i}
<1>1. Append(s, i) \in Seq(Nat) /\ DOMAIN Append(s, i) = DOMAIN s \cup {Len(s) + 1}
  OBVIOUS
<1>2. \A k \in DOMAIN s : Append(s, i)[k] = s[k]
  OBVIOUS
<1>3. Append(s, i)[Len(s) + 1] = i
  OBVIOUS
<1> QED BY <1>1, <1>2, <1>3 DEF Elements

LEMMA WireTake ==
    ASSUME NEW s \in Seq(Nat), s # << >>
    PROVE  /\ Tail(s) \in Seq(Nat) /\ Head(s) \in Nat
           /\ Elements(s) = Elements(Tail(s)) \cup {Head(s)}
<1>1. /\ Tail(s) \in Seq(Nat) /\ Head(s) = s[1] /\ 1 \in DOMAIN s
      /\ DOMAIN Tail(s) = 1..(Len(s) - 1) /\ Len(s) \in Nat \ {0} /\ DOMAIN s = 1..Len(s)
  OBVIOUS
<1>2. \A k \in 1..(Len(s) - 1) : Tail(s)[k] = s[k + 1]
  OBVIOUS
<1>3. ASSUME NEW x \in Elements(s) PROVE x \in Elements(Tail(s)) \cup {Head(s)}
  <2>1. PICK k \in DOMAIN s : x = s[k]
    BY <1>3 DEF Elements
  <2>2. CASE k = 1
    BY <1>1, <2>1, <2>2
  <2>3. CASE k # 1
    <3>1. k - 1 \in 1..(Len(s) - 1) /\ (k - 1) + 1 = k
      BY <1>1, <2>3
    <3>2. Tail(s)[k - 1] = x
      BY <1>2, <2>1, <3>1
    <3> QED BY <1>1, <3>1, <3>2 DEF Elements
  <2> QED BY <2>2, <2>3
<1>4. ASSUME NEW x \in Elements(Tail(s)) PROVE x \in Elements(s)
  <2>1. PICK k \in 1..(Len(s) - 1) : x = Tail(s)[k]
    BY <1>1, <1>4 DEF Elements
  <2>2. k + 1 \in DOMAIN s /\ x = s[k + 1]
    BY <1>1, <1>2, <2>1
  <2> QED BY <2>2 DEF Elements
<1>5. Head(s) \in Elements(s)
  BY <1>1 DEF Elements
<1> QED BY <1>1, <1>3, <1>4, <1>5

-----------------------------------------------------------------------------
(***************************************************************************)
(* Types and references.                                                   *)
(***************************************************************************)

Kinds == {"none", "create", "opened", "marked", "history"}
Rows == [convo : Nat, from : Users, saved : BOOLEAN, read : BOOLEAN]
Pages == [at : Nat, online : BOOLEAN, shown : SUBSET Nat]
Requests == [kind : Kinds, convo : Nat, with : SUBSET Users, found : SUBSET Nat]
Sends == [id : Nat, pushed : BOOLEAN, upload : BOOLEAN]

Shape ==
    /\ convo \in Seq(Pairs)
    /\ message \in Seq(Rows)
    /\ page \in [Users -> Pages]
    /\ request \in [Users -> Requests]
    /\ sending \in [Users -> Sends]
    /\ wire \in [Users -> Seq(Nat)]
    /\ asks \in [Users -> SUBSET Nat]

\* A conversation and somebody who takes part in it.
Member(c, u) == c \in DOMAIN convo /\ u \in convo[c]

MessagesInv ==
    \A i \in DOMAIN message :
        /\ Member(message[i].convo, message[i].from)
        /\ message[i].read => message[i].saved

PagesInv ==
    \A u \in Users :
        /\ page[u].at # 0 => Member(page[u].at, u)
        /\ page[u].shown \subseteq DOMAIN message

RequestFits(q, u) ==
    /\ q.kind \in {"none", "create"} => q.convo = 0 /\ q.found = {}
    /\ q.kind \in {"opened", "marked", "history"} => Member(q.convo, u)
    /\ q.kind = "create" => q.with \in Pairs /\ u \in q.with
    /\ q.kind # "create" => q.with = {}
    /\ q.found \subseteq Stored(q.convo)

RequestsInv == \A u \in Users, q \in Requests : request[u] = q => RequestFits(q, u)

SendsInv ==
    \A u \in Users :
        /\ sending[u].id # 0 => sending[u].id \in DOMAIN message
        /\ sending[u].upload => sending[u].id # 0 /\ ~message[sending[u].id].saved
        /\ sending[u].pushed => sending[u].upload
        /\ \A v \in Users : sending[u].id # 0 /\ sending[v].id = sending[u].id => v = u

WiresInv ==
    \A u \in Users :
        /\ OnWire(u) \subseteq DOMAIN message
        /\ \A c \in asks[u] : Member(c, u)

RowsInv == Shape /\ MessagesInv /\ PagesInv /\ RequestsInv /\ SendsInv /\ WiresInv

\* What a step may do to the rows that are there.
Grow ==
    /\ DOMAIN convo \subseteq DOMAIN convo' /\ \A c \in DOMAIN convo : convo'[c] = convo[c]
    /\ DOMAIN message \subseteq DOMAIN message'
    /\ \A i \in DOMAIN message :
          /\ message'[i].convo = message[i].convo /\ message'[i].from = message[i].from
          /\ message[i].saved => message'[i].saved
          /\ message[i].read => message'[i].read

LEMMA NothingGrows ==
    ASSUME UNCHANGED <<convo, message>>
    PROVE  Grow
BY DEF Grow

LEMMA MarkedReadIs ==
    ASSUME Shape, NEW c, NEW u
    PROVE  /\ MarkedRead(c, u) \in Seq(Rows) /\ DOMAIN MarkedRead(c, u) = DOMAIN message
           /\ \A i \in DOMAIN message :
                /\ MarkedRead(c, u)[i].convo = message[i].convo
                /\ MarkedRead(c, u)[i].from = message[i].from
                /\ MarkedRead(c, u)[i].saved = message[i].saved
                /\ MarkedRead(c, u)[i].read <=>
                      (message[i].read \/ (i \in Stored(c) /\ message[i].from # u))
<1>1. ASSUME NEW i \in DOMAIN message
      PROVE  /\ message[i] \in Rows
             /\ [message[i] EXCEPT !.read = TRUE] \in Rows
             /\ [message[i] EXCEPT !.read = TRUE].convo = message[i].convo
             /\ [message[i] EXCEPT !.read = TRUE].from = message[i].from
             /\ [message[i] EXCEPT !.read = TRUE].saved = message[i].saved
             /\ [message[i] EXCEPT !.read = TRUE].read = TRUE
             /\ message[i].read \in BOOLEAN
  <2>1. message[i] \in Rows
    BY DEF Shape
  <2> QED BY <2>1 DEF Rows
<1>2. Len(message) \in Nat /\ DOMAIN message = 1..Len(message)
  BY DEF Shape
<1>3. MarkedRead(c, u) \in [1..Len(message) -> Rows]
  BY <1>1, <1>2 DEF MarkedRead
<1>4. MarkedRead(c, u) \in Seq(Rows)
  BY <1>2, <1>3
<1> QED BY <1>1, <1>4 DEF MarkedRead

LEMMA MarkedReadGrows ==
    ASSUME Shape, NEW c, NEW u, message' = MarkedRead(c, u), UNCHANGED convo
    PROVE  /\ Grow /\ message' \in Seq(Rows) /\ DOMAIN message' = DOMAIN message
           /\ \A i \in DOMAIN message : message'[i].saved = message[i].saved
BY MarkedReadIs DEF Grow

LEMMA MembersStay ==
    ASSUME Grow, NEW c, NEW u, Member(c, u)
    PROVE  Member(c, u)'
BY DEF Grow, Member

LEMMA StoredStays ==
    ASSUME Grow, NEW c
    PROVE  Stored(c) \subseteq Stored(c)'
BY DEF Grow, Stored

LEMMA PagesStay ==
    ASSUME RowsInv, Grow, UNCHANGED page
    PROVE  PagesInv'
BY MembersStay DEF RowsInv, PagesInv, Grow

LEMMA FitsStay ==
    ASSUME Grow, NEW q, NEW u, RequestFits(q, u)
    PROVE  RequestFits(q, u)'
BY MembersStay, StoredStays DEF RequestFits

LEMMA RequestsStay ==
    ASSUME RowsInv, Grow, UNCHANGED request
    PROVE  RequestsInv'
BY FitsStay DEF RowsInv, RequestsInv

LEMMA RequestMoves ==
    ASSUME RowsInv, Grow, NEW u \in Users, NEW q \in Requests,
           request' = [request EXCEPT ![u] = q], RequestFits(q, u)'
    PROVE  RequestsInv' /\ request' \in [Users -> Requests]
<1>1. request' \in [Users -> Requests]
  BY DEF RowsInv, Shape
<1>2. ASSUME NEW v \in Users, NEW r \in Requests, request'[v] = r
      PROVE  RequestFits(r, v)'
  <2>1. CASE v = u
    <3>1. r = q
      BY <1>2, <2>1 DEF RowsInv, Shape
    <3> QED BY <2>1, <3>1
  <2>2. CASE v # u
    <3>1. request[v] = r
      BY <1>2, <2>2 DEF RowsInv, Shape
    <3> QED BY <3>1, FitsStay DEF RowsInv, RequestsInv
  <2> QED BY <2>1, <2>2
<1> QED BY <1>1, <1>2 DEF RequestsInv

LEMMA IdleFits ==
    ASSUME NEW u
    PROVE  Idle \in Requests /\ RequestFits(Idle, u)'
BY DEF Idle, Requests, Kinds, RequestFits

LEMMA SendsStay ==
    ASSUME RowsInv, Grow, UNCHANGED sending,
           \A i \in DOMAIN message : message'[i].saved = message[i].saved
    PROVE  SendsInv'
BY DEF RowsInv, SendsInv, Grow

LEMMA WiresStay ==
    ASSUME RowsInv, Grow, UNCHANGED <<wire, asks>>
    PROVE  WiresInv'
BY MembersStay DEF RowsInv, WiresInv, Grow, OnWire

LEMMA MessagesStay ==
    ASSUME RowsInv, Grow, UNCHANGED message
    PROVE  MessagesInv'
BY MembersStay DEF RowsInv, MessagesInv

LEMMA MarkingKeepsMessages ==
    ASSUME RowsInv, NEW c, NEW u, message' = MarkedRead(c, u), UNCHANGED convo
    PROVE  MessagesInv'
BY MarkedReadIs DEF RowsInv, MessagesInv, Member, Stored

-----------------------------------------------------------------------------
LEMMA RowsInit == ASSUME Init PROVE RowsInv
<1>1. Shape
  BY DEF Init, Shape, Pages, Idle, Requests, Kinds, Sent, Sends
<1>2. RequestsInv
  BY DEF Init, RequestsInv, RequestFits, Idle
<1>3. MessagesInv /\ PagesInv /\ SendsInv /\ WiresInv
  BY DEF Init, MessagesInv, PagesInv, SendsInv, WiresInv, Sent, OnWire
<1> QED BY <1>1, <1>2, <1>3 DEF RowsInv

\* A request is answered by what the rows hold, or writes nothing.
LEMMA RowsRequest ==
    ASSUME RowsInv, NEW u \in Users,
           \/ \E p \in Pairs : LookFor(u, p)
           \/ Create(u) \/ Answer(u) \/ LoseAnswer(u)
           \/ \E c \in DOMAIN convo : History(u, c)
    PROVE  RowsInv' /\ Grow
<1> USE DEF Requests, Kinds
<1>0. \A c : Stored(c) \subseteq Nat
  BY DEF Stored, RowsInv, Shape
<1>1. \A v \in Users : request[v] \in Requests /\ RequestFits(request[v], v)
  BY DEF RowsInv, Shape, RequestsInv
<1>2. ASSUME NEW p \in Pairs, LookFor(u, p) PROVE RowsInv' /\ Grow
  <2>1. Grow
    BY <1>2, NothingGrows DEF LookFor
  <2>2. \E q \in Requests : request' = [request EXCEPT ![u] = q] /\ RequestFits(q, u)'
    <3>1. CASE Between(p) = {}
      <4> DEFINE q == [Idle EXCEPT !.kind = "create", !.with = p]
      <4>1. request' = [request EXCEPT ![u] = q] /\ u \in p
        BY <1>2, <3>1 DEF LookFor
      <4>2. q \in Requests /\ RequestFits(q, u)'
        BY <4>1 DEF Idle, RequestFits, Pairs
      <4> HIDE DEF q
      <4> QED BY <4>1, <4>2
    <3>2. CASE Between(p) # {}
      <4> PICK c \in Between(p) :
              request' = [request EXCEPT ![u] =
                 [Idle EXCEPT !.kind = "opened", !.convo = c, !.found = Stored(c)]]
        BY <1>2, <3>2 DEF LookFor
      <4> DEFINE q == [Idle EXCEPT !.kind = "opened", !.convo = c, !.found = Stored(c)]
      <4>0. u \in p
        BY <1>2 DEF LookFor
      <4>1. Member(c, u) /\ c \in Nat
        BY <4>0 DEF Between, Member, RowsInv, Shape
      <4>2. q \in Requests /\ RequestFits(q, u)
        BY <1>0, <4>1 DEF Idle, RequestFits
      <4> HIDE DEF q
      <4>3. request' = [request EXCEPT ![u] = q]
        BY DEF q
      <4> QED BY <2>1, <4>2, <4>3, FitsStay
    <3> QED BY <3>1, <3>2
  <2>3. RequestsInv' /\ request' \in [Users -> Requests]
    BY <2>1, <2>2, RequestMoves
  <2>4. UNCHANGED <<convo, message, page, sending, wire, asks>>
    BY <1>2 DEF LookFor
  <2> QED
    BY <2>1, <2>3, <2>4, PagesStay, SendsStay, WiresStay, MessagesStay DEF RowsInv, Shape
<1>3. ASSUME Create(u) PROVE RowsInv' /\ Grow
  <2> PICK n, q : n = Len(convo) + 1 /\ q = [Idle EXCEPT !.kind = "opened", !.convo = n]
    OBVIOUS
  <2>1. request[u].with \in Pairs /\ u \in request[u].with
    BY <1>1, <1>3 DEF Create, RequestFits
  <2>2. /\ convo' \in Seq(Pairs) /\ DOMAIN convo' = DOMAIN convo \cup {n}
        /\ convo'[n] = request[u].with
        /\ \A c \in DOMAIN convo : convo'[c] = convo[c]
        /\ n \in Nat
    BY <1>3, <2>1 DEF Create, RowsInv, Shape
  <2>3. Grow
    BY <1>3, <2>2 DEF Create, Grow
  <2>4. /\ q \in Requests /\ q.kind = "opened" /\ q.convo = n
        /\ q.with = {} /\ q.found = {}
    BY <2>2 DEF Idle
  <2>5. request' = [request EXCEPT ![u] = q] /\ UNCHANGED <<message, page, sending, wire, asks>>
    BY <1>3 DEF Create
  <2>7. Member(n, u)'
    BY <2>1, <2>2 DEF Member
  <2>8. RequestFits(q, u)'
    BY <2>4, <2>7 DEF RequestFits
  <2>6. RequestsInv' /\ request' \in [Users -> Requests]
    BY <2>3, <2>4, <2>5, <2>8, RequestMoves
  <2> QED
    BY <2>2, <2>3, <2>5, <2>6, PagesStay, SendsStay, WiresStay, MessagesStay DEF RowsInv, Shape
<1>4. ASSUME Answer(u) PROVE RowsInv' /\ Grow
  <2> PICK q : q = [request[u] EXCEPT !.kind = "history", !.found = Stored(request[u].convo)]
    OBVIOUS
  <2>1. Grow /\ UNCHANGED <<convo, message, page, sending, wire, asks>>
    BY <1>4, NothingGrows DEF Answer
  <2>2. request' = [request EXCEPT ![u] = q]
    BY <1>4 DEF Answer, RowsInv, Shape
  <2>3. /\ q \in Requests /\ q.kind = "history" /\ q.convo = request[u].convo
        /\ q.with = request[u].with /\ q.found = Stored(q.convo)
    BY <1>0, <1>1
  <2>5. Member(q.convo, u) /\ q.with = {}
    BY <1>1, <1>4, <2>3 DEF Answer, RequestFits
  <2>6. RequestFits(q, u)
    BY <2>3, <2>5 DEF RequestFits
  <2>4. RequestsInv' /\ request' \in [Users -> Requests]
    BY <2>1, <2>2, <2>3, <2>6, FitsStay, RequestMoves
  <2> QED
    BY <2>1, <2>4, PagesStay, SendsStay, WiresStay, MessagesStay DEF RowsInv, Shape
<1>5. ASSUME LoseAnswer(u) PROVE RowsInv' /\ Grow
  <2>1. Grow /\ UNCHANGED <<convo, message, page, sending, wire, asks>>
        /\ request' = [request EXCEPT ![u] = Idle]
    BY <1>5, NothingGrows DEF LoseAnswer
  <2>2. RequestsInv' /\ request' \in [Users -> Requests]
    BY <2>1, IdleFits, RequestMoves
  <2> QED
    BY <2>1, <2>2, PagesStay, SendsStay, WiresStay, MessagesStay DEF RowsInv, Shape
<1>6. ASSUME NEW c \in DOMAIN convo, History(u, c) PROVE RowsInv' /\ Grow
  <2> DEFINE q == [Idle EXCEPT !.kind = "marked", !.convo = c]
  <2>1. /\ message' = MarkedRead(c, u) /\ request' = [request EXCEPT ![u] = q]
        /\ UNCHANGED <<convo, page, sending, wire, asks>> /\ u \in convo[c]
    BY <1>6 DEF History
  <2>2. c \in Nat
    BY DEF RowsInv, Shape
  <2>3. /\ Grow /\ message' \in Seq(Rows) /\ DOMAIN message' = DOMAIN message
        /\ \A i \in DOMAIN message : message'[i].saved = message[i].saved
    BY <2>1, MarkedReadGrows DEF RowsInv
  <2>4. q \in Requests /\ RequestFits(q, u)'
    BY <2>1, <2>2 DEF Idle, RequestFits, Member
  <2> HIDE DEF q
  <2>5. RequestsInv' /\ request' \in [Users -> Requests]
    BY <2>1, <2>3, <2>4, RequestMoves
  <2>6. MessagesInv'
    BY <2>1, MarkingKeepsMessages
  <2> QED
    BY <2>1, <2>3, <2>5, <2>6, PagesStay, SendsStay, WiresStay DEF RowsInv, Shape
<1> QED BY <1>2, <1>3, <1>4, <1>5, <1>6

LEMMA PageMoves ==
    ASSUME RowsInv, Grow, NEW u \in Users, NEW p \in Pages, page' = [page EXCEPT ![u] = p],
           p.at # 0 => Member(p.at, u)', p.shown \subseteq DOMAIN message'
    PROVE  PagesInv' /\ page' \in [Users -> Pages]
<1>1. page' \in [Users -> Pages]
  BY DEF RowsInv, Shape
<1>2. ASSUME NEW v \in Users, NEW a, a = page'[v].at, a # 0 PROVE Member(a, v)'
  <2>1. CASE v = u
    BY <1>2, <2>1 DEF RowsInv, Shape
  <2>2. CASE v # u
    BY <1>2, <2>2, MembersStay DEF RowsInv, Shape, PagesInv
  <2> QED BY <2>1, <2>2
<1>3. ASSUME NEW v \in Users PROVE page'[v].shown \subseteq DOMAIN message'
  BY DEF RowsInv, Shape, PagesInv, Grow
<1> QED BY <1>1, <1>2, <1>3 DEF PagesInv, Member

LEMMA ShowIs ==
    ASSUME RowsInv, NEW u \in Users, Show(u)
    PROVE  \E c \in Nat, says \in BOOLEAN, p \in Pages :
              /\ c = request[u].convo /\ Member(c, u)
              /\ request[u].kind \in {"opened", "history"}
              /\ page' = [page EXCEPT ![u] = p]
              /\ p.at = c /\ p.shown = page[u].shown \cup request[u].found
              /\ p.online = page[u].online
              /\ asks' = IF says THEN [asks EXCEPT ![u] = @ \cup {c}] ELSE asks
              /\ unsaid' = IF says THEN unsaid
                           ELSE unsaid \cup {i \in request[u].found : ~message[i].read}
              /\ request' = [request EXCEPT ![u] = Idle]
              /\ UNCHANGED <<convo, message, sending, wire, missed>>
<1> PICK c, says, p :
        /\ c = request[u].convo
        /\ says = (request[u].kind = "history" /\ page[u].online)
        /\ p = [page[u] EXCEPT !.at = c, !.shown = @ \cup request[u].found]
  OBVIOUS
<1>1. request[u] \in Requests /\ page[u] \in Pages
  BY DEF RowsInv, Shape
<1>2. c \in Nat /\ request[u].found \subseteq Nat /\ request[u].kind \in {"opened", "history"}
  BY <1>1 DEF Requests, Show
<1>3. Member(c, u)
  BY <1>1, <1>2 DEF RowsInv, RequestsInv, RequestFits
<1>4. /\ p \in Pages /\ p.at = c /\ p.shown = page[u].shown \cup request[u].found
      /\ p.online = page[u].online
  BY <1>1, <1>2 DEF Pages
<1>5. page' = [page EXCEPT ![u] = p]
  BY DEF Show, RowsInv, Shape
<1>7. says \in BOOLEAN
  OBVIOUS
<1>8. /\ asks' = IF says THEN [asks EXCEPT ![u] = @ \cup {c}] ELSE asks
      /\ unsaid' = IF says THEN unsaid ELSE unsaid \cup {i \in request[u].found : ~message[i].read}
      /\ request' = [request EXCEPT ![u] = Idle]
      /\ UNCHANGED <<convo, message, sending, wire, missed>>
  BY DEF Show
<1> QED BY <1>2, <1>3, <1>4, <1>5, <1>7, <1>8

LEMMA TakeIs ==
    ASSUME RowsInv, NEW u \in Users, Take(u)
    PROVE  \E i \in DOMAIN message, c \in Nat, p \in Pages :
              /\ c = message[i].convo /\ i \in OnWire(u)
              /\ wire' \in [Users -> Seq(Nat)]
              /\ OnWire(u) = OnWire(u)' \cup {i}
              /\ \A v \in Users : v # u => OnWire(v)' = OnWire(v)
              /\ \/ /\ page[u].at = c
                    /\ page' = [page EXCEPT ![u] = p]
                    /\ p.at = c /\ p.shown = page[u].shown \cup {i} /\ p.online = page[u].online
                    /\ asks' = [asks EXCEPT ![u] = @ \cup {c}]
                    /\ unsaid' = IF message[i].saved THEN unsaid ELSE unsaid \cup {i}
                    /\ UNCHANGED missed
                 \/ /\ page[u].at # c
                    /\ missed' = IF \/ request[u].convo = c /\ request[u].kind # "marked"
                                    \/ c \in asks[u] \/ message[i].read
                                    \/ ~message[i].saved
                                 THEN missed \cup {i} ELSE missed
                    /\ UNCHANGED <<page, asks, unsaid>>
              /\ UNCHANGED <<convo, message, request, sending>>
<1> PICK i, c, p :
        /\ i = Head(wire[u]) /\ c = message[i].convo
        /\ p = [page[u] EXCEPT !.shown = @ \cup {i}]
  OBVIOUS
<1>1. wire[u] \in Seq(Nat) /\ wire[u] # << >> /\ wire' = [wire EXCEPT ![u] = Tail(wire[u])]
  BY DEF Take, RowsInv, Shape
<1>2. Tail(wire[u]) \in Seq(Nat) /\ Elements(wire[u]) = Elements(Tail(wire[u])) \cup {i}
  BY <1>1, WireTake
<1>3. OnWire(u) = Elements(wire[u]) /\ OnWire(u)' = Elements(Tail(wire[u]))
  BY <1>1 DEF OnWire, Elements, RowsInv, Shape
<1>4. \A v \in Users : v # u => OnWire(v)' = OnWire(v)
  BY <1>1 DEF OnWire, RowsInv, Shape
<1>5. i \in OnWire(u) /\ i \in DOMAIN message
  BY <1>2, <1>3 DEF RowsInv, WiresInv
<1>6. c \in Nat /\ i \in Nat
  <2>1. message[i] \in Rows /\ i \in Nat
    BY <1>5 DEF RowsInv, Shape
  <2> QED BY <2>1 DEF Rows
<1>7. wire' \in [Users -> Seq(Nat)]
  BY <1>1, <1>2 DEF RowsInv, Shape
<1>8. /\ p \in Pages /\ p.at = page[u].at /\ p.shown = page[u].shown \cup {i}
      /\ p.online = page[u].online
  <2>1. page[u] \in Pages
    BY DEF RowsInv, Shape
  <2> QED BY <1>6, <2>1 DEF Pages
<1>9. CASE page[u].at = c
  <2>1. page' = [page EXCEPT ![u] = p]
    BY <1>9 DEF Take, RowsInv, Shape
  <2>3. /\ asks' = [asks EXCEPT ![u] = @ \cup {c}]
        /\ unsaid' = IF message[i].saved THEN unsaid ELSE unsaid \cup {i}
        /\ UNCHANGED missed /\ UNCHANGED <<convo, message, request, sending>>
    BY <1>9 DEF Take
  <2> QED BY <1>2, <1>3, <1>4, <1>5, <1>6, <1>7, <1>8, <1>9, <2>1, <2>3
<1>10. CASE page[u].at # c
  <2>1. /\ missed' = IF \/ request[u].convo = c /\ request[u].kind # "marked"
                        \/ c \in asks[u] \/ message[i].read
                        \/ ~message[i].saved
                     THEN missed \cup {i} ELSE missed
        /\ UNCHANGED <<page, asks, unsaid>> /\ UNCHANGED <<convo, message, request, sending>>
    BY <1>10 DEF Take
  <2> QED BY <1>2, <1>3, <1>4, <1>5, <1>6, <1>7, <1>8, <1>10, <2>1
<1> QED BY <1>9, <1>10

\* Message n, whose row is r, was written by u, who then sends s.
Written(u, upload, n, r, s) ==
    /\ n \notin DOMAIN message /\ DOMAIN message' = DOMAIN message \cup {n}
    /\ message' \in Seq(Rows) /\ message'[n] = r
    /\ \A i \in DOMAIN message : message'[i] = message[i]
    /\ r.convo = page[u].at /\ r.from = u /\ (r.saved <=> ~upload) /\ ~r.read
    /\ Member(r.convo, u)
    /\ sending[u] = Sent
    /\ sending' = [sending EXCEPT ![u] = s]
    /\ s.id = n /\ ~s.pushed /\ (s.upload <=> upload)
    /\ UNCHANGED <<convo, page, request, wire, asks, missed, unsaid>>
    /\ Grow

LEMMA WritesIs ==
    ASSUME RowsInv, NEW u \in Users, NEW upload \in BOOLEAN, Writes(u, upload)
    PROVE  \E n \in Nat \ {0}, r \in Rows, s \in Sends : Written(u, upload, n, r, s)
<1> PICK n, r, s :
        /\ n = Len(message) + 1
        /\ r = [convo |-> page[u].at, from |-> u, saved |-> ~upload, read |-> FALSE]
        /\ s = [id |-> n, pushed |-> FALSE, upload |-> upload]
  OBVIOUS
<1>1. page[u] \in Pages /\ Member(page[u].at, u)
  BY DEF RowsInv, Shape, PagesInv, Writes
<1>2. r \in Rows /\ s \in Sends /\ n \in Nat \ {0}
  BY <1>1 DEF Rows, Sends, Pages, RowsInv, Shape
<1>3. message' = Append(message, r) /\ sending' = [sending EXCEPT ![u] = s]
      /\ sending[u] = Sent /\ UNCHANGED <<convo, page, request, wire, asks, missed, unsaid>>
  BY DEF Writes
<1>4. /\ n \notin DOMAIN message /\ DOMAIN message' = DOMAIN message \cup {n}
      /\ message' \in Seq(Rows) /\ message'[n] = r
      /\ \A i \in DOMAIN message : message'[i] = message[i]
  BY <1>2, <1>3 DEF RowsInv, Shape
<1>5. Grow
  BY <1>3, <1>4 DEF Grow
<1>6. /\ r.convo = page[u].at /\ r.from = u /\ (r.saved <=> ~upload) /\ ~r.read
      /\ s.id = n /\ ~s.pushed /\ (s.upload <=> upload)
  OBVIOUS
<1>7. Written(u, upload, n, r, s)
  BY <1>1, <1>2, <1>3, <1>4, <1>5, <1>6 DEF Written
<1> QED BY <1>2, <1>7

LEMMA RowsShow ==
    ASSUME RowsInv, NEW u \in Users, Show(u)
    PROVE  RowsInv' /\ Grow
<1> PICK c \in Nat, says \in BOOLEAN, p \in Pages :
        /\ Member(c, u)
        /\ page' = [page EXCEPT ![u] = p]
        /\ p.at = c /\ p.shown = page[u].shown \cup request[u].found
        /\ asks' = IF says THEN [asks EXCEPT ![u] = @ \cup {c}] ELSE asks
        /\ request' = [request EXCEPT ![u] = Idle]
        /\ UNCHANGED <<convo, message, sending, wire>>
  BY ShowIs
<1>1. Grow
  BY NothingGrows
<1>2. RequestsInv' /\ request' \in [Users -> Requests]
  BY <1>1, IdleFits, RequestMoves
<1>3. request[u].found \subseteq DOMAIN message
  BY DEF RowsInv, Shape, RequestsInv, RequestFits, Stored
<1>4. PagesInv' /\ page' \in [Users -> Pages]
  <2>1. p.shown \subseteq DOMAIN message'
    BY <1>3 DEF RowsInv, PagesInv
  <2>2. Member(p.at, u)'
    BY DEF Member
  <2> QED BY <1>1, <2>1, <2>2, PageMoves
<1>5. WiresInv' /\ asks' \in [Users -> SUBSET Nat]
  BY DEF RowsInv, Shape, WiresInv, OnWire, Member
<1> QED BY <1>1, <1>2, <1>4, <1>5, SendsStay, MessagesStay DEF RowsInv, Shape

LEMMA RowsTake ==
    ASSUME RowsInv, NEW u \in Users, Take(u)
    PROVE  RowsInv' /\ Grow
<1> PICK i \in DOMAIN message, c \in Nat, p \in Pages :
        /\ c = message[i].convo
        /\ wire' \in [Users -> Seq(Nat)]
        /\ OnWire(u) = OnWire(u)' \cup {i}
        /\ \A v \in Users : v # u => OnWire(v)' = OnWire(v)
        /\ \/ /\ page[u].at = c
              /\ page' = [page EXCEPT ![u] = p]
              /\ p.at = c /\ p.shown = page[u].shown \cup {i}
              /\ asks' = [asks EXCEPT ![u] = @ \cup {c}]
           \/ UNCHANGED <<page, asks>>
        /\ UNCHANGED <<convo, message, request, sending>>
  BY TakeIs
<1>1. Grow
  BY NothingGrows
<1>2. PagesInv' /\ page' \in [Users -> Pages] /\ asks' \in [Users -> SUBSET Nat]
  <2>1. CASE UNCHANGED <<page, asks>>
    BY <1>1, <2>1, PagesStay DEF RowsInv, Shape
  <2>2. CASE /\ page[u].at = c
             /\ page' = [page EXCEPT ![u] = p]
             /\ p.at = c /\ p.shown = page[u].shown \cup {i}
             /\ asks' = [asks EXCEPT ![u] = @ \cup {c}]
    <3>1. p.shown \subseteq DOMAIN message'
      BY <2>2 DEF RowsInv, PagesInv
    <3>2. p.at # 0 => Member(p.at, u)'
      BY <2>2 DEF RowsInv, PagesInv, Member
    <3>3. asks' \in [Users -> SUBSET Nat]
      BY <2>2 DEF RowsInv, Shape
    <3> QED BY <1>1, <2>2, <3>1, <3>2, <3>3, PageMoves
  <2> QED BY <2>1, <2>2
<1>3. WiresInv'
  <2>1. \A v \in Users : OnWire(v)' \subseteq OnWire(v)
    OBVIOUS
  <2>2. ASSUME NEW v \in Users, NEW d \in asks'[v] PROVE Member(d, v)'
    <3>1. CASE d \in asks[v]
      BY <3>1 DEF RowsInv, WiresInv, Member
    <3>2. CASE d \notin asks[v]
      <4>1. v = u /\ d = c /\ page[u].at = c
        BY <2>2, <3>2 DEF RowsInv, Shape
      <4>2. c \in DOMAIN convo /\ c # 0
        BY DEF RowsInv, MessagesInv, Member, Shape
      <4> QED BY <4>1, <4>2 DEF RowsInv, PagesInv, Member
    <3> QED BY <3>1, <3>2
  <2> QED BY <2>1, <2>2 DEF RowsInv, WiresInv, Member
<1> QED BY <1>1, <1>2, <1>3, RequestsStay, SendsStay, MessagesStay DEF RowsInv, Shape

LEMMA RowsWrites ==
    ASSUME RowsInv, NEW u \in Users, NEW upload \in BOOLEAN, Writes(u, upload)
    PROVE  RowsInv' /\ Grow
<1> PICK n \in Nat \ {0}, r \in Rows, s \in Sends : Written(u, upload, n, r, s)
  BY WritesIs
<1> USE DEF Written
<1>1. MessagesInv'
  BY DEF RowsInv, MessagesInv, Member
<1>2. SendsInv' /\ sending' \in [Users -> Sends]
  BY DEF RowsInv, Shape, SendsInv
<1> QED BY <1>1, <1>2, PagesStay, RequestsStay, WiresStay DEF RowsInv, Shape

\* Sending u goes on, or ends; no message is written.
LEMMA SendMoves ==
    ASSUME RowsInv, NEW u \in Users, NEW s \in Sends, sending' = [sending EXCEPT ![u] = s],
           UNCHANGED message,
           s.id \in {0, sending[u].id}, s.upload => sending[u].upload /\ s.id # 0,
           s.pushed => s.upload
    PROVE  SendsInv' /\ sending' \in [Users -> Sends]
BY DEF RowsInv, Shape, SendsInv

LEMMA PushIs ==
    ASSUME RowsInv, NEW u \in Users, Push(u)
    PROVE  \E i \in DOMAIN message, s \in Sends, v \in Users :
              /\ i = sending[u].id /\ ~sending[u].pushed /\ i # 0
              /\ sending' = [sending EXCEPT ![u] = s]
              /\ IF sending[u].upload THEN s.id = i /\ s.pushed /\ s.upload ELSE s = Sent
              /\ wire' \in [Users -> Seq(Nat)]
              /\ v = Reader(i)
              /\ \/ /\ OnWire(v)' = OnWire(v) \cup {i}
                    /\ \A w \in Users : w # v => OnWire(w)' = OnWire(w)
                    /\ UNCHANGED missed
                 \/ UNCHANGED wire /\ missed' = missed \cup {i}
              /\ UNCHANGED <<convo, message, page, request, asks, unsaid>>
<1> PICK i, s, v :
        /\ i = sending[u].id /\ v = Reader(i)
        /\ s = IF sending[u].upload THEN [sending[u] EXCEPT !.pushed = TRUE] ELSE Sent
  OBVIOUS
<1>1. sending[u] \in Sends /\ i \in DOMAIN message /\ i # 0 /\ ~sending[u].pushed
  BY DEF RowsInv, Shape, SendsInv, Push
<1>2. i \in Nat
  BY <1>1 DEF Sends
<1>3. /\ s \in Sends
      /\ IF sending[u].upload THEN s.id = i /\ s.pushed /\ s.upload ELSE s = Sent
  BY <1>1 DEF Sends, Sent
<1>4. sending' = [sending EXCEPT ![u] = s]
  BY DEF Push, RowsInv, Shape
<1>5. v \in Users
  <2>1. convo[message[i].convo] \in Pairs /\ message[i].from \in convo[message[i].convo]
    BY <1>1 DEF RowsInv, Shape, MessagesInv, Member
  <2> QED BY <2>1, ReaderIs
<1>6. UNCHANGED <<convo, message, page, request, asks, unsaid>>
  BY DEF Push
<1>7. CASE page[v].online
  <2>1. wire' = [wire EXCEPT ![v] = Append(@, i)] /\ UNCHANGED missed
    BY <1>7 DEF Push
  <2>2. wire[v] \in Seq(Nat)
    BY <1>5 DEF RowsInv, Shape
  <2>3. Append(wire[v], i) \in Seq(Nat) /\ Elements(Append(wire[v], i)) = Elements(wire[v]) \cup {i}
    BY <1>2, <2>2, WirePut
  <2>4. wire' \in [Users -> Seq(Nat)]
    BY <2>1, <2>3 DEF RowsInv, Shape
  <2>5. OnWire(v)' = OnWire(v) \cup {i}
    <3>1. wire'[v] = Append(wire[v], i)
      BY <1>5, <2>1 DEF RowsInv, Shape
    <3> QED BY <2>3, <3>1 DEF OnWire, Elements
  <2>6. \A w \in Users : w # v => OnWire(w)' = OnWire(w)
    BY <2>1 DEF OnWire, RowsInv, Shape
  <2> QED BY <1>1, <1>3, <1>4, <1>5, <1>6, <2>1, <2>4, <2>5, <2>6
<1>8. CASE ~page[v].online
  <2>1. UNCHANGED wire /\ missed' = missed \cup {i}
    BY <1>8 DEF Push
  <2> QED BY <1>1, <1>3, <1>4, <1>5, <1>6, <2>1 DEF RowsInv, Shape
<1> QED BY <1>7, <1>8

LEMMA RowsPush ==
    ASSUME RowsInv, NEW u \in Users, Push(u)
    PROVE  RowsInv' /\ Grow
<1> PICK i \in DOMAIN message, s \in Sends, v \in Users :
        /\ i = sending[u].id /\ i # 0
        /\ sending' = [sending EXCEPT ![u] = s]
        /\ IF sending[u].upload THEN s.id = i /\ s.pushed /\ s.upload ELSE s = Sent
        /\ wire' \in [Users -> Seq(Nat)]
        /\ \/ /\ OnWire(v)' = OnWire(v) \cup {i}
              /\ \A w \in Users : w # v => OnWire(w)' = OnWire(w)
           \/ UNCHANGED wire
        /\ UNCHANGED <<convo, message, page, request, asks>>
  BY PushIs
<1>1. Grow
  BY NothingGrows
<1>2. SendsInv' /\ sending' \in [Users -> Sends]
  BY SendMoves DEF Sent
<1>3. WiresInv'
  <2>1. UNCHANGED wire => \A w \in Users : OnWire(w)' = OnWire(w)
    BY DEF OnWire
  <2>2. \A w \in Users : OnWire(w)' \subseteq OnWire(w) \cup {i}
    BY <2>1
  <2> QED BY <2>2 DEF RowsInv, WiresInv, Member
<1> QED BY <1>1, <1>2, <1>3, PagesStay, RequestsStay, MessagesStay DEF RowsInv, Shape

LEMMA EndUploadIs ==
    ASSUME RowsInv, NEW u \in Users, EndUpload(u)
    PROVE  \E i \in DOMAIN message :
              /\ i = sending[u].id /\ i # 0 /\ ~message[i].saved /\ sending[u].upload
              /\ sending' = [sending EXCEPT ![u] = Sent]
              /\ message' \in Seq(Rows) /\ DOMAIN message' = DOMAIN message
              /\ \A j \in DOMAIN message :
                    /\ message'[j].convo = message[j].convo /\ message'[j].from = message[j].from
                    /\ message'[j].read = message[j].read
                    /\ message[j].saved => message'[j].saved
                    /\ j # i => message'[j].saved = message[j].saved
              /\ message'[i].saved => sending[u].pushed
              /\ UNCHANGED <<convo, page, request, wire, asks, missed, unsaid>>
              /\ Grow
<1> PICK i : i = sending[u].id
  OBVIOUS
<1>1. i \in DOMAIN message /\ i # 0 /\ ~message[i].saved /\ sending[u].upload
  BY DEF RowsInv, SendsInv, EndUpload
<1>2. /\ sending' = [sending EXCEPT ![u] = Sent]
      /\ UNCHANGED <<convo, page, request, wire, asks, missed, unsaid>>
  BY DEF EndUpload
<1>3. CASE message' = message
  <2>1. Grow
    BY <1>2, <1>3, NothingGrows
  <2>2. message' \in Seq(Rows)
    BY <1>3 DEF RowsInv, Shape
  <2> QED BY <1>1, <1>2, <1>3, <2>1, <2>2
<1>4. CASE sending[u].pushed /\ message' = [message EXCEPT ![i].saved = TRUE]
  <2> PICK r : r = [message[i] EXCEPT !.saved = TRUE]
    OBVIOUS
  <2>1. /\ r \in Rows /\ r.convo = message[i].convo /\ r.from = message[i].from
        /\ r.read = message[i].read /\ r.saved
    <3>1. message[i] \in Rows
      BY <1>1 DEF RowsInv, Shape
    <3> QED BY <3>1 DEF Rows
  <2>2. message' = [message EXCEPT ![i] = r]
    BY <1>4
  <2>3. /\ message' \in Seq(Rows) /\ DOMAIN message' = DOMAIN message
        /\ message'[i] = r /\ \A j \in DOMAIN message : j # i => message'[j] = message[j]
    BY <1>1, <2>1, <2>2 DEF RowsInv, Shape
  <2>4. Grow
    BY <1>2, <2>1, <2>3 DEF Grow
  <2> QED BY <1>1, <1>2, <1>4, <2>1, <2>3, <2>4
<1> QED BY <1>3, <1>4 DEF EndUpload

LEMMA RowsEndUpload ==
    ASSUME RowsInv, NEW u \in Users, EndUpload(u)
    PROVE  RowsInv' /\ Grow
<1> PICK i \in DOMAIN message :
        /\ i = sending[u].id /\ i # 0 /\ ~message[i].saved
        /\ sending' = [sending EXCEPT ![u] = Sent]
        /\ message' \in Seq(Rows) /\ DOMAIN message' = DOMAIN message
        /\ \A j \in DOMAIN message :
              /\ message'[j].convo = message[j].convo /\ message'[j].from = message[j].from
              /\ message'[j].read = message[j].read
              /\ message[j].saved => message'[j].saved
              /\ j # i => message'[j].saved = message[j].saved
        /\ UNCHANGED <<convo, page, request, wire, asks>>
        /\ Grow
  BY EndUploadIs
<1>1. MessagesInv'
  BY DEF RowsInv, MessagesInv, Member
<1>2. SendsInv' /\ sending' \in [Users -> Sends]
  <2>1. Sent \in Sends /\ Sent.id = 0 /\ ~Sent.upload /\ ~Sent.pushed
    BY DEF Sent, Sends
  <2>2. \A v \in Users : sending'[v] = IF v = u THEN Sent ELSE sending[v]
    BY DEF RowsInv, Shape
  <2>3. \A v \in Users : v # u => sending[v].id # i
    BY DEF RowsInv, SendsInv
  <2>4. SendsInv'
    BY <2>1, <2>2, <2>3 DEF RowsInv, SendsInv
  <2> QED BY <2>1, <2>4 DEF RowsInv, Shape
<1> QED BY <1>1, <1>2, PagesStay, RequestsStay, WiresStay DEF RowsInv, Shape

LEMMA RowsHandleRead ==
    ASSUME RowsInv, NEW u \in Users, NEW c \in DOMAIN convo, HandleRead(u, c)
    PROVE  RowsInv' /\ Grow
<1>1. /\ message' = MarkedRead(c, u) /\ asks' = [asks EXCEPT ![u] = @ \ {c}]
      /\ UNCHANGED <<convo, page, request, sending, wire>>
  BY DEF HandleRead
<1>2. /\ Grow /\ message' \in Seq(Rows) /\ DOMAIN message' = DOMAIN message
      /\ \A i \in DOMAIN message : message'[i].saved = message[i].saved
  BY <1>1, MarkedReadGrows DEF RowsInv
<1>3. MessagesInv'
  BY <1>1, MarkingKeepsMessages
<1>4. asks' \in [Users -> SUBSET Nat] /\ \A v \in Users : asks'[v] \subseteq asks[v]
  BY <1>1 DEF RowsInv, Shape
<1>5. WiresInv'
  BY <1>1, <1>2, <1>4 DEF RowsInv, WiresInv, OnWire, Member
<1> QED
  BY <1>1, <1>2, <1>3, <1>4, <1>5, PagesStay, RequestsStay, SendsStay DEF RowsInv, Shape

\* A page that leaves its thread, or goes offline or online.
LEMMA RowsPage ==
    ASSUME RowsInv, NEW u \in Users, Leave(u) \/ Reconnect(u)
    PROVE  RowsInv' /\ Grow
<1>1. page[u] \in Pages
  BY DEF RowsInv, Shape
<1>2. PICK p \in Pages : /\ page' = [page EXCEPT ![u] = p]
                         /\ p.at \in {0, page[u].at} /\ p.shown = page[u].shown
  <2>1. CASE Leave(u)
    <3> PICK p : p = [page[u] EXCEPT !.at = 0]
      OBVIOUS
    <3>1. p \in Pages /\ p.at = 0 /\ p.shown = page[u].shown
      BY <1>1 DEF Pages
    <3> QED BY <2>1, <3>1 DEF Leave
  <2>2. CASE Reconnect(u)
    <3> PICK p : p = [page[u] EXCEPT !.online = TRUE]
      OBVIOUS
    <3>1. p \in Pages /\ p.at = page[u].at /\ p.shown = page[u].shown
      BY <1>1 DEF Pages
    <3> QED BY <2>2, <3>1 DEF Reconnect
  <2> QED BY <2>1, <2>2
<1>3. UNCHANGED <<convo, message, request, sending, wire, asks>>
  BY DEF Leave, Reconnect
<1>4. Grow
  BY <1>3, NothingGrows
<1>5. PagesInv' /\ page' \in [Users -> Pages]
  <2>1. p.at # 0 => Member(p.at, u)'
    BY <1>2, <1>3 DEF RowsInv, PagesInv, Member
  <2>2. p.shown \subseteq DOMAIN message'
    BY <1>2, <1>3 DEF RowsInv, PagesInv
  <2> QED BY <1>2, <1>4, <2>1, <2>2, PageMoves
<1> QED BY <1>3, <1>4, <1>5, RequestsStay, SendsStay, WiresStay, MessagesStay DEF RowsInv, Shape

LEMMA RowsClose ==
    ASSUME RowsInv, NEW u \in Users, Close(u)
    PROVE  RowsInv' /\ Grow
<1>1. page[u] \in Pages
  BY DEF RowsInv, Shape
<1> PICK p : p = [page[u] EXCEPT !.online = FALSE]
  OBVIOUS
<1>2. p \in Pages /\ p.at = page[u].at /\ p.shown = page[u].shown
  BY <1>1 DEF Pages
<1>3. /\ page' = [page EXCEPT ![u] = p] /\ wire' = [wire EXCEPT ![u] = << >>]
      /\ asks' = [asks EXCEPT ![u] = {}]
      /\ sending' = sending \/ sending' = [sending EXCEPT ![u] = Sent]
      /\ UNCHANGED <<convo, message, request>>
  BY DEF Close
<1>4. Grow
  BY <1>3, NothingGrows
<1>5. PagesInv' /\ page' \in [Users -> Pages]
  <2>1. p.at # 0 => Member(p.at, u)'
    BY <1>2, <1>3 DEF RowsInv, PagesInv, Member
  <2>2. p.shown \subseteq DOMAIN message'
    BY <1>2, <1>3 DEF RowsInv, PagesInv
  <2> QED BY <1>2, <1>3, <1>4, <2>1, <2>2, PageMoves
<1>6. SendsInv' /\ sending' \in [Users -> Sends]
  <2>1. CASE sending' = sending
    BY <1>3, <1>4, <2>1, SendsStay DEF RowsInv, Shape
  <2>2. CASE sending' = [sending EXCEPT ![u] = Sent]
    <3>1. Sent \in Sends /\ Sent.id = 0 /\ ~Sent.upload /\ ~Sent.pushed
      BY DEF Sent, Sends
    <3> QED BY <1>3, <2>2, <3>1, SendMoves
  <2> QED BY <1>3, <2>1, <2>2
<1>7. wire' \in [Users -> Seq(Nat)] /\ asks' \in [Users -> SUBSET Nat]
  BY <1>3 DEF RowsInv, Shape
<1>8. WiresInv'
  <2>1. \A v \in Users : OnWire(v)' \subseteq OnWire(v)
    BY <1>3 DEF OnWire, RowsInv, Shape
  <2>2. \A v \in Users : asks'[v] \subseteq asks[v]
    BY <1>3 DEF RowsInv, Shape
  <2> QED BY <1>3, <2>1, <2>2 DEF RowsInv, WiresInv, Member
<1> QED BY <1>3, <1>4, <1>5, <1>6, <1>7, <1>8, RequestsStay, MessagesStay DEF RowsInv, Shape

LEMMA RowsStep ==
    ASSUME RowsInv, Next
    PROVE  RowsInv' /\ Grow
<1>1. ASSUME NEW u \in Users, SendText(u) \/ Upload(u) PROVE RowsInv' /\ Grow
  BY <1>1, RowsWrites DEF SendText, Upload
<1> QED
  BY <1>1, RowsRequest, RowsShow, RowsTake, RowsPush, RowsEndUpload, RowsHandleRead,
     RowsPage, RowsClose
  DEF Next

LEMMA RowsStutter ==
    ASSUME RowsInv, UNCHANGED vars
    PROVE  RowsInv'
<1>1. Grow /\ UNCHANGED <<convo, message, page, request, sending, wire, asks>>
  BY NothingGrows DEF vars
<1> QED
  BY <1>1, PagesStay, RequestsStay, SendsStay, WiresStay, MessagesStay DEF RowsInv, Shape

\* The types of what the database and the pages hold, and the references among it.
THEOREM RowsCorrect == Spec => []RowsInv
<1>1. RowsInv /\ [Next]_vars => RowsInv'
  BY RowsStep, RowsStutter
<1> QED BY <1>1, RowsInit, PTL DEF Spec

-----------------------------------------------------------------------------
(***************************************************************************)
(* One conversation for each pair.                                         *)
(***************************************************************************)

ThreadInv ==
    \A p \in Pairs \ twice :
        /\ \A c, d \in DOMAIN convo : convo[c] = p /\ convo[d] = p => c = d
        /\ \A u, v \in Users : request[u].with = p /\ request[v].with = p => u = v
        /\ \A u \in Users, c \in DOMAIN convo : request[u].with = p => convo[c] # p

LEMMA ThreadInit == ASSUME Init PROVE ThreadInv
<1>1. convo = << >> /\ DOMAIN convo = {}
  BY DEF Init
<1>2. \A u \in Users : request[u].with = {}
  BY DEF Init, Idle
<1> QED BY <1>1, <1>2, NoPairIsEmpty DEF ThreadInv

\* Nobody begins to create a conversation.
LEMMA ThreadStays ==
    ASSUME ThreadInv, UNCHANGED <<convo, twice>>,
           \A v \in Users : request'[v].with \in {{}, request[v].with}
    PROVE  ThreadInv'
<1>1. \A v \in Users, p \in Pairs : request'[v].with = p => request[v].with = p
  BY NoPairIsEmpty
<1> QED BY <1>1 DEF ThreadInv

LEMMA ThreadStep ==
    ASSUME RowsInv, ThreadInv, Next
    PROVE  ThreadInv'
<1>0. /\ \A v \in Users : request[v] \in Requests /\ RequestFits(request[v], v)
      /\ request \in [Users -> Requests]
  BY DEF RowsInv, Shape, RequestsInv
<1>1. ASSUME NEW u \in Users, NEW p \in Pairs, LookFor(u, p) PROVE ThreadInv'
  <2>1. CASE Between(p) = {}
    <3> PICK q : q = [Idle EXCEPT !.kind = "create", !.with = p]
      OBVIOUS
    <3>1. /\ request' = [request EXCEPT ![u] = q] /\ q.with = p /\ UNCHANGED convo
          /\ twice' = twice \cup {r \in {p} : \E v \in Users : request[v].with = r}
      BY <1>1, <2>1 DEF LookFor, Idle
    <3>2. \A v \in Users : request'[v] = IF v = u THEN q ELSE request[v]
      BY <1>0, <3>1
    <3>3. \A c \in DOMAIN convo : convo[c] # p
      BY <2>1 DEF Between
    <3>4. p \in twice' \/ \A v \in Users : request[v].with # p
      BY <3>1
    <3> QED BY <3>1, <3>2, <3>3, <3>4 DEF ThreadInv
  <2>2. CASE Between(p) # {}
    <3> PICK c \in Between(p) :
            /\ request' = [request EXCEPT ![u] =
                   [Idle EXCEPT !.kind = "opened", !.convo = c, !.found = Stored(c)]]
            /\ UNCHANGED <<convo, twice>>
      BY <1>1, <2>2 DEF LookFor
    <3> PICK q : q = [Idle EXCEPT !.kind = "opened", !.convo = c, !.found = Stored(c)]
      OBVIOUS
    <3>1. q.with = {}
      BY DEF Idle
    <3> QED BY <1>0, <3>1, ThreadStays
  <2> QED BY <2>1, <2>2
<1>2. ASSUME NEW u \in Users, Create(u) PROVE ThreadInv'
  <2> PICK n, q : n = Len(convo) + 1 /\ q = [Idle EXCEPT !.kind = "opened", !.convo = n]
    OBVIOUS
  <2>1. /\ request' = [request EXCEPT ![u] = q] /\ q.with = {}
        /\ convo' = Append(convo, request[u].with) /\ UNCHANGED twice
    BY <1>2 DEF Create, Idle
  <2>2. request[u].with \in Pairs
    BY <1>0, <1>2 DEF Create, RequestFits
  <2>3. /\ DOMAIN convo' = DOMAIN convo \cup {n} /\ convo'[n] = request[u].with
        /\ \A c \in DOMAIN convo : convo'[c] = convo[c]
    BY <2>1, <2>2 DEF RowsInv, Shape
  <2>4. \A v \in Users : request'[v] = IF v = u THEN q ELSE request[v]
    BY <1>0, <2>1
  <2>5. \A v \in Users, p \in Pairs : request'[v].with = p => v # u /\ request[v].with = p
    BY <2>1, <2>4, NoPairIsEmpty
  <2> SUFFICES ASSUME NEW p \in Pairs, p \notin twice
               PROVE  /\ \A c, d \in DOMAIN convo' : convo'[c] = p /\ convo'[d] = p => c = d
                      /\ \A v, w \in Users :
                            request'[v].with = p /\ request'[w].with = p => v = w
                      /\ \A v \in Users, c \in DOMAIN convo' :
                            request'[v].with = p => convo'[c] # p
    BY <2>1 DEF ThreadInv
  <2>6. \A c, d \in DOMAIN convo' : convo'[c] = p /\ convo'[d] = p => c = d
    BY <2>3 DEF ThreadInv
  <2>7. \A v, w \in Users : request'[v].with = p /\ request'[w].with = p => v = w
    BY <2>5 DEF ThreadInv
  <2>8. \A v \in Users, c \in DOMAIN convo' : request'[v].with = p => convo'[c] # p
    BY <2>3, <2>5 DEF ThreadInv
  <2> QED BY <2>6, <2>7, <2>8
<1>3. ASSUME NEW u \in Users, NEW c \in DOMAIN convo, History(u, c) PROVE ThreadInv'
  <2> PICK q : q = [Idle EXCEPT !.kind = "marked", !.convo = c]
    OBVIOUS
  <2>1. q.with = {} /\ request' = [request EXCEPT ![u] = q] /\ UNCHANGED <<convo, twice>>
    BY <1>3 DEF History, Idle
  <2> QED BY <1>0, <2>1, ThreadStays
<1>4. ASSUME NEW u \in Users, Answer(u) PROVE ThreadInv'
  <2> PICK q : q = [request[u] EXCEPT !.kind = "history", !.found = Stored(request[u].convo)]
    OBVIOUS
  <2>1. request' = [request EXCEPT ![u] = q] /\ UNCHANGED <<convo, twice>>
    BY <1>0, <1>4 DEF Answer
  <2>2. q.with = request[u].with
    BY <1>0 DEF Requests
  <2> QED BY <1>0, <2>1, <2>2, ThreadStays
<1>5. ASSUME NEW u \in Users, Show(u) \/ LoseAnswer(u) PROVE ThreadInv'
  <2>1. Idle.with = {} /\ request' = [request EXCEPT ![u] = Idle] /\ UNCHANGED <<convo, twice>>
    BY <1>5 DEF Show, LoseAnswer, Idle
  <2> QED BY <1>0, <2>1, ThreadStays
<1>6. ASSUME NEW u \in Users,
             \/ Leave(u) \/ SendText(u) \/ Upload(u) \/ Push(u) \/ EndUpload(u) \/ Take(u)
             \/ Close(u) \/ Reconnect(u) \/ \E c \in DOMAIN convo : HandleRead(u, c)
      PROVE  ThreadInv'
  <2>1. UNCHANGED <<convo, twice, request>>
    BY <1>6 DEF Leave, SendText, Upload, Writes, Push, EndUpload, Take, Close, Reconnect,
                HandleRead
  <2> QED BY <2>1, ThreadStays
<1> QED BY <1>1, <1>2, <1>3, <1>4, <1>5, <1>6 DEF Next

\* Two users have one conversation unless two requests created it at once, for
\* any users and however many conversations, messages and requests there are.
THEOREM ThreadIsOne == Spec => []OneThread
<1>1. RowsInv /\ ThreadInv /\ [Next]_vars => ThreadInv'
  BY ThreadStep, ThreadStays DEF vars
<1>2. ThreadInv => OneThread
  <2> SUFFICES ASSUME ThreadInv, NEW p \in Pairs, p \notin twice
               PROVE  Cardinality(Between(p)) <= 1
    BY DEF OneThread
  <2>1. CASE Between(p) = {}
    BY <2>1, FS_EmptySet
  <2>2. CASE Between(p) # {}
    <3>1. PICK c \in Between(p) : TRUE
      BY <2>2
    <3>2. Between(p) = {c}
      BY <3>1 DEF ThreadInv, Between
    <3>3. Cardinality({c}) = 1
      BY FS_Singleton
    <3> QED BY <3>2, <3>3
  <2> QED BY <2>1, <2>2
<1> QED BY <1>1, <1>2, ThreadInit, RowsCorrect, PTL DEF Spec

-----------------------------------------------------------------------------
(***************************************************************************)
(* What was shown is said to be read.                                      *)
(***************************************************************************)

\* What a step leaves of the rows leaves their readers.
LEMMA ReadersStay ==
    ASSUME RowsInv, Grow, NEW i \in DOMAIN message
    PROVE  Reader(i)' = Reader(i) /\ Reader(i) \in Users /\ Reader(i) # message[i].from
<1>1. /\ message[i].convo \in DOMAIN convo /\ message[i].from \in convo[message[i].convo]
      /\ convo[message[i].convo] \in Pairs
  BY DEF RowsInv, MessagesInv, Member, Shape
<1>2. /\ message'[i].convo = message[i].convo /\ message'[i].from = message[i].from
      /\ convo'[message[i].convo] = convo[message[i].convo]
  BY <1>1 DEF Grow
<1> QED BY <1>1, <1>2, ReaderIs DEF Reader

LEMMA ReadersAre ==
    ASSUME RowsInv, NEW i \in DOMAIN message
    PROVE  /\ Reader(i) \in Users /\ Reader(i) # message[i].from
           /\ \A v \in Users : Member(message[i].convo, v) /\ v # message[i].from => v = Reader(i)
<1>1. /\ message[i].convo \in DOMAIN convo /\ message[i].from \in convo[message[i].convo]
      /\ convo[message[i].convo] \in Pairs
  BY DEF RowsInv, MessagesInv, Member, Shape
<1> QED BY <1>1, ReaderIs DEF Member

\* ShownIsRead, and that a message on its reader's page which is not saved is excepted.
SaidInv ==
    \A i \in DOMAIN message, v \in Users :
        v = Reader(i) /\ i \in page[v].shown /\ i \notin unsaid =>
            /\ message[i].saved
            /\ message[i].read \/ message[i].convo \in asks[v]

LEMMA SaidInit == ASSUME Init PROVE SaidInv
BY DEF Init, SaidInv

\* Nothing new is shown, and nothing is taken back.
LEMMA SaidStays ==
    ASSUME RowsInv, SaidInv, Grow,
           \A v \in Users : page'[v].shown = page[v].shown,
           unsaid \subseteq unsaid',
           \A v \in Users : \A c \in asks[v] :
               \/ c \in asks'[v]
               \/ \A i \in page[v].shown :
                     message[i].convo = c => i \in unsaid'
    PROVE  SaidInv'
<1> SUFFICES ASSUME NEW i \in DOMAIN message', NEW v \in Users, v = Reader(i)',
                    i \in page'[v].shown, i \notin unsaid'
             PROVE  /\ message'[i].saved
                    /\ message'[i].read \/ message'[i].convo \in asks'[v]
  BY DEF SaidInv
<1>1. i \in DOMAIN message /\ i \in page[v].shown
  BY DEF RowsInv, PagesInv
<1>2. v = Reader(i)
  BY <1>1, ReadersStay
<1>3. message[i].saved /\ (message[i].read \/ message[i].convo \in asks[v])
  BY <1>1, <1>2 DEF SaidInv
<1> QED BY <1>1, <1>3 DEF Grow

LEMMA SaidStep ==
    ASSUME RowsInv, SaidInv, Next
    PROVE  SaidInv'
<1>0. Grow /\ RowsInv'
  BY RowsStep
<1>1. ASSUME NEW u \in Users, Show(u) PROVE SaidInv'
  <2> PICK c \in Nat, says \in BOOLEAN, p \in Pages :
        /\ c = request[u].convo
        /\ page' = [page EXCEPT ![u] = p]
        /\ p.at = c /\ p.shown = page[u].shown \cup request[u].found
        /\ asks' = IF says THEN [asks EXCEPT ![u] = @ \cup {c}] ELSE asks
        /\ unsaid' = IF says THEN unsaid
                     ELSE unsaid \cup {i \in request[u].found : ~message[i].read}
        /\ UNCHANGED <<convo, message>>
    BY <1>1, ShowIs
  <2>1. \A i \in request[u].found : message[i].saved /\ message[i].convo = c
    BY DEF RowsInv, Shape, RequestsInv, RequestFits, Stored
  <2>2. \A v \in Users : asks[v] \subseteq asks'[v]
    BY DEF RowsInv, Shape
  <2>3. \A v \in Users : page'[v].shown = IF v = u THEN p.shown ELSE page[v].shown
    BY DEF RowsInv, Shape
  <2>4. says => c \in asks'[u]
    BY DEF RowsInv, Shape
  <2> SUFFICES ASSUME NEW i \in DOMAIN message, NEW v \in Users, v = Reader(i)',
                      i \in page'[v].shown, i \notin unsaid'
               PROVE  message[i].saved /\ (message[i].read \/ message[i].convo \in asks'[v])
    BY DEF SaidInv
  <2> v = Reader(i)
    BY <1>0, ReadersStay
  <2>5. CASE i \in page[v].shown
    BY <2>2, <2>5 DEF SaidInv
  <2>6. CASE i \notin page[v].shown
    <3>1. v = u /\ i \in request[u].found
      BY <2>3, <2>6
    <3> QED BY <2>1, <2>4, <3>1
  <2> QED BY <2>5, <2>6
<1>2. ASSUME NEW u \in Users, Take(u) PROVE SaidInv'
  <2> PICK j \in DOMAIN message, c \in Nat, p \in Pages :
        /\ c = message[j].convo
        /\ \/ /\ page[u].at = c
              /\ page' = [page EXCEPT ![u] = p]
              /\ p.at = c /\ p.shown = page[u].shown \cup {j}
              /\ asks' = [asks EXCEPT ![u] = @ \cup {c}]
              /\ unsaid' = IF message[j].saved THEN unsaid ELSE unsaid \cup {j}
           \/ UNCHANGED <<page, asks, unsaid>>
        /\ UNCHANGED <<convo, message>>
    BY <1>2, TakeIs
  <2>1. CASE UNCHANGED <<page, asks, unsaid>>
    BY <1>0, <2>1, SaidStays
  <2>2. CASE /\ page' = [page EXCEPT ![u] = p]
             /\ p.shown = page[u].shown \cup {j}
             /\ asks' = [asks EXCEPT ![u] = @ \cup {c}]
             /\ unsaid' = IF message[j].saved THEN unsaid ELSE unsaid \cup {j}
    <3>1. /\ \A v \in Users : asks[v] \subseteq asks'[v]
          /\ \A v \in Users : page'[v].shown = IF v = u THEN p.shown ELSE page[v].shown
          /\ c \in asks'[u]
      BY <2>2 DEF RowsInv, Shape
    <3> SUFFICES ASSUME NEW i \in DOMAIN message, NEW v \in Users, v = Reader(i)',
                        i \in page'[v].shown, i \notin unsaid'
                 PROVE  message[i].saved /\ (message[i].read \/ message[i].convo \in asks'[v])
      BY DEF SaidInv
    <3> v = Reader(i)
      BY <1>0, ReadersStay
    <3>2. CASE i \in page[v].shown
      BY <2>2, <3>1, <3>2 DEF SaidInv
    <3>3. CASE i \notin page[v].shown
      BY <2>2, <3>1, <3>3
    <3> QED BY <3>2, <3>3
  <2> QED BY <2>1, <2>2
<1>3. ASSUME NEW u \in Users, NEW c \in DOMAIN convo, HandleRead(u, c) PROVE SaidInv'
  <2>1. /\ message' = MarkedRead(c, u) /\ asks' = [asks EXCEPT ![u] = @ \ {c}]
        /\ UNCHANGED <<page, unsaid>>
    BY <1>3 DEF HandleRead
  <2>2. /\ DOMAIN message' = DOMAIN message
        /\ \A i \in DOMAIN message :
             /\ message'[i].convo = message[i].convo
             /\ message'[i].saved = message[i].saved
             /\ message'[i].read <=>
                   (message[i].read \/ (i \in Stored(c) /\ message[i].from # u))
    BY <2>1, MarkedReadIs DEF RowsInv
  <2>3. \A v \in Users : asks'[v] = IF v = u THEN asks[u] \ {c} ELSE asks[v]
    BY <2>1 DEF RowsInv, Shape
  <2> SUFFICES ASSUME NEW i \in DOMAIN message, NEW v \in Users, v = Reader(i)',
                      i \in page[v].shown, i \notin unsaid
               PROVE  message'[i].saved /\ (message'[i].read \/ message'[i].convo \in asks'[v])
    BY <2>1, <2>2 DEF SaidInv
  <2>4. v = Reader(i) /\ v # message[i].from
    BY <1>0, ReadersStay
  <2>5. message[i].saved /\ (message[i].read \/ message[i].convo \in asks[v])
    BY <2>4 DEF SaidInv
  <2>6. v = u /\ message[i].convo = c => message'[i].read
    BY <2>2, <2>4, <2>5 DEF Stored
  <2> QED BY <2>2, <2>3, <2>5, <2>6
<1>4. ASSUME NEW u \in Users, Close(u) PROVE SaidInv'
  <2>1. /\ \A v \in Users : page'[v].shown = page[v].shown
        /\ \A v \in Users : v # u => asks'[v] = asks[v]
        /\ unsaid' = unsaid \cup {i \in page[u].shown : message[i].convo \in asks[u]}
    <3>1. page[u] \in Pages
      BY DEF RowsInv, Shape
    <3>2. [page[u] EXCEPT !.online = FALSE].shown = page[u].shown
      BY <3>1 DEF Pages
    <3>3. page' = [page EXCEPT ![u] = [page[u] EXCEPT !.online = FALSE]]
      BY <1>4 DEF Close, RowsInv, Shape
    <3>4. \A v \in Users : page'[v].shown = page[v].shown
      BY <3>2, <3>3 DEF RowsInv, Shape
    <3> QED BY <1>4, <3>4 DEF Close, RowsInv, Shape
  <2> QED BY <1>0, <2>1, SaidStays
<1>5. ASSUME NEW u \in Users, Leave(u) \/ Reconnect(u) PROVE SaidInv'
  <2>1. /\ UNCHANGED <<asks, unsaid>>
        /\ \/ page' = [page EXCEPT ![u] = [page[u] EXCEPT !.at = 0]]
           \/ page' = [page EXCEPT ![u] = [page[u] EXCEPT !.online = TRUE]]
    BY <1>5 DEF Leave, Reconnect, RowsInv, Shape
  <2>2. page[u] \in Pages
    BY DEF RowsInv, Shape
  <2>3. /\ [page[u] EXCEPT !.at = 0].shown = page[u].shown
        /\ [page[u] EXCEPT !.online = TRUE].shown = page[u].shown
    BY <2>2 DEF Pages
  <2>4. \A v \in Users : page'[v].shown = page[v].shown
    BY <2>1, <2>3 DEF RowsInv, Shape
  <2> QED BY <1>0, <2>1, <2>4, SaidStays
<1>6. ASSUME NEW u \in Users,
             \/ \E p \in Pairs : LookFor(u, p)
             \/ \E c \in DOMAIN convo : History(u, c)
             \/ Create(u) \/ Answer(u) \/ LoseAnswer(u)
             \/ SendText(u) \/ Upload(u) \/ Push(u) \/ EndUpload(u)
      PROVE  SaidInv'
  <2>1. UNCHANGED <<page, asks, unsaid>>
    BY <1>6 DEF LookFor, History, Create, Answer, LoseAnswer, SendText, Upload, Writes, Push,
                EndUpload
  <2> QED BY <1>0, <2>1, SaidStays
<1> QED BY <1>1, <1>2, <1>3, <1>4, <1>5, <1>6 DEF Next

\* Whatever a page shows to its reader becomes read or is about to, but for what
\* the program never says was shown.
THEOREM ShownBecomesRead == Spec => []ShownIsRead
<1>1. RowsInv /\ SaidInv /\ UNCHANGED vars => SaidInv'
  BY NothingGrows, SaidStays DEF vars
<1>2. RowsInv /\ SaidInv => ShownIsRead
  BY ReadersAre DEF SaidInv, ShownIsRead
<1>3. RowsInv /\ SaidInv /\ [Next]_vars => SaidInv'
  BY <1>1, SaidStep
<1> QED BY <1>2, <1>3, SaidInit, RowsCorrect, PTL DEF Spec

-----------------------------------------------------------------------------
(***************************************************************************)
(* What is read was shown.                                                 *)
(***************************************************************************)

\* On the way to the page by a push, or by an answer.
Flies(i, v) ==
    \/ i \in OnWire(v)
    \/ \E u \in Users : sending[u].id = i /\ ~sending[u].pushed
Heard(i, v) == i \in page[v].shown \/ Flies(i, v)
Comes(i, v) ==
    /\ request[v].convo = message[i].convo
    /\ request[v].kind = "marked" \/ i \in request[v].found
\* The page shows the conversation, is about to, or said so: what it holds may be marked.
Wants(v, c) == c \in asks[v] \/ page[v].at = c \/ request[v].convo = c

\* Beside what is read, what may be marked at any moment is on its reader's page
\* or on the way there; an upload that is not saved yet, by its push only.
HeardAt(i, v) ==
    /\ message[i].saved /\ (message[i].read \/ Wants(v, message[i].convo)) =>
           Heard(i, v) \/ Comes(i, v)
    /\ ~message[i].saved /\ (\E u \in Users : sending[u].id = i) => Heard(i, v)
HeardInv == \A i \in DOMAIN message, v \in Users : v = Reader(i) /\ i \notin missed => HeardAt(i, v)

LEMMA HeardInit == ASSUME Init PROVE HeardInv
BY DEF Init, HeardInv

\* A message that is not saved by the step, and is heard of as before.
LEMMA HeardStays ==
    ASSUME RowsInv, HeardInv, Grow, NEW i \in DOMAIN message, NEW v \in Users, v = Reader(i)',
           i \notin missed,
           message'[i].saved = message[i].saved,
           Heard(i, v) => Heard(i, v)',
           (\E u \in Users : sending'[u].id = i) => \E u \in Users : sending[u].id = i,
           message[i].saved /\ Comes(i, v) => Heard(i, v)' \/ Comes(i, v)',
           message[i].saved /\ message'[i].read =>
               message[i].read \/ Wants(v, message[i].convo) \/ Comes(i, v)',
           message[i].saved /\ Wants(v, message[i].convo)' =>
               \/ message[i].read \/ Wants(v, message[i].convo)
               \/ Heard(i, v)' \/ Comes(i, v)'
    PROVE  HeardAt(i, v)'
<1>1. v = Reader(i)
  BY ReadersStay
<1>2. HeardAt(i, v)
  BY <1>1 DEF HeardInv
<1>3. message'[i].convo = message[i].convo
  BY DEF Grow
<1> QED BY <1>2, <1>3 DEF HeardAt

LEMMA FliesOn ==
    ASSUME NEW i, NEW v, UNCHANGED <<wire, sending>>
    PROVE  Flies(i, v) <=> Flies(i, v)'
BY DEF Flies, OnWire

LEMMA HeardRequest ==
    ASSUME RowsInv, HeardInv, NEW u \in Users,
           \/ \E p \in Pairs : LookFor(u, p)
           \/ Create(u) \/ Answer(u) \/ LoseAnswer(u)
           \/ \E c \in DOMAIN convo : History(u, c),
           NEW i \in DOMAIN message', NEW v \in Users, v = Reader(i)', i \notin missed'
    PROVE  HeardAt(i, v)'
<1>1. Grow /\ RowsInv'
  BY RowsRequest
<1>2. UNCHANGED <<page, wire, sending, asks>>
  BY DEF LookFor, Create, Answer, LoseAnswer, History
<1>3. /\ DOMAIN message' = DOMAIN message
      /\ \A j \in DOMAIN message : message'[j].saved = message[j].saved
      /\ \A j \in DOMAIN message : message'[j].convo = message[j].convo
  <2>1. ASSUME NEW c \in DOMAIN convo, History(u, c)
        PROVE  /\ DOMAIN message' = DOMAIN message
               /\ \A j \in DOMAIN message : message'[j].saved = message[j].saved
    BY <2>1, MarkedReadGrows DEF History, RowsInv
  <2> QED BY <1>1, <2>1 DEF LookFor, Create, Answer, LoseAnswer, Grow
<1>4. i \in DOMAIN message /\ i \notin missed /\ v = Reader(i) /\ v # message[i].from
  BY <1>1, <1>3, ReadersStay DEF LookFor, Create, Answer, LoseAnswer, History
<1>5. Heard(i, v) <=> Heard(i, v)'
  BY <1>2, FliesOn DEF Heard
<1>6. /\ message[i].convo \in DOMAIN convo /\ message[i].convo # 0
      /\ message[i].convo # Len(convo) + 1
  BY <1>4 DEF RowsInv, Shape, MessagesInv, Member
<1>7. \A w \in Users : w # u => request'[w] = request[w]
  BY DEF LookFor, Create, Answer, LoseAnswer, History, RowsInv, Shape
<1>8. request[u] \in Requests
  BY DEF RowsInv, Shape
<1>9. i \in Stored(message[i].convo) <=> message[i].saved
  BY <1>4 DEF Stored
<1>10. message'[i].read => message[i].read \/ Comes(i, v)'
  <2>1. ASSUME NEW c \in DOMAIN convo, History(u, c), ~message[i].read, message'[i].read
        PROVE  Comes(i, v)'
    <3>1. i \in Stored(c) /\ message[i].from # u /\ u \in convo[c]
      BY <1>4, <2>1, MarkedReadIs DEF History, RowsInv
    <3>2. message[i].convo = c
      BY <3>1 DEF Stored
    <3>3. v = u
      BY <1>4, <3>1, <3>2, ReadersAre DEF Member
    <3>4. request'[u].kind = "marked" /\ request'[u].convo = c
      BY <2>1 DEF History, Idle, RowsInv, Shape
    <3> QED BY <1>3, <1>4, <3>2, <3>3, <3>4 DEF Comes
  <2> QED BY <2>1 DEF LookFor, Create, Answer, LoseAnswer
<1>11. message[i].saved /\ request'[v].convo = message[i].convo =>
          Comes(i, v)' \/ request'[v] = request[v]
  <2> SUFFICES ASSUME message[i].saved, request'[u].convo = message[i].convo, v = u
               PROVE  Comes(i, v)'
    BY <1>7
  <2>1. ASSUME NEW p \in Pairs, LookFor(u, p) PROVE Comes(i, v)'
    <3>1. CASE Between(p) = {}
      <4> DEFINE q == [Idle EXCEPT !.kind = "create", !.with = p]
      <4>1. request' = [request EXCEPT ![u] = q]
        BY <2>1, <3>1 DEF LookFor
      <4>2. q.convo = 0
        BY DEF Idle
      <4>3. request'[u] = q
        BY <4>1 DEF RowsInv, Shape
      <4> QED BY <1>6, <4>2, <4>3
    <3>2. CASE Between(p) # {}
      <4> PICK c \in Between(p) :
              request' = [request EXCEPT ![u] =
                  [Idle EXCEPT !.kind = "opened", !.convo = c, !.found = Stored(c)]]
        BY <2>1, <3>2 DEF LookFor
      <4> DEFINE q == [Idle EXCEPT !.kind = "opened", !.convo = c, !.found = Stored(c)]
      <4>1. q.convo = c /\ q.found = Stored(c)
        BY DEF Idle
      <4>2. request'[u] = q
        BY DEF RowsInv, Shape
      <4> HIDE DEF q
      <4>3. message[i].convo = c
        BY <4>1, <4>2
      <4> QED BY <1>3, <1>4, <1>9, <4>1, <4>2, <4>3 DEF Comes
    <3> QED BY <3>1, <3>2
  <2>2. CASE Create(u)
    <3>1. request'[u].convo = Len(convo) + 1
      BY <2>2 DEF Create, Idle, RowsInv, Shape
    <3> QED BY <1>6, <3>1
  <2>3. CASE Answer(u)
    <3> DEFINE q == [request[u] EXCEPT !.kind = "history", !.found = Stored(request[u].convo)]
    <3>1. request'[u] = q
      BY <2>3 DEF Answer, RowsInv, Shape
    <3>2. q.convo = request[u].convo /\ q.found = Stored(request[u].convo)
      BY <1>8 DEF Requests
    <3> HIDE DEF q
    <3>3. message[i].convo = request[u].convo
      BY <3>1, <3>2
    <3>4. i \in q.found
      BY <1>9, <3>2, <3>3
    <3> QED BY <1>3, <1>4, <3>1, <3>2, <3>3, <3>4 DEF Comes
  <2>4. CASE LoseAnswer(u)
    <3>1. request'[u].convo = 0
      BY <2>4 DEF LoseAnswer, Idle, RowsInv, Shape
    <3> QED BY <1>6, <3>1
  <2>5. ASSUME NEW c \in DOMAIN convo, History(u, c) PROVE Comes(i, v)'
    <3>1. request'[u].kind = "marked"
      BY <2>5 DEF History, Idle, RowsInv, Shape
    <3> QED BY <1>3, <1>4, <3>1 DEF Comes
  <2> QED BY <2>1, <2>2, <2>3, <2>4, <2>5
<1>12. message[i].saved /\ Comes(i, v) => Comes(i, v)'
  <2> SUFFICES ASSUME message[i].saved, Comes(i, v), v = u PROVE Comes(i, v)'
    <3>1. request'[v] = request[v] => (Comes(i, v) <=> Comes(i, v)')
      BY <1>3, <1>4 DEF Comes
    <3> QED BY <1>7, <3>1
  <2>1. request[u].convo = message[i].convo /\ request[u].kind \notin {"none", "create"}
    BY <1>6, <1>8 DEF Comes, RowsInv, RequestsInv, RequestFits
  <2>2. ~LoseAnswer(u)
    BY <1>9, <2>1, <1>4, i \notin missed' DEF LoseAnswer
  <2>3. Answer(u)
    <3>1. Idle.kind = "none"
      BY DEF Idle
    <3> QED BY <2>1, <2>2, <3>1 DEF LookFor, Create, History
  <2>4. request'[u].convo = request[u].convo
    BY <1>8, <2>3 DEF Answer, RowsInv, Shape, Requests
  <2>5. request'[u].kind = "history"
    BY <1>8, <2>3 DEF Answer, RowsInv, Shape, Requests
  <2>6. request[u].kind = "marked"
    BY <2>3 DEF Answer
  <2>7. request'[v] # request[v]
    BY <2>5, <2>6
  <2> QED BY <1>11, <2>1, <2>4, <2>7
<1>13. message[i].saved /\ Wants(v, message[i].convo)' =>
          Wants(v, message[i].convo) \/ Comes(i, v)'
  <2>1. message'[i].convo = message[i].convo
    BY <1>3, <1>4
  <2> QED BY <1>2, <1>11, <2>1 DEF Wants
<1>14. UNCHANGED sending
  BY <1>2
<1> QED BY <1>1, <1>3, <1>4, <1>5, <1>10, <1>12, <1>13, <1>14, HeardStays

LEMMA HeardShow ==
    ASSUME RowsInv, HeardInv, NEW u \in Users, Show(u),
           NEW i \in DOMAIN message', NEW v \in Users, v = Reader(i)', i \notin missed'
    PROVE  HeardAt(i, v)'
<1> PICK c \in Nat, says \in BOOLEAN, p \in Pages :
        /\ c = request[u].convo
        /\ request[u].kind \in {"opened", "history"}
        /\ page' = [page EXCEPT ![u] = p]
        /\ p.at = c /\ p.shown = page[u].shown \cup request[u].found
        /\ asks' = IF says THEN [asks EXCEPT ![u] = @ \cup {c}] ELSE asks
        /\ request' = [request EXCEPT ![u] = Idle]
        /\ UNCHANGED <<convo, message, sending, wire, missed>>
  BY ShowIs
<1>1. Grow /\ i \in DOMAIN message /\ i \notin missed
  BY NothingGrows
<1>2. \A w \in Users : w # u => page'[w] = page[w] /\ request'[w] = request[w] /\ asks'[w] = asks[w]
  BY DEF RowsInv, Shape
<1>3. page'[u] = p /\ request'[u] = Idle /\ asks'[u] \subseteq asks[u] \cup {c}
  BY DEF RowsInv, Shape
<1>4. Heard(i, v) => Heard(i, v)'
  BY <1>2, <1>3, FliesOn DEF Heard
<1>5. Comes(i, v) => Heard(i, v)' \/ Comes(i, v)'
  <2>1. CASE v = u
    BY <1>3, <2>1 DEF Comes, Heard
  <2>2. CASE v # u
    BY <1>2, <2>2 DEF Comes
  <2> QED BY <2>1, <2>2
<1>6. Wants(v, message[i].convo)' => Wants(v, message[i].convo)
  <2>1. message[i].convo # 0 /\ Idle.convo = 0
    BY <1>1 DEF RowsInv, Shape, MessagesInv, Member, Idle
  <2>2. CASE v = u
    BY <1>3, <2>1, <2>2 DEF Wants
  <2>3. CASE v # u
    BY <1>2, <2>3 DEF Wants
  <2> QED BY <2>2, <2>3
<1> QED BY <1>1, <1>4, <1>5, <1>6, HeardStays

LEMMA HeardTake ==
    ASSUME RowsInv, HeardInv, NEW u \in Users, Take(u),
           NEW i \in DOMAIN message', NEW v \in Users, v = Reader(i)', i \notin missed'
    PROVE  HeardAt(i, v)'
<1> PICK j \in DOMAIN message, c \in Nat, p \in Pages :
        /\ c = message[j].convo /\ j \in OnWire(u)
        /\ wire' \in [Users -> Seq(Nat)]
        /\ OnWire(u) = OnWire(u)' \cup {j}
        /\ \A w \in Users : w # u => OnWire(w)' = OnWire(w)
        /\ \/ /\ page[u].at = c
              /\ page' = [page EXCEPT ![u] = p]
              /\ p.at = c /\ p.shown = page[u].shown \cup {j} /\ p.online = page[u].online
              /\ asks' = [asks EXCEPT ![u] = @ \cup {c}]
              /\ unsaid' = IF message[j].saved THEN unsaid ELSE unsaid \cup {j}
              /\ UNCHANGED missed
           \/ /\ page[u].at # c
              /\ missed' = IF \/ request[u].convo = c /\ request[u].kind # "marked"
                              \/ c \in asks[u] \/ message[j].read
                              \/ ~message[j].saved
                           THEN missed \cup {j} ELSE missed
              /\ UNCHANGED <<page, asks, unsaid>>
        /\ UNCHANGED <<convo, message, request, sending>>
  BY TakeIs
<1>1. Grow /\ i \in DOMAIN message /\ i \notin missed
  BY NothingGrows
<1>2. v = Reader(i)
  BY <1>1, ReadersStay
<1>3. Comes(i, v) <=> Comes(i, v)'
  BY DEF Comes
<1>4. i # j \/ v # u => (Flies(i, v) <=> Flies(i, v)')
  BY DEF Flies
<1>5. CASE /\ page[u].at = c
           /\ page' = [page EXCEPT ![u] = p]
           /\ p.at = c /\ p.shown = page[u].shown \cup {j}
           /\ asks' = [asks EXCEPT ![u] = @ \cup {c}]
  <2>1. \A w \in Users : w # u => page'[w] = page[w] /\ asks'[w] = asks[w]
    BY <1>5 DEF RowsInv, Shape
  <2>2. page'[u] = p /\ asks'[u] = asks[u] \cup {c}
    BY <1>5 DEF RowsInv, Shape
  <2>3. Heard(i, v) => Heard(i, v)'
    BY <1>4, <1>5, <2>1, <2>2 DEF Heard
  <2>4. Wants(v, message[i].convo)' => Wants(v, message[i].convo)
    BY <1>5, <2>1, <2>2 DEF Wants
  <2> QED BY <1>1, <1>3, <2>3, <2>4, HeardStays
<1>6. CASE /\ page[u].at # c /\ UNCHANGED <<page, asks>>
           /\ missed' = IF \/ request[u].convo = c /\ request[u].kind # "marked"
                           \/ c \in asks[u] \/ message[j].read
                           \/ ~message[j].saved
                        THEN missed \cup {j} ELSE missed
  <2>1. Wants(v, message[i].convo)' <=> Wants(v, message[i].convo)
    BY <1>6 DEF Wants
  <2>2. CASE i # j \/ v # u
    <3>1. Heard(i, v) <=> Heard(i, v)'
      BY <1>4, <1>6, <2>2 DEF Heard
    <3> QED BY <1>1, <1>3, <2>1, <3>1, HeardStays
  <2>3. CASE i = j /\ v = u
    <3>1. message[i].saved /\ ~message[i].read
      BY <1>6, <2>3
    <3>2. Wants(v, message[i].convo) => Comes(i, v)
      BY <1>6, <2>3 DEF Wants, Comes
    <3> QED BY <1>3, <2>1, <3>1, <3>2 DEF HeardAt
  <2> QED BY <2>2, <2>3
<1> QED BY <1>5, <1>6

LEMMA HeardWrites ==
    ASSUME RowsInv, HeardInv, NEW u \in Users, NEW upload \in BOOLEAN, Writes(u, upload),
           NEW i \in DOMAIN message', NEW v \in Users, v = Reader(i)', i \notin missed'
    PROVE  HeardAt(i, v)'
<1> PICK n \in Nat \ {0}, r \in Rows, s \in Sends : Written(u, upload, n, r, s)
  BY WritesIs
<1> USE DEF Written
<1>1. sending'[u] = s /\ \A w \in Users : w # u => sending'[w] = sending[w]
  BY DEF RowsInv, Shape
<1>2. CASE i = n
  <2>1. Flies(i, v)'
    BY <1>1, <1>2 DEF Flies
  <2> QED BY <2>1 DEF HeardAt, Heard
<1>3. CASE i # n
  <2>1. i \in DOMAIN message /\ message'[i] = message[i] /\ i # 0
    BY <1>3 DEF RowsInv, Shape
  <2>2. sending[u].id = 0
    BY DEF Sent
  <2>3. Heard(i, v) => Heard(i, v)'
    <3>1. Flies(i, v) => Flies(i, v)'
      BY <1>1, <2>1, <2>2 DEF Flies, OnWire
    <3> QED BY <3>1 DEF Heard
  <2>4. (\E w \in Users : sending'[w].id = i) => \E w \in Users : sending[w].id = i
    BY <1>1, <1>3
  <2>5. /\ Comes(i, v) <=> Comes(i, v)'
        /\ Wants(v, message[i].convo)' <=> Wants(v, message[i].convo)
    BY <2>1 DEF Comes, Wants
  <2> QED BY <2>1, <2>3, <2>4, <2>5, HeardStays
<1> QED BY <1>2, <1>3

LEMMA HeardPush ==
    ASSUME RowsInv, HeardInv, NEW u \in Users, Push(u),
           NEW i \in DOMAIN message', NEW v \in Users, v = Reader(i)', i \notin missed'
    PROVE  HeardAt(i, v)'
<1> PICK j \in DOMAIN message, s \in Sends, x \in Users :
        /\ j = sending[u].id /\ ~sending[u].pushed /\ j # 0
        /\ sending' = [sending EXCEPT ![u] = s]
        /\ IF sending[u].upload THEN s.id = j /\ s.pushed /\ s.upload ELSE s = Sent
        /\ x = Reader(j)
        /\ \/ /\ OnWire(x)' = OnWire(x) \cup {j}
              /\ \A w \in Users : w # x => OnWire(w)' = OnWire(w)
              /\ UNCHANGED missed
           \/ UNCHANGED wire /\ missed' = missed \cup {j}
        /\ UNCHANGED <<convo, message, page, request, asks>>
  BY PushIs
<1>1. Grow /\ i \in DOMAIN message /\ i \notin missed /\ i # 0
  BY NothingGrows DEF RowsInv, Shape
<1>2. v = Reader(i)
  BY <1>1, ReadersStay
<1>3. sending'[u] = s /\ \A w \in Users : w # u => sending'[w] = sending[w]
  BY DEF RowsInv, Shape
<1>4. s.id \in {0, j}
  BY DEF Sent
<1>5. \A w \in Users : OnWire(w) \subseteq OnWire(w)'
  <2>1. UNCHANGED wire => \A w \in Users : OnWire(w)' = OnWire(w)
    BY DEF OnWire
  <2> QED BY <2>1
<1>6. Flies(i, v) => Flies(i, v)'
  <2>1. CASE i = j
    BY <1>2, <2>1 DEF Flies
  <2>2. CASE i # j
    BY <1>3, <1>5, <2>2 DEF Flies
  <2> QED BY <2>1, <2>2
<1>7. (\E w \in Users : sending'[w].id = i) => \E w \in Users : sending[w].id = i
  BY <1>1, <1>3, <1>4
<1>8. /\ Comes(i, v) <=> Comes(i, v)'
      /\ Wants(v, message[i].convo)' <=> Wants(v, message[i].convo)
      /\ Heard(i, v) => Heard(i, v)'
  BY <1>6 DEF Comes, Wants, Heard
<1> QED BY <1>1, <1>7, <1>8, HeardStays

LEMMA HeardEndUpload ==
    ASSUME RowsInv, HeardInv, NEW u \in Users, EndUpload(u),
           NEW i \in DOMAIN message', NEW v \in Users, v = Reader(i)', i \notin missed'
    PROVE  HeardAt(i, v)'
<1> PICK j \in DOMAIN message :
        /\ j = sending[u].id /\ j # 0 /\ ~message[j].saved /\ sending[u].upload
        /\ sending' = [sending EXCEPT ![u] = Sent]
        /\ DOMAIN message' = DOMAIN message
        /\ \A k \in DOMAIN message :
              /\ message'[k].convo = message[k].convo
              /\ message'[k].read = message[k].read
              /\ k # j => message'[k].saved = message[k].saved
        /\ message'[j].saved => sending[u].pushed
        /\ UNCHANGED <<convo, page, request, wire, asks, missed>>
        /\ Grow
  BY EndUploadIs
<1>1. i \in DOMAIN message /\ i # 0 /\ v = Reader(i)
  BY ReadersStay DEF RowsInv, Shape
<1>2. sending'[u] = Sent /\ Sent.id = 0 /\ \A w \in Users : w # u => sending'[w] = sending[w]
  BY DEF RowsInv, Shape, Sent
<1>3. \A w \in Users : sending[w].id = j => w = u
  BY DEF RowsInv, SendsInv
<1>4. CASE i = j
  <2>1. ~\E w \in Users : sending'[w].id = i
    BY <1>1, <1>2, <1>3, <1>4
  <2>2. message'[i].saved => Heard(i, v)'
    <3> SUFFICES ASSUME message'[i].saved PROVE Heard(i, v)'
      OBVIOUS
    <3>1. sending[u].pushed
      BY <1>4
    <3>2. Heard(i, v)
      <4>1. HeardAt(i, v)
        BY <1>1 DEF HeardInv
      <4> QED BY <1>4, <4>1 DEF HeardAt
    <3>3. ~\E w \in Users : sending[w].id = i /\ ~sending[w].pushed
      BY <1>3, <1>4, <3>1
    <3> QED BY <3>2, <3>3 DEF Heard, Flies, OnWire
  <2> QED BY <2>1, <2>2 DEF HeardAt
<1>5. CASE i # j
  <2>1. Flies(i, v) => Flies(i, v)'
    BY <1>2, <1>5 DEF Flies, OnWire
  <2>2. Heard(i, v) => Heard(i, v)'
    BY <2>1 DEF Heard
  <2>3. (\E w \in Users : sending'[w].id = i) => \E w \in Users : sending[w].id = i
    BY <1>1, <1>2
  <2>4. /\ Comes(i, v) <=> Comes(i, v)'
        /\ Wants(v, message[i].convo)' <=> Wants(v, message[i].convo)
    BY <1>1 DEF Comes, Wants
  <2> QED BY <1>1, <1>5, <2>2, <2>3, <2>4, HeardStays
<1> QED BY <1>4, <1>5

LEMMA HeardHandleRead ==
    ASSUME RowsInv, HeardInv, NEW u \in Users, NEW c \in DOMAIN convo, HandleRead(u, c),
           NEW i \in DOMAIN message', NEW v \in Users, v = Reader(i)', i \notin missed'
    PROVE  HeardAt(i, v)'
<1>1. /\ message' = MarkedRead(c, u) /\ asks' = [asks EXCEPT ![u] = @ \ {c}] /\ c \in asks[u]
      /\ UNCHANGED <<convo, page, request, sending, wire, missed>>
  BY DEF HandleRead
<1>2. /\ Grow /\ DOMAIN message' = DOMAIN message
      /\ \A k \in DOMAIN message : message'[k].saved = message[k].saved
  BY <1>1, MarkedReadGrows DEF RowsInv
<1>3. i \in DOMAIN message /\ v = Reader(i) /\ message'[i].convo = message[i].convo
  BY <1>2, ReadersStay DEF Grow
<1>4. message'[i].read => message[i].read \/ Wants(v, message[i].convo)
  <2> SUFFICES ASSUME message'[i].read, ~message[i].read PROVE Wants(v, message[i].convo)
    OBVIOUS
  <2>1. i \in Stored(c) /\ message[i].from # u
    BY <1>1, <1>3, MarkedReadIs DEF RowsInv
  <2>2. message[i].convo = c
    BY <2>1 DEF Stored
  <2>3. v = u
    BY <1>1, <1>3, <2>1, <2>2, ReadersAre DEF RowsInv, WiresInv
  <2> QED BY <1>1, <2>2, <2>3 DEF Wants
<1>5. Wants(v, message[i].convo)' => Wants(v, message[i].convo)
  BY <1>1, <1>3 DEF Wants, RowsInv, Shape
<1>6. /\ Comes(i, v) <=> Comes(i, v)'
      /\ Heard(i, v) => Heard(i, v)'
  BY <1>1, <1>3, FliesOn DEF Comes, Heard
<1> QED BY <1>1, <1>2, <1>3, <1>4, <1>5, <1>6, HeardStays

\* A page that leaves its thread, goes offline or comes back.
LEMMA HeardPage ==
    ASSUME RowsInv, HeardInv, NEW u \in Users, Leave(u) \/ Reconnect(u) \/ Close(u),
           NEW i \in DOMAIN message', NEW v \in Users, v = Reader(i)', i \notin missed'
    PROVE  HeardAt(i, v)'
<1>1. UNCHANGED <<convo, message, request>> /\ missed \subseteq missed'
  BY DEF Leave, Reconnect, Close
<1>2. Grow /\ i \in DOMAIN message /\ i \notin missed /\ i # 0
  BY <1>1, NothingGrows DEF RowsInv, Shape
<1>3. \A w \in Users : page'[w].shown = page[w].shown /\ page'[w].at \in {0, page[w].at}
  <2>1. page[u] \in Pages
    BY DEF RowsInv, Shape
  <2>2. /\ [page[u] EXCEPT !.at = 0].shown = page[u].shown
        /\ [page[u] EXCEPT !.at = 0].at = 0
        /\ \A on \in BOOLEAN : /\ [page[u] EXCEPT !.online = on].shown = page[u].shown
                              /\ [page[u] EXCEPT !.online = on].at = page[u].at
    BY <2>1 DEF Pages
  <2>3. \/ page'[u] = [page[u] EXCEPT !.at = 0]
        \/ page'[u] = [page[u] EXCEPT !.online = FALSE]
        \/ page'[u] = [page[u] EXCEPT !.online = TRUE]
    BY DEF Leave, Reconnect, Close, RowsInv, Shape
  <2>4. page'[u].shown = page[u].shown /\ page'[u].at \in {0, page[u].at}
    BY <2>2, <2>3
  <2>5. \A w \in Users : w # u => page'[w] = page[w]
    BY DEF Leave, Reconnect, Close, RowsInv, Shape
  <2> QED BY <2>4, <2>5
<1>4. \A w \in Users : asks'[w] \subseteq asks[w]
  BY DEF Leave, Reconnect, Close, RowsInv, Shape
<1>5. Wants(v, message[i].convo)' => Wants(v, message[i].convo)
  <2>1. message[i].convo # 0
    BY <1>2 DEF RowsInv, Shape, MessagesInv, Member
  <2> QED BY <1>1, <1>3, <1>4, <2>1 DEF Wants
<1>6. Comes(i, v) <=> Comes(i, v)'
  BY <1>1 DEF Comes
<1>7. CASE Leave(u) \/ Reconnect(u)
  <2>1. UNCHANGED <<wire, sending>>
    BY <1>7 DEF Leave, Reconnect
  <2>2. Heard(i, v) => Heard(i, v)'
    BY <1>3, <2>1, FliesOn DEF Heard
  <2> QED BY <1>1, <1>2, <1>5, <1>6, <2>1, <2>2, HeardStays
<1>8. CASE Close(u)
  <2>1. /\ wire' = [wire EXCEPT ![u] = << >>] /\ OnWire(u) \subseteq missed'
        /\ \/ UNCHANGED sending
           \/ sending' = [sending EXCEPT ![u] = Sent] /\ sending[u].id \in missed'
    BY <1>8 DEF Close
  <2>2. \A w \in Users : w # u => OnWire(w)' = OnWire(w)
    BY <2>1 DEF OnWire, RowsInv, Shape
  <2>3. \A w \in Users : sending'[w] = sending[w] \/ (sending'[w] = Sent /\ sending[w].id \in missed')
    BY <2>1 DEF RowsInv, Shape
  <2>4. Flies(i, v) => Flies(i, v)'
    BY <2>1, <2>2, <2>3 DEF Flies
  <2>5. (\E w \in Users : sending'[w].id = i) => \E w \in Users : sending[w].id = i
    BY <1>2, <2>3 DEF Sent
  <2>6. Heard(i, v) => Heard(i, v)'
    BY <1>3, <2>4 DEF Heard
  <2> QED BY <1>1, <1>2, <1>5, <1>6, <2>5, <2>6, HeardStays
<1> QED BY <1>7, <1>8

LEMMA HeardStep ==
    ASSUME RowsInv, HeardInv, Next
    PROVE  HeardInv'
<1> SUFFICES ASSUME NEW i \in DOMAIN message', NEW v \in Users, v = Reader(i)', i \notin missed'
             PROVE  HeardAt(i, v)'
  BY DEF HeardInv
<1>1. ASSUME NEW u \in Users, SendText(u) \/ Upload(u) PROVE HeardAt(i, v)'
  BY <1>1, HeardWrites DEF SendText, Upload
<1>2. ASSUME NEW u \in Users,
             \/ \E p \in Pairs : LookFor(u, p)
             \/ Create(u) \/ Answer(u) \/ LoseAnswer(u)
             \/ \E c \in DOMAIN convo : History(u, c)
      PROVE  HeardAt(i, v)'
  BY <1>2, HeardRequest
<1>3. ASSUME NEW u \in Users, Leave(u) \/ Reconnect(u) \/ Close(u) PROVE HeardAt(i, v)'
  BY <1>3, HeardPage
<1>4. ASSUME NEW u \in Users, Show(u) \/ Take(u) \/ Push(u) \/ EndUpload(u) PROVE HeardAt(i, v)'
  BY <1>4, HeardShow, HeardTake, HeardPush, HeardEndUpload
<1>5. ASSUME NEW u \in Users, NEW c \in DOMAIN convo, HandleRead(u, c) PROVE HeardAt(i, v)'
  BY <1>5, HeardHandleRead
<1> QED BY <1>1, <1>2, <1>3, <1>4, <1>5 DEF Next

\* Whatever is marked as read was on its reader's page or is on the way there, for
\* any users, messages and faults, but for what went past the page.
THEOREM ReadMeansShown == Spec => []ReadWasShown
<1>1. RowsInv /\ HeardInv /\ UNCHANGED vars => HeardInv'
  <2> SUFFICES ASSUME RowsInv, HeardInv, UNCHANGED vars, NEW i \in DOMAIN message, NEW v \in Users,
                      v = Reader(i)', i \notin missed
               PROVE  HeardAt(i, v)'
    BY DEF HeardInv, vars
  <2> USE DEF vars
  <2>1. Grow
    BY NothingGrows
  <2>2. /\ Heard(i, v) <=> Heard(i, v)'
        /\ Comes(i, v) <=> Comes(i, v)'
        /\ Wants(v, message[i].convo)' <=> Wants(v, message[i].convo)
    BY FliesOn DEF Heard, Comes, Wants
  <2> QED BY <2>1, <2>2, HeardStays
<1>2. RowsInv /\ HeardInv => ReadWasShown
  <2> SUFFICES ASSUME RowsInv, HeardInv, NEW i \in DOMAIN message, i \notin missed, message[i].read
               PROVE  i \in page[Reader(i)].shown \/ Coming(i, Reader(i))
    BY DEF ReadWasShown
  <2>1. message[i].saved /\ Reader(i) \in Users
    BY ReadersAre DEF RowsInv, MessagesInv
  <2>2. HeardAt(i, Reader(i))
    BY <2>1 DEF HeardInv
  <2> QED BY <2>1, <2>2 DEF HeardAt, Heard, Flies, Comes, Coming
<1>3. RowsInv /\ HeardInv /\ [Next]_vars => HeardInv'
  BY <1>1, HeardStep
<1> QED BY <1>2, <1>3, HeardInit, RowsCorrect, PTL DEF Spec

-----------------------------------------------------------------------------
(***************************************************************************)
(* Reminders: their rows, and what a run may hold.                         *)
(***************************************************************************)

Run == [todo : SUBSET Nat, sent : Nat, warn : Clocks \cup {<< >>}]
ReminderShape ==
    /\ lead \in [Leads -> [owned : BOOLEAN, clock : 0..MaxClocks, runs : BOOLEAN]]
    /\ reminder \in Seq(Reminder)
    /\ run \in [Workers -> Run]
    /\ \A w \in Workers : /\ run[w].todo \subseteq DOMAIN reminder
                          /\ run[w].sent \in run[w].todo \cup {0}

\* Rows keep what they are about, and the new ones are pending.
Grown ==
    /\ DOMAIN reminder \subseteq DOMAIN reminder'
    /\ \A r \in DOMAIN reminder : /\ reminder'[r].lead = reminder[r].lead
                                  /\ reminder'[r].clock = reminder[r].clock
RowsKept ==
    /\ Grown
    /\ \A r \in DOMAIN reminder' :
          IF r \in DOMAIN reminder
          THEN reminder'[r].status = reminder[r].status /\ reminder'[r].notes = reminder[r].notes
          ELSE reminder'[r].status = "PENDING" /\ reminder'[r].notes = 0

\* A new row.
LEMMA SavedIs ==
    ASSUME ReminderShape, NEW l \in Leads, NEW n \in 0..MaxClocks, NEW due \in BOOLEAN,
           reminder' = Saved(l, n, due)
    PROVE  /\ reminder' \in Seq(Reminder) /\ RowsKept
           /\ DOMAIN reminder' = DOMAIN reminder \cup {Len(reminder) + 1}
           /\ reminder'[Len(reminder) + 1].lead = l /\ reminder'[Len(reminder) + 1].clock = n
<1> DEFINE new == [lead |-> l, clock |-> n, status |-> "PENDING", due |-> due, notes |-> 0]
<1>1. new \in Reminder
  BY DEF Reminder
<1>2. /\ new.lead = l /\ new.clock = n /\ new.status = "PENDING" /\ new.notes = 0
      /\ reminder' = Append(reminder, new)
  BY DEF Saved
<1> HIDE DEF new
<1>3. /\ reminder' \in Seq(Reminder) /\ DOMAIN reminder' = DOMAIN reminder \cup {Len(reminder) + 1}
      /\ reminder'[Len(reminder) + 1] = new
      /\ \A r \in DOMAIN reminder : reminder'[r] = reminder[r]
  BY <1>1, <1>2 DEF ReminderShape
<1> QED BY <1>2, <1>3 DEF RowsKept, Grown

\* A row of which the time, the notes or the status change.
LEMMA RowIs ==
    ASSUME ReminderShape, NEW r \in DOMAIN reminder, NEW q \in Reminder,
           reminder' = [reminder EXCEPT ![r] = q],
           q.lead = reminder[r].lead, q.clock = reminder[r].clock
    PROVE  /\ reminder' \in Seq(Reminder) /\ Grown
           /\ DOMAIN reminder' = DOMAIN reminder /\ reminder'[r] = q
           /\ \A s \in DOMAIN reminder : s # r => reminder'[s] = reminder[s]
BY DEF ReminderShape, Grown

LEMMA RunIs ==
    ASSUME ReminderShape, NEW w \in Workers, NEW q \in Run, run' = [run EXCEPT ![w] = q]
    PROVE  /\ run' \in [Workers -> Run]
           /\ run'[w] = q /\ \A v \in Workers : v # w => run'[v] = run[v]
BY DEF ReminderShape

-----------------------------------------------------------------------------
(***************************************************************************)
(* What each step does to the rows and to the runs.                        *)
(***************************************************************************)

LEMMA PlanIs ==
    ASSUME ReminderShape, NEW l \in Leads, Plan(l)
    PROVE  /\ reminder' \in Seq(Reminder) /\ RowsKept /\ UNCHANGED <<run, raced>>
           /\ DOMAIN reminder' = DOMAIN reminder \cup {Len(reminder) + 1}
           /\ reminder'[Len(reminder) + 1].clock = 0
<1> PICK due \in BOOLEAN : due = FALSE
  OBVIOUS
<1>1. reminder' = Saved(l, 0, due) /\ UNCHANGED <<run, raced>>
  BY DEF Plan, Post
<1>2. 0 \in 0..MaxClocks
  BY ReminderInputs
<1> QED BY <1>1, <1>2, SavedIs

LEMMA ComesDueIs ==
    ASSUME ReminderShape, NEW r \in DOMAIN reminder, ComesDue(r)
    PROVE  /\ reminder' \in Seq(Reminder) /\ RowsKept /\ DOMAIN reminder' = DOMAIN reminder
           /\ UNCHANGED <<run, raced>>
<1> PICK q : q = [reminder[r] EXCEPT !.due = TRUE]
  OBVIOUS
<1>1. reminder[r] \in Reminder
  BY DEF ReminderShape
<1>2. /\ q \in Reminder /\ q.lead = reminder[r].lead /\ q.clock = reminder[r].clock
      /\ q.status = reminder[r].status /\ q.notes = reminder[r].notes
  BY <1>1 DEF Reminder
<1>3. reminder' = [reminder EXCEPT ![r] = q] /\ UNCHANGED <<run, raced>>
  BY DEF ComesDue
<1> QED BY <1>2, <1>3, RowIs DEF RowsKept

\* A run takes up reminders.
LEMMA TakeUpIs ==
    ASSUME ReminderShape, NEW w \in Workers,
           (\E r \in DOMAIN reminder : Deliver(w, r)) \/ Sweep(w)
    PROVE  \E todo \in SUBSET Pending :
              /\ run' = [run EXCEPT ![w] = [Rest EXCEPT !.todo = todo]]
              /\ \A v \in Workers, r \in todo :
                    v # w /\ r \in run[v].todo => <<"deliver", r>> \in raced'
              /\ run[w] = Rest /\ raced \subseteq raced' /\ UNCHANGED reminder
<1>1. ASSUME NEW todo \in SUBSET Pending, run' = [run EXCEPT ![w].todo = todo],
             raced' = raced \cup Deliveries(todo \cap HeldByOthers(w)),
             run[w] = Rest, UNCHANGED reminder
      PROVE  /\ run' = [run EXCEPT ![w] = [Rest EXCEPT !.todo = todo]]
             /\ \A v \in Workers, r \in todo :
                   v # w /\ r \in run[v].todo => <<"deliver", r>> \in raced'
             /\ run[w] = Rest /\ raced \subseteq raced' /\ UNCHANGED reminder
  <2>1. \A v \in Workers, r \in todo :
             v # w /\ r \in run[v].todo => r \in todo \cap HeldByOthers(w)
    BY DEF HeldByOthers
  <2> QED BY <1>1, <2>1 DEF Deliveries, ReminderShape
<1>2. ASSUME NEW r \in DOMAIN reminder, Deliver(w, r)
      PROVE  \E todo \in SUBSET Pending :
                /\ run' = [run EXCEPT ![w].todo = todo] /\ run[w] = Rest /\ UNCHANGED reminder
                /\ raced' = raced \cup Deliveries(todo \cap HeldByOthers(w))
  <2> WITNESS {r} \cap Pending \in SUBSET Pending
  <2> QED BY <1>2 DEF Deliver
<1>3. ASSUME Sweep(w)
      PROVE  \E todo \in SUBSET Pending :
                /\ run' = [run EXCEPT ![w].todo = todo] /\ run[w] = Rest /\ UNCHANGED reminder
                /\ raced' = raced \cup Deliveries(todo \cap HeldByOthers(w))
  BY <1>3 DEF Sweep, kSubset, Due
<1> QED BY <1>1, <1>2, <1>3

LEMMA NotifyIs ==
    ASSUME ReminderShape, NEW w \in Workers, NEW r \in DOMAIN reminder, Notify(w, r)
    PROVE  /\ reminder' \in Seq(Reminder) /\ Grown /\ DOMAIN reminder' = DOMAIN reminder
           /\ reminder'[r].status = reminder[r].status
           /\ reminder'[r].notes = reminder[r].notes + 1
           /\ \A s \in DOMAIN reminder : s # r => reminder'[s] = reminder[s]
           /\ r \in run[w].todo /\ run[w].sent = 0
           /\ run' \in [Workers -> Run] /\ run'[w].sent = r
           /\ run'[w].todo = run[w].todo /\ run'[w].warn = run[w].warn
           /\ \A v \in Workers : v # w => run'[v] = run[v]
           /\ UNCHANGED raced
<1> PICK q : q = [reminder[r] EXCEPT !.notes = @ + 1]
  OBVIOUS
<1>1. reminder[r] \in Reminder /\ run[w] \in Run /\ r \in Nat
  BY DEF ReminderShape
<1>2. /\ q \in Reminder /\ q.lead = reminder[r].lead /\ q.clock = reminder[r].clock
      /\ q.status = reminder[r].status /\ q.notes = reminder[r].notes + 1
  BY <1>1 DEF Reminder
<1> PICK u : u = [run[w] EXCEPT !.sent = r]
  OBVIOUS
<1>3. u \in Run /\ u.sent = r /\ u.todo = run[w].todo /\ u.warn = run[w].warn
  BY <1>1 DEF Run
<1>4. /\ reminder' = [reminder EXCEPT ![r] = q] /\ run' = [run EXCEPT ![w] = u]
      /\ r \in run[w].todo /\ run[w].sent = 0 /\ UNCHANGED raced
  BY DEF Notify
<1>5. /\ reminder' \in Seq(Reminder) /\ Grown
      /\ DOMAIN reminder' = DOMAIN reminder /\ reminder'[r] = q
      /\ \A s \in DOMAIN reminder : s # r => reminder'[s] = reminder[s]
  BY <1>2, <1>4, RowIs
<1>6. /\ run' \in [Workers -> Run]
      /\ run'[w] = u /\ \A v \in Workers : v # w => run'[v] = run[v]
  BY <1>3, <1>4, RunIs
<1> QED BY <1>2, <1>3, <1>4, <1>5, <1>6

LEMMA MarkSentIs ==
    ASSUME ReminderShape, NEW w \in Workers, MarkSent(w), NEW r, r = run[w].sent
    PROVE  /\ reminder' \in Seq(Reminder) /\ Grown /\ DOMAIN reminder' = DOMAIN reminder
           /\ r \in DOMAIN reminder /\ r \in run[w].todo
           /\ reminder'[r].status = "SENT" /\ reminder'[r].notes = reminder[r].notes
           /\ \A s \in DOMAIN reminder : s # r => reminder'[s] = reminder[s]
           /\ run' \in [Workers -> Run] /\ run'[w].sent = 0
           /\ run'[w].todo = run[w].todo \ {r} /\ run'[w].warn = run[w].warn
           /\ \A v \in Workers : v # w => run'[v] = run[v]
           /\ UNCHANGED raced
<1> PICK q : q = [reminder[r] EXCEPT !.status = "SENT"]
  OBVIOUS
<1>0. r # 0 /\ r \in run[w].todo /\ r \in DOMAIN reminder
  BY DEF MarkSent, ReminderShape
<1>1. reminder[r] \in Reminder /\ run[w] \in Run
  BY <1>0 DEF ReminderShape
<1>2. /\ q \in Reminder /\ q.lead = reminder[r].lead /\ q.clock = reminder[r].clock
      /\ q.status = "SENT" /\ q.notes = reminder[r].notes
  BY <1>1 DEF Reminder
<1> PICK u : u = [run[w] EXCEPT !.todo = @ \ {r}, !.sent = 0]
  OBVIOUS
<1>3. u \in Run /\ u.sent = 0 /\ u.todo = run[w].todo \ {r} /\ u.warn = run[w].warn
  BY <1>1 DEF Run
<1>4. /\ reminder' = [reminder EXCEPT ![r] = q] /\ run' = [run EXCEPT ![w] = u] /\ UNCHANGED raced
  BY <1>1 DEF MarkSent, ReminderShape
<1>5. /\ reminder' \in Seq(Reminder) /\ Grown
      /\ DOMAIN reminder' = DOMAIN reminder /\ reminder'[r] = q
      /\ \A s \in DOMAIN reminder : s # r => reminder'[s] = reminder[s]
  BY <1>0, <1>2, <1>4, RowIs
<1>6. /\ run' \in [Workers -> Run]
      /\ run'[w] = u /\ \A v \in Workers : v # w => run'[v] = run[v]
  BY <1>3, <1>4, RunIs
<1> QED BY <1>0, <1>2, <1>3, <1>4, <1>5, <1>6

LEMMA LookIs ==
    ASSUME ReminderShape, NEW w \in Workers, NEW l \in Leads, NEW n \in 1..MaxClocks,
           LookForWarning(w, l, n)
    PROVE  /\ UNCHANGED reminder /\ raced \subseteq raced' /\ run[w] = Rest
           /\ \E c \in Clocks \cup {<< >>} :
                /\ run' = [run EXCEPT ![w] = [Rest EXCEPT !.warn = c]]
                /\ c # << >> => /\ c = <<l, n>> /\ ~Warned(l, n)
                                /\ \A v \in Workers : v # w /\ run[v].warn = c =>
                                      <<"warn", c>> \in raced'
<1> DEFINE now == lead[l] = [owned |-> TRUE, clock |-> n, runs |-> TRUE] /\ ~Warned(l, n)
<1>1. /\ UNCHANGED reminder /\ run[w] = Rest
      /\ run' = [run EXCEPT ![w].warn = IF now THEN <<l, n>> ELSE << >>]
      /\ raced' = raced \cup Warnings({c \in {<<l, n>>} :
                         now /\ \E v \in Workers \ {w} : run[v].warn = c})
  BY DEF LookForWarning
<1>2. CASE now
  <2> PICK c \in Clocks : c = <<l, n>>
    BY DEF Clocks
  <2>1. run' = [run EXCEPT ![w] = [Rest EXCEPT !.warn = c]] /\ ~Warned(l, n)
    BY <1>1, <1>2 DEF ReminderShape
  <2>2. \A v \in Workers : v # w /\ run[v].warn = c => <<"warn", c>> \in raced'
    BY <1>1, <1>2 DEF Warnings
  <2> QED BY <1>1, <2>1, <2>2
<1>3. CASE ~now
  <2>1. run' = [run EXCEPT ![w] = [Rest EXCEPT !.warn = << >>]]
    BY <1>1, <1>3 DEF ReminderShape
  <2> QED BY <1>1, <2>1
<1> QED BY <1>2, <1>3

LEMMA WarnIs ==
    ASSUME ReminderShape, NEW w \in Workers, Warn(w)
    PROVE  /\ reminder' \in Seq(Reminder) /\ RowsKept /\ UNCHANGED raced
           /\ DOMAIN reminder' = DOMAIN reminder \cup {Len(reminder) + 1}
           /\ run[w].warn \in Clocks
           /\ <<reminder'[Len(reminder) + 1].lead, reminder'[Len(reminder) + 1].clock>> = run[w].warn
           /\ run' = [run EXCEPT ![w].warn = << >>]
<1> PICK due \in BOOLEAN : due = TRUE
  OBVIOUS
<1>1. run[w] \in Run /\ run[w].warn # << >>
  BY DEF ReminderShape, Warn
<1>2. PICK l \in Leads, n \in 1..MaxClocks : run[w].warn = <<l, n>>
  BY <1>1 DEF Run, Clocks
<1>3. /\ reminder' = Saved(l, n, due) /\ UNCHANGED raced
      /\ run' = [run EXCEPT ![w].warn = << >>]
  BY <1>2 DEF Warn
<1>4. n \in 0..MaxClocks /\ <<l, n>> \in Clocks
  BY ReminderInputs DEF Clocks
<1> QED BY <1>2, <1>3, <1>4, SavedIs

-----------------------------------------------------------------------------
(***************************************************************************)
(* The invariant.                                                          *)
(***************************************************************************)

\* A reminder that was not raced for: one run holds it, while it is pending; when
\* it is notified it was sent, or is about to be marked so.
SentOnce ==
    \A r \in DOMAIN reminder : <<"deliver", r>> \notin raced =>
        /\ \A v, w \in Workers : r \in run[v].todo /\ r \in run[w].todo => v = w
        /\ \A w \in Workers : r \in run[w].todo => reminder[r].status = "PENDING"
        /\ \/ reminder[r].notes = 0
           \/ /\ reminder[r].notes = 1
              /\ reminder[r].status = "SENT" \/ \E w \in Workers : run[w].sent = r

\* A clock that was not raced for: one run is about to warn of it, while nobody has.
About(r, c) == <<reminder[r].lead, reminder[r].clock>> = c
WarnedOnce ==
    \A c \in Clocks : <<"warn", c>> \notin raced =>
        /\ \A v, w \in Workers : run[v].warn = c /\ run[w].warn = c => v = w
        /\ \A w \in Workers, r \in DOMAIN reminder : run[w].warn = c => ~About(r, c)
        /\ \A r, s \in DOMAIN reminder : About(r, c) /\ About(s, c) => r = s

RemindersInv == ReminderShape /\ SentOnce /\ WarnedOnce

LEMMA ClockIs == \A c \in Clocks : c # << >>
BY DEF Clocks

LEMMA RemindersInit == ASSUME ReminderInit PROVE RemindersInv
<1>1. /\ \A w \in Workers : run[w].todo = {} /\ run[w].sent = 0 /\ run[w].warn = << >>
      /\ run \in [Workers -> Run]
  BY DEF ReminderInit, Rest, Run
<1>2. reminder = << >> /\ reminder \in Seq(Reminder)
  BY DEF ReminderInit
<1>3. lead \in [Leads -> [owned : BOOLEAN, clock : 0..MaxClocks, runs : BOOLEAN]]
  BY ReminderInputs DEF ReminderInit
<1>4. ReminderShape
  BY <1>1, <1>2, <1>3 DEF ReminderShape
<1> QED BY <1>1, <1>2, <1>4, ClockIs DEF RemindersInv, SentOnce, WarnedOnce

LEMMA LeadStep ==
    ASSUME ReminderShape, ReminderNext
    PROVE  lead' \in [Leads -> [owned : BOOLEAN, clock : 0..MaxClocks, runs : BOOLEAN]]
<1> DEFINE L == [owned : BOOLEAN, clock : 0..MaxClocks, runs : BOOLEAN]
<1>1. lead \in [Leads -> L]
  BY DEF ReminderShape
<1>2. ASSUME NEW l \in Leads, NEW owned \in BOOLEAN, Open(l, owned) PROVE lead' \in [Leads -> L]
  <2>1. lead[l].clock + 1 \in 0..MaxClocks
    BY <1>1, <1>2, ReminderInputs DEF Open
  <2> QED BY <1>1, <1>2, <2>1 DEF Open
<1>3. ASSUME NEW l \in Leads, lead' = [lead EXCEPT ![l].runs = FALSE] PROVE lead' \in [Leads -> L]
  BY <1>1, <1>3
<1>4. ASSUME NEW l \in Leads, Plan(l) \/ Stop(l) \/ \E owned \in BOOLEAN : Restart(l, owned)
      PROVE  lead' \in [Leads -> L]
  <2> PICK yes \in BOOLEAN : yes = TRUE
    OBVIOUS
  <2>1. \/ Open(l, yes) \/ lead' = [lead EXCEPT ![l].runs = FALSE]
        \/ \E owned \in BOOLEAN : Open(l, owned)
    BY <1>4 DEF Plan, Stop, Restart
  <2> QED BY <1>2, <1>3, <2>1
<1>5. ASSUME Tasks PROVE UNCHANGED lead
  BY <1>5 DEF Tasks, ComesDue, Deliver, Notify, LookForWarning, Sweep, MarkSent, Warn, Die
<1> QED BY <1>1, <1>4, <1>5 DEF ReminderNext

\* The warnings stay as they were when no warning is made or looked for.
LEMMA WarnedStays ==
    ASSUME ReminderShape, WarnedOnce, Grown, raced \subseteq raced',
           \A r \in DOMAIN reminder' \ DOMAIN reminder : reminder'[r].clock = 0,
           \A w \in Workers : run'[w].warn \in {run[w].warn, << >>}
    PROVE  WarnedOnce'
<1> SUFFICES ASSUME NEW c \in Clocks, <<"warn", c>> \notin raced
             PROVE  /\ \A v, w \in Workers : run'[v].warn = c /\ run'[w].warn = c => v = w
                    /\ \A w \in Workers, r \in DOMAIN reminder' :
                          run'[w].warn = c => ~About(r, c)'
                    /\ \A r, s \in DOMAIN reminder' : About(r, c)' /\ About(s, c)' => r = s
  BY DEF WarnedOnce
<1>1. c # << >> /\ c[2] # 0
  BY DEF Clocks
<1>2. \A w \in Workers : run'[w].warn = c => run[w].warn = c
  BY <1>1
<1>3. \A r \in DOMAIN reminder' : About(r, c)' => r \in DOMAIN reminder /\ About(r, c)
  BY <1>1 DEF About, Grown
<1> QED BY <1>2, <1>3 DEF WarnedOnce

\* Nothing is taken up, notified or marked.
LEMMA SentStays ==
    ASSUME ReminderShape, SentOnce, RowsKept, raced \subseteq raced',
           \A w \in Workers : /\ run'[w].todo = run[w].todo
                              /\ run'[w].sent = run[w].sent
    PROVE  SentOnce'
<1> SUFFICES ASSUME NEW r \in DOMAIN reminder', <<"deliver", r>> \notin raced
             PROVE  /\ \A v, w \in Workers : r \in run[v].todo /\ r \in run[w].todo => v = w
                    /\ \A w \in Workers : r \in run[w].todo => reminder'[r].status = "PENDING"
                    /\ \/ reminder'[r].notes = 0
                       \/ /\ reminder'[r].notes = 1
                          /\ reminder'[r].status = "SENT" \/ \E w \in Workers : run[w].sent = r
  BY DEF SentOnce
<1>1. CASE r \in DOMAIN reminder
  BY <1>1 DEF SentOnce, RowsKept
<1>2. CASE r \notin DOMAIN reminder
  BY <1>2 DEF ReminderShape, RowsKept
<1> QED BY <1>1, <1>2

LEMMA RestIs ==
    /\ Rest.todo = {} /\ Rest.sent = 0 /\ Rest.warn = << >> /\ Rest \in Run
    /\ \A todo \in SUBSET Nat :
          LET q == [Rest EXCEPT !.todo = todo]
          IN  q \in Run /\ q.todo = todo /\ q.sent = 0 /\ q.warn = << >>
    /\ \A c \in Clocks \cup {<< >>} :
          LET q == [Rest EXCEPT !.warn = c]
          IN  q \in Run /\ q.todo = {} /\ q.sent = 0 /\ q.warn = c
BY DEF Rest, Run

LEMMA TakeUpKeeps ==
    ASSUME RemindersInv, ReminderNext, NEW w \in Workers,
           (\E r \in DOMAIN reminder : Deliver(w, r)) \/ Sweep(w)
    PROVE  RemindersInv'
<1>0. ReminderShape /\ SentOnce /\ WarnedOnce
  BY DEF RemindersInv
<1> PICK todo \in SUBSET Pending :
       /\ run' = [run EXCEPT ![w] = [Rest EXCEPT !.todo = todo]]
       /\ \A v \in Workers, r \in todo :
             v # w /\ r \in run[v].todo => <<"deliver", r>> \in raced'
       /\ run[w] = Rest /\ raced \subseteq raced' /\ UNCHANGED reminder
  BY <1>0, TakeUpIs
<1>1. todo \subseteq DOMAIN reminder /\ todo \in SUBSET Nat
      /\ \A r \in todo : reminder[r].status = "PENDING"
  BY <1>0 DEF Pending, ReminderShape
<1> PICK q : q = [Rest EXCEPT !.todo = todo]
  OBVIOUS
<1>2. q \in Run /\ q.todo = todo /\ q.sent = 0 /\ q.warn = << >>
  BY <1>1, RestIs
<1>3. /\ run' \in [Workers -> Run]
      /\ run'[w] = q /\ \A v \in Workers : v # w => run'[v] = run[v]
  BY <1>0, <1>2, RunIs
<1>4. ReminderShape'
  BY <1>0, <1>1, <1>2, <1>3, LeadStep DEF ReminderShape
<1>5. run[w].todo = {} /\ run[w].sent = 0 /\ run[w].warn = << >>
  BY RestIs
<1>6. WarnedOnce'
  <2>1. Grown /\ \A v \in Workers : run'[v].warn \in {run[v].warn, << >>}
    BY <1>2, <1>3, <1>5 DEF Grown
  <2> QED BY <1>0, <2>1, WarnedStays
<1>7. SentOnce'
  <2> SUFFICES ASSUME NEW r \in DOMAIN reminder, <<"deliver", r>> \notin raced'
               PROVE  /\ \A u, v \in Workers : r \in run'[u].todo /\ r \in run'[v].todo => u = v
                      /\ \A v \in Workers : r \in run'[v].todo => reminder[r].status = "PENDING"
                      /\ \/ reminder[r].notes = 0
                         \/ /\ reminder[r].notes = 1
                            /\ \/ reminder[r].status = "SENT"
                               \/ \E v \in Workers : run'[v].sent = r
    BY DEF SentOnce
  <2>1. r # 0
    BY <1>0 DEF ReminderShape
  <2>2. /\ \A u, v \in Workers : r \in run[u].todo /\ r \in run[v].todo => u = v
        /\ \A v \in Workers : r \in run[v].todo => reminder[r].status = "PENDING"
        /\ \/ reminder[r].notes = 0
           \/ /\ reminder[r].notes = 1
              /\ reminder[r].status = "SENT" \/ \E v \in Workers : run[v].sent = r
    BY <1>0 DEF SentOnce
  <2>3. \A u, v \in Workers : r \in run'[u].todo /\ r \in run'[v].todo => u = v
    BY <1>2, <1>3, <2>2
  <2>4. \A v \in Workers : r \in run'[v].todo => reminder[r].status = "PENDING"
    BY <1>1, <1>2, <1>3, <2>2
  <2>5. \A v \in Workers : run[v].sent = r => run'[v].sent = r
    BY <1>3, <1>5, <2>1
  <2> QED BY <2>2, <2>3, <2>4, <2>5
<1> QED BY <1>4, <1>6, <1>7 DEF RemindersInv

LEMMA NotifyKeeps ==
    ASSUME RemindersInv, ReminderNext, NEW w \in Workers, NEW r \in DOMAIN reminder, Notify(w, r)
    PROVE  RemindersInv'
<1>0. ReminderShape /\ SentOnce /\ WarnedOnce
  BY DEF RemindersInv
<1>1. /\ reminder' \in Seq(Reminder) /\ Grown /\ DOMAIN reminder' = DOMAIN reminder
      /\ reminder'[r].status = reminder[r].status
      /\ reminder'[r].notes = reminder[r].notes + 1
      /\ \A s \in DOMAIN reminder : s # r => reminder'[s] = reminder[s]
      /\ r \in run[w].todo /\ run[w].sent = 0
      /\ run' \in [Workers -> Run] /\ run'[w].sent = r
      /\ run'[w].todo = run[w].todo /\ run'[w].warn = run[w].warn
      /\ \A v \in Workers : v # w => run'[v] = run[v]
      /\ UNCHANGED raced
  BY <1>0, NotifyIs
<1>2. \A v \in Workers : run'[v].todo = run[v].todo /\ run'[v].warn = run[v].warn
  BY <1>1
<1>3. ReminderShape'
  BY <1>0, <1>1, <1>2, LeadStep DEF ReminderShape
<1>4. WarnedOnce'
  BY <1>0, <1>1, <1>2, WarnedStays
<1>5. SentOnce'
  <2> SUFFICES ASSUME NEW s \in DOMAIN reminder, <<"deliver", s>> \notin raced
               PROVE  /\ \A u, v \in Workers : s \in run[u].todo /\ s \in run[v].todo => u = v
                      /\ \A v \in Workers : s \in run[v].todo => reminder'[s].status = "PENDING"
                      /\ \/ reminder'[s].notes = 0
                         \/ /\ reminder'[s].notes = 1
                            /\ \/ reminder'[s].status = "SENT"
                               \/ \E v \in Workers : run'[v].sent = s
    BY <1>1, <1>2 DEF SentOnce
  <2>0. s # 0
    BY <1>0 DEF ReminderShape
  <2>1. /\ \A u, v \in Workers : s \in run[u].todo /\ s \in run[v].todo => u = v
        /\ \A v \in Workers : s \in run[v].todo => reminder[s].status = "PENDING"
        /\ \/ reminder[s].notes = 0
           \/ /\ reminder[s].notes = 1
              /\ reminder[s].status = "SENT" \/ \E v \in Workers : run[v].sent = s
    BY <1>0 DEF SentOnce
  <2>2. CASE s = r
    <3>1. reminder[r].notes = 0
      <4>1. reminder[r].status = "PENDING"
        BY <1>1, <2>1, <2>2
      <4>2. ASSUME NEW v \in Workers, run[v].sent = r PROVE FALSE
        <5>1. r \in run[v].todo
          BY <1>0, <2>0, <2>2, <4>2 DEF ReminderShape
        <5> QED BY <1>1, <2>0, <2>1, <2>2, <4>2, <5>1
      <4> QED BY <2>1, <2>2, <4>1, <4>2
    <3> QED BY <1>1, <2>1, <2>2, <3>1
  <2>3. CASE s # r
    <3>1. \A v \in Workers : run[v].sent = s => run'[v].sent = s
      BY <1>1, <2>0
    <3> QED BY <1>1, <2>1, <2>3, <3>1
  <2> QED BY <2>2, <2>3
<1> QED BY <1>3, <1>4, <1>5 DEF RemindersInv

LEMMA MarkSentKeeps ==
    ASSUME RemindersInv, ReminderNext, NEW w \in Workers, MarkSent(w)
    PROVE  RemindersInv'
<1>0. ReminderShape /\ SentOnce /\ WarnedOnce
  BY DEF RemindersInv
<1> PICK r : r = run[w].sent
  OBVIOUS
<1>1. /\ reminder' \in Seq(Reminder) /\ Grown /\ DOMAIN reminder' = DOMAIN reminder
      /\ r \in DOMAIN reminder /\ r \in run[w].todo
      /\ reminder'[r].status = "SENT" /\ reminder'[r].notes = reminder[r].notes
      /\ \A s \in DOMAIN reminder : s # r => reminder'[s] = reminder[s]
      /\ run' \in [Workers -> Run] /\ run'[w].sent = 0
      /\ run'[w].todo = run[w].todo \ {r} /\ run'[w].warn = run[w].warn
      /\ \A v \in Workers : v # w => run'[v] = run[v]
      /\ UNCHANGED raced
  BY <1>0, MarkSentIs
<1>2. \A v \in Workers : /\ run'[v].todo \subseteq run[v].todo /\ run'[v].warn = run[v].warn
                         /\ run'[v].sent \in run'[v].todo \cup {0}
  BY <1>0, <1>1 DEF ReminderShape
<1>3. ReminderShape'
  BY <1>0, <1>1, <1>2, LeadStep DEF ReminderShape
<1>4. WarnedOnce'
  BY <1>0, <1>1, <1>2, WarnedStays
<1>5. SentOnce'
  <2> SUFFICES ASSUME NEW s \in DOMAIN reminder, <<"deliver", s>> \notin raced
               PROVE  /\ \A u, v \in Workers : s \in run'[u].todo /\ s \in run'[v].todo => u = v
                      /\ \A v \in Workers : s \in run'[v].todo => reminder'[s].status = "PENDING"
                      /\ \/ reminder'[s].notes = 0
                         \/ /\ reminder'[s].notes = 1
                            /\ \/ reminder'[s].status = "SENT"
                               \/ \E v \in Workers : run'[v].sent = s
    BY <1>1 DEF SentOnce
  <2>1. /\ \A u, v \in Workers : s \in run[u].todo /\ s \in run[v].todo => u = v
        /\ \A v \in Workers : s \in run[v].todo => reminder[s].status = "PENDING"
        /\ \/ reminder[s].notes = 0
           \/ /\ reminder[s].notes = 1
              /\ reminder[s].status = "SENT" \/ \E v \in Workers : run[v].sent = s
    BY <1>0 DEF SentOnce
  <2>2. CASE s = r
    <3>1. \A v \in Workers : s \notin run'[v].todo
      BY <1>1, <1>2, <2>1, <2>2
    <3> QED BY <1>1, <2>1, <2>2, <3>1
  <2>3. CASE s # r
    <3>1. \A v \in Workers : run[v].sent = s => run'[v].sent = s
      BY <1>1, <2>3
    <3> QED BY <1>1, <1>2, <2>1, <2>3, <3>1
  <2> QED BY <2>2, <2>3
<1> QED BY <1>3, <1>4, <1>5 DEF RemindersInv

LEMMA LookKeeps ==
    ASSUME RemindersInv, ReminderNext, NEW w \in Workers, NEW l \in Leads, NEW n \in 1..MaxClocks,
           LookForWarning(w, l, n)
    PROVE  RemindersInv'
<1>0. ReminderShape /\ SentOnce /\ WarnedOnce
  BY DEF RemindersInv
<1>1. UNCHANGED reminder /\ raced \subseteq raced' /\ run[w] = Rest
  BY <1>0, LookIs
<1> PICK c \in Clocks \cup {<< >>} :
       /\ run' = [run EXCEPT ![w] = [Rest EXCEPT !.warn = c]]
       /\ c # << >> => /\ c = <<l, n>> /\ ~Warned(l, n)
                       /\ \A v \in Workers : v # w /\ run[v].warn = c => <<"warn", c>> \in raced'
  BY <1>0, LookIs
<1> PICK q : q = [Rest EXCEPT !.warn = c]
  OBVIOUS
<1>2. q \in Run /\ q.todo = {} /\ q.sent = 0 /\ q.warn = c
  BY RestIs
<1>3. /\ run' \in [Workers -> Run]
      /\ run'[w] = q /\ \A v \in Workers : v # w => run'[v] = run[v]
  BY <1>0, <1>2, RunIs
<1>4. \A v \in Workers : run'[v].todo = run[v].todo /\ run'[v].sent = run[v].sent
  BY <1>1, <1>2, <1>3, RestIs
<1>5. ReminderShape'
  BY <1>0, <1>1, <1>3, <1>4, LeadStep DEF ReminderShape
<1>6. SentOnce'
  BY <1>0, <1>1, <1>4, SentStays DEF RowsKept, Grown
<1>7. WarnedOnce'
  <2> SUFFICES ASSUME NEW d \in Clocks, <<"warn", d>> \notin raced'
               PROVE  /\ \A u, v \in Workers : run'[u].warn = d /\ run'[v].warn = d => u = v
                      /\ \A v \in Workers, r \in DOMAIN reminder :
                            run'[v].warn = d => ~About(r, d)
                      /\ \A r, s \in DOMAIN reminder : About(r, d) /\ About(s, d) => r = s
    BY <1>1 DEF WarnedOnce, About
  <2>1. /\ \A u, v \in Workers : run[u].warn = d /\ run[v].warn = d => u = v
        /\ \A v \in Workers, r \in DOMAIN reminder : run[v].warn = d => ~About(r, d)
        /\ \A r, s \in DOMAIN reminder : About(r, d) /\ About(s, d) => r = s
    BY <1>1 DEF WarnedOnce, RemindersInv
  <2>2. d # << >>
    BY ClockIs
  <2>3. CASE c = d
    <3>1. \A v \in Workers : v # w => run'[v].warn # d
      BY <1>3, <2>2, <2>3
    <3>2. \A r \in DOMAIN reminder : ~About(r, d)
      BY <2>2, <2>3 DEF Warned, About
    <3> QED BY <2>1, <3>1, <3>2
  <2>4. CASE c # d
    <3>1. \A v \in Workers : run'[v].warn = d => v # w /\ run[v].warn = d
      BY <1>2, <1>3, <2>4
    <3> QED BY <2>1, <3>1
  <2> QED BY <2>3, <2>4
<1> QED BY <1>5, <1>6, <1>7 DEF RemindersInv

LEMMA WarnKeeps ==
    ASSUME RemindersInv, ReminderNext, NEW w \in Workers, Warn(w)
    PROVE  RemindersInv'
<1>0. ReminderShape /\ SentOnce /\ WarnedOnce
  BY DEF RemindersInv
<1> PICK c \in Clocks : c = run[w].warn
  BY <1>0, WarnIs
<1> PICK n : n = Len(reminder) + 1
  OBVIOUS
<1>1. /\ reminder' \in Seq(Reminder) /\ RowsKept /\ UNCHANGED raced
      /\ DOMAIN reminder' = DOMAIN reminder \cup {n} /\ About(n, c)'
      /\ run' = [run EXCEPT ![w].warn = << >>]
  BY <1>0, WarnIs DEF About
<1> PICK q : q = [run[w] EXCEPT !.warn = << >>]
  OBVIOUS
<1>2. q \in Run /\ q.todo = run[w].todo /\ q.sent = run[w].sent /\ q.warn = << >>
  <2> run[w] \in Run
    BY <1>0 DEF ReminderShape
  <2> PICK none : none = << >>
    OBVIOUS
  <2>1. q = [run[w] EXCEPT !.warn = none] /\ none \in Clocks \cup {<< >>}
    OBVIOUS
  <2> QED BY <2>1 DEF Run
<1>3. /\ run' \in [Workers -> Run]
      /\ run'[w] = q /\ \A v \in Workers : v # w => run'[v] = run[v]
  BY <1>0, <1>1, <1>2, RunIs
<1>4. \A v \in Workers : run'[v].todo = run[v].todo /\ run'[v].sent = run[v].sent
  BY <1>2, <1>3
<1>5. ReminderShape'
  BY <1>0, <1>1, <1>3, <1>4, LeadStep DEF ReminderShape
<1>6. SentOnce'
  BY <1>0, <1>1, <1>4, SentStays
<1>7. WarnedOnce'
  <2> SUFFICES ASSUME NEW d \in Clocks, <<"warn", d>> \notin raced
               PROVE  /\ \A u, v \in Workers : run'[u].warn = d /\ run'[v].warn = d => u = v
                      /\ \A v \in Workers, r \in DOMAIN reminder' :
                            run'[v].warn = d => ~About(r, d)'
                      /\ \A r, s \in DOMAIN reminder' : About(r, d)' /\ About(s, d)' => r = s
    BY <1>1 DEF WarnedOnce
  <2>1. /\ \A u, v \in Workers : run[u].warn = d /\ run[v].warn = d => u = v
        /\ \A v \in Workers, r \in DOMAIN reminder : run[v].warn = d => ~About(r, d)
        /\ \A r, s \in DOMAIN reminder : About(r, d) /\ About(s, d) => r = s
    BY <1>0 DEF WarnedOnce
  <2>2. \A v \in Workers : run'[v].warn = d => v # w /\ run[v].warn = d
    <3>1. d # << >>
      BY ClockIs
    <3> QED BY <1>2, <1>3, <3>1
  <2>3. \A r \in DOMAIN reminder' :
           About(r, d)' => (r \in DOMAIN reminder /\ About(r, d)) \/ (r = n /\ d = c)
    BY <1>1 DEF About, RowsKept, Grown
  <2> QED BY <2>1, <2>2, <2>3
<1> QED BY <1>5, <1>6, <1>7 DEF RemindersInv

LEMMA DieKeeps ==
    ASSUME RemindersInv, ReminderNext, NEW w \in Workers, Die(w)
    PROVE  RemindersInv'
<1>0. ReminderShape /\ SentOnce /\ WarnedOnce
  BY DEF RemindersInv
<1>1. /\ run' = [run EXCEPT ![w] = Rest] /\ UNCHANGED reminder /\ raced \subseteq raced'
      /\ run[w].sent # 0 => <<"deliver", run[w].sent>> \in raced'
  BY DEF Die, Deliveries
<1>2. /\ run' \in [Workers -> Run]
      /\ run'[w] = Rest /\ \A v \in Workers : v # w => run'[v] = run[v]
  BY <1>0, <1>1, RestIs, RunIs
<1>3. \A v \in Workers : /\ run'[v].todo \subseteq run[v].todo
                         /\ run'[v].sent \in run'[v].todo \cup {0}
                         /\ run'[v].warn \in {run[v].warn, << >>}
  BY <1>0, <1>2, RestIs DEF ReminderShape
<1>4. ReminderShape'
  BY <1>0, <1>1, <1>2, <1>3, LeadStep DEF ReminderShape
<1>5. WarnedOnce'
  BY <1>0, <1>1, <1>3, WarnedStays DEF Grown
<1>6. SentOnce'
  <2> SUFFICES ASSUME NEW r \in DOMAIN reminder, <<"deliver", r>> \notin raced'
               PROVE  /\ \A u, v \in Workers : r \in run'[u].todo /\ r \in run'[v].todo => u = v
                      /\ \A v \in Workers : r \in run'[v].todo => reminder[r].status = "PENDING"
                      /\ \/ reminder[r].notes = 0
                         \/ /\ reminder[r].notes = 1
                            /\ \/ reminder[r].status = "SENT"
                               \/ \E v \in Workers : run'[v].sent = r
    BY <1>1 DEF SentOnce
  <2>1. /\ \A u, v \in Workers : r \in run[u].todo /\ r \in run[v].todo => u = v
        /\ \A v \in Workers : r \in run[v].todo => reminder[r].status = "PENDING"
        /\ \/ reminder[r].notes = 0
           \/ /\ reminder[r].notes = 1
              /\ reminder[r].status = "SENT" \/ \E v \in Workers : run[v].sent = r
    BY <1>0, <1>1 DEF SentOnce
  <2>2. r # 0
    BY <1>0 DEF ReminderShape
  <2>3. \A v \in Workers : run[v].sent = r => run'[v].sent = r
    BY <1>1, <1>2, <2>2
  <2> QED BY <1>3, <2>1, <2>3
<1> QED BY <1>4, <1>5, <1>6 DEF RemindersInv

\* Nothing happens to the runs.
LEMMA RunsStay ==
    ASSUME RemindersInv, reminder' \in Seq(Reminder), RowsKept, UNCHANGED <<run, raced>>,
           lead' \in [Leads -> [owned : BOOLEAN, clock : 0..MaxClocks, runs : BOOLEAN]],
           \A r \in DOMAIN reminder' \ DOMAIN reminder : reminder'[r].clock = 0
    PROVE  RemindersInv'
<1>1. ReminderShape'
  BY DEF RemindersInv, ReminderShape, RowsKept, Grown
<1>2. WarnedOnce' /\ SentOnce'
  BY WarnedStays, SentStays DEF RemindersInv, RowsKept
<1> QED BY <1>1, <1>2 DEF RemindersInv

LEMMA RemindersStep ==
    ASSUME RemindersInv, ReminderNext
    PROVE  RemindersInv'
<1>0. /\ ReminderShape
      /\ lead' \in [Leads -> [owned : BOOLEAN, clock : 0..MaxClocks, runs : BOOLEAN]]
  BY LeadStep DEF RemindersInv
<1>1. ASSUME NEW l \in Leads, Plan(l) PROVE RemindersInv'
  <2>1. \A r \in DOMAIN reminder' \ DOMAIN reminder : reminder'[r].clock = 0
    BY <1>0, <1>1, PlanIs
  <2> QED BY <1>0, <1>1, <2>1, PlanIs, RunsStay
<1>2. ASSUME NEW l \in Leads, Stop(l) \/ \E owned \in BOOLEAN : Restart(l, owned)
      PROVE  RemindersInv'
  <2>1. UNCHANGED <<reminder, run, raced>>
    BY <1>2 DEF Stop, Restart
  <2> QED BY <1>0, <2>1, RunsStay DEF RowsKept, Grown, ReminderShape
<1>3. ASSUME NEW r \in DOMAIN reminder, ComesDue(r) PROVE RemindersInv'
  BY <1>0, <1>3, ComesDueIs, RunsStay
<1>4. ASSUME NEW w \in Workers, NEW r \in DOMAIN reminder, Deliver(w, r) \/ Notify(w, r)
      PROVE  RemindersInv'
  BY <1>4, TakeUpKeeps, NotifyKeeps
<1>5. ASSUME NEW w \in Workers, NEW l \in Leads, NEW n \in 1..MaxClocks, LookForWarning(w, l, n)
      PROVE  RemindersInv'
  BY <1>5, LookKeeps
<1>6. ASSUME NEW w \in Workers, Sweep(w) \/ MarkSent(w) \/ Warn(w) \/ Die(w) PROVE RemindersInv'
  BY <1>6, TakeUpKeeps, MarkSentKeeps, WarnKeeps, DieKeeps
<1> QED BY <1>1, <1>2, <1>3, <1>4, <1>5, <1>6 DEF ReminderNext, Tasks

\* Nothing is sent twice and no clock is warned of twice, for any workers, leads,
\* batches and numbers of reminders, clocks and faults, but for the messages that
\* two runs acted on at once or that a run died over.
THEOREM SentAndWarnedOnce == ReminderSpec => []NothingTwice
<1>1. RemindersInv /\ UNCHANGED reminderVars => RemindersInv'
  <2> SUFFICES ASSUME RemindersInv, UNCHANGED reminderVars PROVE RemindersInv'
    OBVIOUS
  <2> QED BY RunsStay DEF reminderVars, RemindersInv, RowsKept, Grown, ReminderShape
<1>2. RemindersInv => NothingTwice
  <2> SUFFICES ASSUME RemindersInv PROVE NothingTwice
    OBVIOUS
  <2>1. ASSUME NEW c \in Clocks, <<"warn", c>> \notin raced
        PROVE  Cardinality({r \in DOMAIN reminder : About(r, c)}) <= 1
    <3> DEFINE S == {r \in DOMAIN reminder : About(r, c)}
    <3>1. \A r, s \in S : r = s
      BY <2>1 DEF RemindersInv, WarnedOnce
    <3>2. CASE S = {}
      BY <3>2, FS_EmptySet
    <3>3. CASE S # {}
      <4>1. PICK r \in S : S = {r}
        BY <3>1, <3>3
      <4> QED BY <4>1, FS_Singleton
    <3> QED BY <3>2, <3>3
  <2> QED BY <2>1 DEF RemindersInv, SentOnce, NothingTwice, About
<1> QED BY <1>1, <1>2, RemindersInit, RemindersStep, PTL DEF ReminderSpec

=============================================================================
