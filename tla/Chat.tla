-------------------------------- MODULE Chat --------------------------------
(***************************************************************************)
(* Conversations of two users, as the database holds them and as the       *)
(* users' pages show them.                                                 *)
(*                                                                         *)
(* A conversation is looked for and created in two steps of one request.   *)
(* A thread is opened by a request that marks what it holds as read and    *)
(* then reads it; pushes of new messages reach the page beside the answer. *)
(* A page that shows a thread says so over its socket, and everything the  *)
(* conversation then holds becomes read.  A text message is pushed after   *)
(* it is saved, an upload, in the default database, before it is.  A       *)
(* socket may close: what was on its way is lost, and the page does not    *)
(* load anything again when it is back.                                    *)
(*                                                                         *)
(* A user has one page here, which waits for one answer at a time.  The    *)
(* page's counters and ticks, and the echo of a message to its sender, are *)
(* left out.                                                               *)
(***************************************************************************)
EXTENDS Naturals, Sequences, FiniteSets

CONSTANTS
    Users,         \* the users of a company
    MaxConvos,     \* bound: conversations
    MaxMessages,   \* bound: messages
    MaxRequests,   \* bound: requests that open a conversation
    MaxDrops       \* bound: sockets that close

ASSUME ChatInputs ==
    /\ IsFiniteSet(Users)
    /\ MaxConvos \in Nat /\ MaxMessages \in Nat /\ MaxDrops \in Nat /\ MaxRequests \in Nat

VARIABLES
    convo,         \* the participants of each conversation
    message,       \* the messages, in the order they were created
    page,          \* what each user's page shows
    request,       \* the request the page waits for
    sending,       \* the message each user's last send is still pushing
    wire,          \* pushes on the way to each page
    asks,          \* the page's words that it shows a conversation, not yet handled
    requests,      \* how many there were
    drops,         \* how many sockets closed and answers were lost
    twice,         \* for the properties: pairs that two requests created at once
    missed,        \* for the properties: messages that went past a page
    unsaid         \* for the properties: messages a page shows and has not said so

vars == <<convo, message, page, request, sending, wire, asks, requests, drops, twice, missed, unsaid>>

Pairs == {p \in SUBSET Users : Cardinality(p) = 2}
Ids == 1..MaxMessages
Convos == 1..MaxConvos
Idle == [kind |-> "none", convo |-> 0, with |-> {}, found |-> {}]
Message == [convo : Convos, from : Users, saved : BOOLEAN, read : BOOLEAN]
Page == [at : 0..MaxConvos, online : BOOLEAN, shown : SUBSET Ids]
Request == [kind : {"none", "create", "opened", "marked", "history"},
            convo : 0..MaxConvos, with : SUBSET Users, found : SUBSET Ids]

TypeOK ==
    /\ convo \in Seq(Pairs) /\ Len(convo) <= MaxConvos
    /\ message \in Seq(Message) /\ Len(message) <= MaxMessages
    /\ page \in [Users -> Page]
    /\ request \in [Users -> Request]
    /\ sending \in [Users -> [id : 0..MaxMessages, pushed : BOOLEAN, upload : BOOLEAN]]
    /\ wire \in [Users -> Seq(Ids)]
    /\ asks \in [Users -> SUBSET Convos]
    /\ requests \in 0..MaxRequests /\ drops \in 0..MaxDrops
    /\ twice \subseteq Pairs
    /\ missed \subseteq Ids /\ unsaid \subseteq Ids

Sent == [id |-> 0, pushed |-> FALSE, upload |-> FALSE]

Init ==
    /\ convo = << >> /\ message = << >>
    /\ page = [u \in Users |-> [at |-> 0, online |-> TRUE, shown |-> {}]]
    /\ request = [u \in Users |-> Idle]
    /\ sending = [u \in Users |-> Sent]
    /\ wire = [u \in Users |-> << >>]
    /\ asks = [u \in Users |-> {}]
    /\ requests = 0 /\ drops = 0 /\ twice = {} /\ missed = {} /\ unsaid = {}

-----------------------------------------------------------------------------
(***************************************************************************)
(* Requests: open a conversation with somebody, or one of the list.        *)
(***************************************************************************)

\* Mutant of Between: conversations nobody wrote in are left out, as in the list.
BetweenAndUsed(p) == {c \in DOMAIN convo : convo[c] = p /\ \E i \in DOMAIN message : message[i].convo = c}
Between(p) == {c \in DOMAIN convo : convo[c] = p}
Stored(c) == {i \in DOMAIN message : message[i].convo = c /\ message[i].saved}

\* The participant a message is for.
Reader(i) == CHOOSE v \in convo[message[i].convo] : v # message[i].from

\* ChatService.mark_read: what the other wrote, and has been committed.
\* Mutant of MarkedRead: the reader's own messages too.
MarkedReadOwn(c, u) ==
    [i \in DOMAIN message |->
        IF i \in Stored(c) THEN [message[i] EXCEPT !.read = TRUE] ELSE message[i]]
MarkedRead(c, u) ==
    [i \in DOMAIN message |->
        IF i \in Stored(c) /\ message[i].from # u THEN [message[i] EXCEPT !.read = TRUE]
        ELSE message[i]]

\* get_or_create_direct: any of the pair's conversations, or none.
LookFor(u, p) ==
    /\ request[u] = Idle /\ u \in p /\ requests < MaxRequests
    /\ requests' = requests + 1
    /\ IF Between(p) = {}
       THEN /\ Len(convo) + Cardinality({v \in Users : request[v].kind = "create"}) < MaxConvos
            /\ request' = [request EXCEPT ![u] = [Idle EXCEPT !.kind = "create", !.with = p]]
            /\ twice' = twice \cup {q \in {p} : \E v \in Users : request[v].with = q}
       ELSE /\ \E c \in Between(p) :
                   request' = [request EXCEPT ![u] =
                       [Idle EXCEPT !.kind = "opened", !.convo = c, !.found = Stored(c)]]
            /\ UNCHANGED twice
    /\ UNCHANGED <<convo, message, page, sending, wire, asks, drops, missed, unsaid>>

\* Its second half, and chat_open's answer: the commit shows the conversation.
Create(u) ==
    /\ request[u].kind = "create"
    /\ convo' = Append(convo, request[u].with)
    /\ request' = [request EXCEPT ![u] =
           [Idle EXCEPT !.kind = "opened", !.convo = Len(convo) + 1]]
    /\ UNCHANGED <<message, page, sending, wire, asks, requests, drops, twice, missed, unsaid>>

\* chat_history, up to mark_read; then what it answers.
History(u, c) ==
    /\ request[u] = Idle /\ u \in convo[c] /\ requests < MaxRequests
    /\ requests' = requests + 1
    /\ message' = MarkedRead(c, u)
    /\ request' = [request EXCEPT ![u] = [Idle EXCEPT !.kind = "marked", !.convo = c]]
    /\ UNCHANGED <<convo, page, sending, wire, asks, drops, twice, missed, unsaid>>

Answer(u) ==
    /\ request[u].kind = "marked"
    /\ request' = [request EXCEPT ![u].kind = "history", ![u].found = Stored(request[u].convo)]
    /\ UNCHANGED <<convo, message, page, sending, wire, asks, requests, drops, twice, missed, unsaid>>

\* The page shows the answer.  Opened from the list, it also says that it shows
\* the conversation; opened from the directory, it does not.
\* Mutant of Show: it never says so, for the history was marked already.
ShowSilently(u) ==
    /\ request[u].kind \in {"opened", "history"}
    /\ LET c == request[u].convo
           new == {i \in request[u].found : ~message[i].read}
       IN /\ page' = [page EXCEPT ![u].at = c, ![u].shown = @ \cup request[u].found]
          /\ unsaid' = IF request[u].kind = "opened" \/ ~page[u].online
                       THEN unsaid \cup new ELSE unsaid
    /\ request' = [request EXCEPT ![u] = Idle]
    /\ UNCHANGED <<convo, message, sending, wire, asks, requests, drops, twice, missed>>
Show(u) ==
    /\ request[u].kind \in {"opened", "history"}
    /\ LET c == request[u].convo
           new == {i \in request[u].found : ~message[i].read}
           says == request[u].kind = "history" /\ page[u].online
       IN /\ page' = [page EXCEPT ![u].at = c, ![u].shown = @ \cup request[u].found]
          /\ asks' = IF says THEN [asks EXCEPT ![u] = @ \cup {c}] ELSE asks
          /\ unsaid' = IF says THEN unsaid ELSE unsaid \cup new
    /\ request' = [request EXCEPT ![u] = Idle]
    /\ UNCHANGED <<convo, message, sending, wire, requests, drops, twice, missed>>

\* Back to the list.
Leave(u) ==
    /\ page[u].at # 0
    /\ page' = [page EXCEPT ![u].at = 0]
    /\ UNCHANGED <<convo, message, request, sending, wire, asks, requests, drops, twice, missed, unsaid>>

-----------------------------------------------------------------------------
(***************************************************************************)
(* Messages: saved, pushed to the other user, shown by his page.           *)
(***************************************************************************)

Writes(u, upload) ==
    /\ page[u].at # 0 /\ sending[u] = Sent /\ Len(message) < MaxMessages
    /\ message' = Append(message,
           [convo |-> page[u].at, from |-> u, saved |-> ~upload, read |-> FALSE])
    /\ sending' = [sending EXCEPT ![u] =
           [id |-> Len(message) + 1, pushed |-> FALSE, upload |-> upload]]
    /\ UNCHANGED <<convo, page, request, wire, asks, requests, drops, twice, missed, unsaid>>

\* _handle_send over the socket, chat_upload over HTTP.  In a tenant's database
\* an upload is saved at once, as a text is.
SendText(u) == page[u].online /\ Writes(u, FALSE)
Upload(u) == Writes(u, TRUE)

\* group_send, to the page of the other.
Push(u) ==
    /\ sending[u].id # 0 /\ ~sending[u].pushed
    /\ sending' = [sending EXCEPT ![u] = IF @.upload THEN [@ EXCEPT !.pushed = TRUE] ELSE Sent]
    /\ LET v == Reader(sending[u].id)
       IN IF page[v].online
          THEN /\ wire' = [wire EXCEPT ![v] = Append(@, sending[u].id)]
               /\ UNCHANGED missed
          ELSE /\ missed' = missed \cup {sending[u].id}
               /\ UNCHANGED wire
    /\ UNCHANGED <<convo, message, page, request, asks, requests, drops, twice, unsaid>>

\* The request of an upload ends: it commits, or a push failed.
EndUpload(u) ==
    /\ sending[u].upload
    /\ \/ sending[u].pushed /\ message' = [message EXCEPT ![sending[u].id].saved = TRUE]
       \/ UNCHANGED message
    /\ sending' = [sending EXCEPT ![u] = Sent]
    /\ UNCHANGED <<convo, page, request, wire, asks, requests, drops, twice, missed, unsaid>>

\* applyIncoming: the page shows the message if it shows its conversation, and
\* says so.
Take(u) ==
    /\ wire[u] # << >>
    /\ wire' = [wire EXCEPT ![u] = Tail(@)]
    /\ LET i == Head(wire[u])
           c == message[i].convo
           answered == request[u].convo = c /\ request[u].kind # "marked"
           said == c \in asks[u] \/ message[i].read
       IN IF page[u].at = c
          THEN /\ page' = [page EXCEPT ![u].shown = @ \cup {i}]
               /\ asks' = [asks EXCEPT ![u] = @ \cup {c}]
               /\ unsaid' = IF message[i].saved THEN unsaid ELSE unsaid \cup {i}
               /\ UNCHANGED missed
          ELSE /\ missed' = IF answered \/ said \/ ~message[i].saved
                            THEN missed \cup {i} ELSE missed
               /\ UNCHANGED <<page, asks, unsaid>>
    /\ UNCHANGED <<convo, message, request, sending, requests, drops, twice>>

\* _handle_read: all that the conversation holds now.
HandleRead(u, c) ==
    /\ c \in asks[u]
    /\ message' = MarkedRead(c, u)
    /\ asks' = [asks EXCEPT ![u] = @ \ {c}]
    /\ UNCHANGED <<convo, page, request, sending, wire, requests, drops, twice, missed, unsaid>>

-----------------------------------------------------------------------------
(***************************************************************************)
(* What gets lost.                                                         *)
(***************************************************************************)

OnWire(u) == {wire[u][k] : k \in DOMAIN wire[u]}

\* The socket closes, with what was on its way in either direction, and perhaps
\* with the handler of a text that was not pushed yet.
Close(u) ==
    /\ page[u].online /\ drops < MaxDrops
    /\ drops' = drops + 1
    /\ page' = [page EXCEPT ![u].online = FALSE]
    /\ wire' = [wire EXCEPT ![u] = << >>]
    /\ asks' = [asks EXCEPT ![u] = {}]
    /\ unsaid' = unsaid \cup {i \in page[u].shown : message[i].convo \in asks[u]}
    /\ \/ /\ missed' = missed \cup OnWire(u)
          /\ UNCHANGED sending
       \/ /\ sending[u] # Sent /\ ~sending[u].upload
          /\ missed' = missed \cup OnWire(u) \cup {sending[u].id}
          /\ sending' = [sending EXCEPT ![u] = Sent]
    /\ UNCHANGED <<convo, message, request, requests, twice>>

Reconnect(u) ==
    /\ ~page[u].online
    /\ page' = [page EXCEPT ![u].online = TRUE]
    /\ UNCHANGED <<convo, message, request, sending, wire, asks, requests, drops, twice, missed, unsaid>>

\* The answer of a request is lost; a conversation may have been created.
LoseAnswer(u) ==
    /\ request[u].kind \in {"opened", "marked", "history"} /\ drops < MaxDrops
    /\ drops' = drops + 1
    /\ missed' = missed \cup Stored(request[u].convo)
    /\ request' = [request EXCEPT ![u] = Idle]
    /\ UNCHANGED <<convo, message, page, sending, wire, asks, requests, twice, unsaid>>

Next ==
    \/ \E u \in Users, p \in Pairs : LookFor(u, p)
    \/ \E u \in Users, c \in DOMAIN convo : History(u, c) \/ HandleRead(u, c)
    \/ \E u \in Users :
           \/ Create(u) \/ Answer(u) \/ Show(u) \/ Leave(u)
           \/ SendText(u) \/ Upload(u) \/ Push(u) \/ EndUpload(u) \/ Take(u)
           \/ Close(u) \/ Reconnect(u) \/ LoseAnswer(u)

Spec == Init /\ [][Next]_vars

-----------------------------------------------------------------------------
(***************************************************************************)
(* Properties.                                                             *)
(***************************************************************************)

\* Two users have one conversation, unless two requests looked for it before
\* either had created it (services.py:43-60): however a conversation is left,
\* empty or not, the next request finds it.
OneThread == \A p \in Pairs \ twice : Cardinality(Between(p)) <= 1

\* A message on the way to the page, by a push or an answer.
Coming(i, v) ==
    \/ i \in OnWire(v)
    \/ \E u \in Users : sending[u].id = i /\ ~sending[u].pushed
    \/ /\ request[v].convo = message[i].convo
       /\ request[v].kind = "marked" \/ i \in request[v].found

\* What is marked as read was shown to its reader, or is on the way to the page,
\* although a page that shows a conversation marks all of it (services.py:182,
\* consumers.py:66-96, views.py:40-51).  What went past the page is excepted: a
\* push it took between an answer and its display, before its commit, or after
\* it had left a thread that it said it shows, and one that was lost.
ReadWasShown ==
    \A i \in DOMAIN message \ missed : message[i].read =>
        i \in page[Reader(i)].shown \/ Coming(i, Reader(i))

\* What a page shows to its reader becomes read: it has been, or the page's word
\* is on its way (consumers.py:66-96, chat.js).  Excepted is what the answer of
\* chat_open showed, what was shown while the socket was closed, and an upload
\* that was shown before it was saved (views.py:30-37, 54-71).
ShownIsRead ==
    \A i \in DOMAIN message \ unsaid :
        i \in page[Reader(i)].shown =>
            message[i].read \/ message[i].convo \in asks[Reader(i)]

=============================================================================
