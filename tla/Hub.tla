-------------------------------- MODULE Hub --------------------------------
(***************************************************************************)
(* The webserver's hub: pages over web sockets (cmd/server.go), the list   *)
(* of who is in which channel (tsc/clientlist.go) and the TeamSpeak        *)
(* server's chat (tsc/smsg.go).                                            *)
(*                                                                         *)
(* Each page has a handler goroutine.  The lister asks the TeamSpeak       *)
(* server, the listener is told by it; both hand over what they have to    *)
(* the broadcaster, over channels without a buffer, and it writes to every *)
(* page in the map that all share without a lock.                          *)
(***************************************************************************)
EXTENDS Naturals, Sequences, SequencesExt

CONSTANTS
    Pages,
    Nothing,  \* no message
    SockCap,  \* bound: messages between the hub and a page that does not read
    MaxChat,  \* bound: chat messages of users
    Quotes,   \* those whose text or nickname holds "invokerid=0"
    MaxMoves  \* bound: changes of who is in which channel

ASSUME NothingAssumption == Nothing \notin [kind : {"clientlist", "servermsg"}, n : Nat]
ASSUME HubAssumption ==
    SockCap \in Nat /\ SockCap > 0 /\ MaxChat \in Nat /\ Quotes \subseteq Nat /\ MaxMoves \in Nat

VARIABLES
    up,       \* the webserver runs
    conn,     \* conn[p]: "none", "open", "gone"
    clients,  \* the map of connections
    inbox,    \* what was written to a page and not read by it
    shows,    \* the list each page shows
    seen,     \* the chat each page shows, its own messages aside
    since,    \* history: broadcasts of chat before the page came
    msg,      \* what the broadcaster is writing, or Nothing
    todo,     \* the pages it has not come to
    lister,   \* "query" or "push"
    pairs,    \* the list it has
    listener, \* "scan" or "push"
    heard,    \* the chat message it has
    events,   \* what the TeamSpeak server has sent to the listener
    asks,     \* tsconn is connected
    listens,  \* the listener's connection is
    registered, \* and the TeamSpeak server has accepted login, use and registration
    room,     \* who is where
    chat,     \* what users have said, counted
    lost,     \* history: those said while the listener was not registered
    posted    \* history: the chat that the broadcaster took
pages   == <<conn, clients, inbox, shows, seen, since>>
hub     == <<msg, todo>>
lists   == <<lister, pairs>>
chatter == <<listener, heard, events, lost>>
world   == <<room, chat>>
links   == <<asks, listens, registered>>
vars == <<up, pages, hub, lists, chatter, world, links, posted>>

List(n) == [kind |-> "clientlist", n |-> n]
Chat(n) == [kind |-> "servermsg", n |-> n]

Init ==
    /\ up = TRUE
    /\ conn = [p \in Pages |-> "none"] /\ clients = {}
    /\ inbox = [p \in Pages |-> <<>>] /\ seen = inbox
    /\ shows = [p \in Pages |-> 0] /\ since = shows
    /\ msg = Nothing /\ todo = {}
    /\ lister = "query" /\ pairs = 0
    /\ listener = "scan" /\ heard = 0 /\ events = <<>>
    /\ asks = TRUE /\ listens = TRUE /\ registered \in BOOLEAN
    /\ room = 1 /\ chat = 0 /\ lost = {} /\ posted = <<>>

----------------------------------------------------------------------------
(***************************************************************************)
(* The TeamSpeak server, as long as there is a webserver to see it         *)
(***************************************************************************)
Move ==
    /\ up /\ room <= MaxMoves /\ room' = room + 1
    /\ UNCHANGED <<up, pages, hub, lists, chatter, links, chat, posted>>

Tells == listens /\ registered

UserSays ==
    /\ up /\ chat < MaxChat /\ chat' = chat + 1
    /\ IF Tells THEN events' = Append(events, chat') /\ UNCHANGED lost
                ELSE lost' = lost \union {chat'} /\ UNCHANGED events
    /\ UNCHANGED <<up, pages, hub, lists, listener, heard, links, room, posted>>

\* It hangs up on a connection that was idle for long, or ends.  Nothing is left of
\* the registration.
HangUp ==
    /\ up /\ listens /\ listens' = FALSE /\ registered' = FALSE /\ asks' \in {asks, FALSE}
    /\ UNCHANGED <<up, pages, hub, lists, chatter, world, posted>>

----------------------------------------------------------------------------
(***************************************************************************)
(* Pages and their handlers                                                *)
(***************************************************************************)
\* The map is shared without a lock: a page inserted during the broadcaster's
\* range may be visited by it or not.
Enter(p) ==
    /\ up /\ conn[p] = "none" /\ conn' = [conn EXCEPT ![p] = "open"]
    /\ clients' = clients \union {p}
    /\ \E visited \in IF msg = Nothing THEN {FALSE} ELSE BOOLEAN :
          /\ todo' = IF visited THEN todo \union {p} ELSE todo
          /\ since' = [since EXCEPT ![p] =
                Len(posted) - IF visited /\ msg.kind = "servermsg" THEN 1 ELSE 0]
    /\ UNCHANGED <<up, inbox, shows, seen, msg, lists, chatter, world, links, posted>>

\* The runtime notices the unlocked insertion, or the request is not for a web
\* socket, which is log.Fatal().
EnterFatal(p) ==
    /\ up /\ conn[p] = "none"
    /\ up' = FALSE
    /\ UNCHANGED <<pages, hub, lists, chatter, world, links, posted>>

\* "chatmessage": the handler has the TeamSpeak server say it, who is number 0.
\* Bound: it waits for the listener to have nothing else to read.
PageSays(p) ==
    /\ up /\ conn[p] = "open" /\ asks /\ events = <<>>
    /\ events' = IF Tells THEN Append(events, 0) ELSE events
    /\ UNCHANGED <<up, pages, hub, lists, listener, heard, lost, world, links, posted>>

ReadPage(p) ==
    /\ conn[p] = "open" /\ inbox[p] # <<>>
    /\ inbox' = [inbox EXCEPT ![p] = Tail(@)]
    /\ LET m == Head(inbox[p]) IN
        IF m.kind = "clientlist" THEN shows' = [shows EXCEPT ![p] = m.n] /\ UNCHANGED seen
        ELSE seen' = [seen EXCEPT ![p] = Append(@, m.n)] /\ UNCHANGED shows
    /\ UNCHANGED <<up, conn, clients, since, hub, lists, chatter, world, links, posted>>

\* ReadJSON() fails and the handler closes the connection, which stays in the map.
\* A write between the two is as good as one before.
Leave(p) ==
    /\ conn[p] = "open" /\ conn' = [conn EXCEPT ![p] = "gone"]
    /\ inbox' = [inbox EXCEPT ![p] = <<>>] /\ seen' = [seen EXCEPT ![p] = <<>>]
    /\ shows' = [shows EXCEPT ![p] = 0] /\ since' = [since EXCEPT ![p] = 0]
    /\ UNCHANGED <<up, clients, hub, lists, chatter, world, links, posted>>

----------------------------------------------------------------------------
(***************************************************************************)
(* handleMessages                                                          *)
(***************************************************************************)
Takes(m) ==
    /\ msg = Nothing /\ todo' = clients
    /\ msg' = IF clients = {} THEN Nothing ELSE m

TakeList ==
    /\ up /\ lister = "push" /\ Takes(List(pairs))
    /\ lister' = "query"
    /\ UNCHANGED <<up, pages, pairs, chatter, world, links, posted>>

TakeChat ==
    /\ up /\ listener = "push" /\ Takes(Chat(heard))
    /\ listener' = "scan" /\ heard' = 0 /\ posted' = Append(posted, heard)
    /\ UNCHANGED <<up, pages, lists, events, lost, world, links>>

Visits(p) ==
    /\ up /\ p \in todo /\ todo' = todo \ {p}
    /\ msg' = IF todo = {p} THEN Nothing ELSE msg
    /\ UNCHANGED <<up, lists, chatter, world, links, posted>>

\* Mutant: what does not fit is dropped.
WriteOrDrop(p) ==
    /\ Visits(p) /\ conn[p] = "open"
    /\ inbox' = IF Len(inbox[p]) < SockCap THEN [inbox EXCEPT ![p] = Append(@, msg)] ELSE inbox
    /\ UNCHANGED <<conn, clients, shows, seen, since>>

\* WriteJSON() blocks while there is no room.
Write(p) ==
    /\ Visits(p) /\ conn[p] = "open" /\ Len(inbox[p]) < SockCap
    /\ inbox' = [inbox EXCEPT ![p] = Append(@, msg)]
    /\ UNCHANGED <<conn, clients, shows, seen, since>>

\* Mutant: a failed write leaves the page in the map.
WriteFailsQuietly(p) == Visits(p) /\ conn[p] = "gone" /\ UNCHANGED pages

\* The page is forgotten when it was a list, else nothing is done.
WriteFails(p) ==
    /\ Visits(p) /\ conn[p] = "gone"
    /\ clients' = IF msg.kind = "clientlist" THEN clients \ {p} ELSE clients
    /\ UNCHANGED <<conn, inbox, shows, seen, since>>

----------------------------------------------------------------------------
(***************************************************************************)
(* PushClientList                                                          *)
(***************************************************************************)
Asked == UNCHANGED <<up, pages, hub, chatter, world, links, posted>>

\* Mutant: an error is pushed as an empty list.
QueryPushesError ==
    /\ up /\ lister = "query" /\ lister' = "push" /\ pairs' = IF asks THEN room ELSE 0
    /\ Asked

\* Mutant: only what is new is pushed.
QueryForNews ==
    /\ up /\ lister = "query" /\ asks
    /\ lister' = (IF pairs = room THEN "query" ELSE "push") /\ pairs' = room
    /\ Asked

\* On an error the lister sleeps and tries again; tsconn is never connected again.
Query ==
    /\ up /\ lister = "query" /\ asks
    /\ lister' = "push" /\ pairs' = room
    /\ Asked

----------------------------------------------------------------------------
(***************************************************************************)
(* ListenToServerMessages                                                  *)
(***************************************************************************)
Listens == UNCHANGED <<up, pages, hub, lists, lost, world, asks, posted>>

\* strings.Index() finds "invokerid=0" anywhere in the line: where the server
\* itself speaks, but also in what a user says or is called.
HoldsServerId(n) == n = 0 \/ n \in Quotes

\* Mutant: what the TeamSpeak server says itself is passed on, too.
ScanEverything ==
    /\ up /\ listener = "scan" /\ events # <<>>
    /\ events' = Tail(events) /\ heard' = Head(events) /\ listener' = "push"
    /\ UNCHANGED <<listens, registered>> /\ Listens

Scan ==
    /\ up /\ listener = "scan" /\ events # <<>>
    /\ events' = Tail(events)
    /\ IF HoldsServerId(Head(events)) THEN UNCHANGED <<heard, listener>>
       ELSE heard' = Head(events) /\ listener' = "push"
    /\ UNCHANGED <<listens, registered>> /\ Listens

\* The connection has ended and a keep-alive has failed.
ScanEnded == up /\ listener = "scan" /\ events = <<>> /\ ~listens

\* The replies to login, use and servernotifyregister are read and not looked at:
\* a connection that was refused them is kept, and hears nothing.
Reconnect ==
    /\ ScanEnded
    /\ listens' = TRUE /\ registered' \in BOOLEAN
    /\ UNCHANGED <<listener, heard, events>> /\ Listens

\* log.Fatal() ends the webserver: a step of the connection fails, or the chat
\* history cannot be written.
ListenerFatal ==
    /\ \/ ScanEnded
       \/ up /\ listener = "scan" /\ events # <<>> /\ ~HoldsServerId(Head(events))
    /\ up' = FALSE
    /\ UNCHANGED <<pages, hub, lists, chatter, world, links, posted>>

----------------------------------------------------------------------------
Broadcasts == TakeList \/ TakeChat \/ \E p \in Pages : Write(p) \/ WriteFails(p)
Hears == Scan \/ Reconnect

Next ==
    \/ Move \/ UserSays \/ HangUp
    \/ \E p \in Pages : Enter(p) \/ EnterFatal(p) \/ PageSays(p) \/ ReadPage(p) \/ Leave(p)
    \/ Broadcasts \/ Query \/ Hears \/ ListenerFatal

\* Goroutines run; select picks each channel that is ready again and again; a page
\* that stays reads.
Fairness ==
    /\ WF_vars(Broadcasts) /\ SF_vars(TakeList) /\ SF_vars(TakeChat)
    /\ WF_vars(Query) /\ WF_vars(Hears)
    /\ \A p \in Pages : WF_vars(ReadPage(p))

Spec == Init /\ [][Next]_vars /\ Fairness

----------------------------------------------------------------------------

\* The places of chat in s, and the chat.
ChatAt(s) == {i \in 1 .. Len(s) : s[i].kind = "servermsg"}
ChatIn(s) == {s[i].n : i \in ChatAt(s)}

\* A page has what was broadcast since it came, all of it, once and in order
\* (server.go 172-205), but for the one that is on its way to it.
PagesMissNothing ==
    \A p \in Pages : conn[p] = "open" =>
        LET due == since[p] + 1 ..
                   Len(posted) - IF p \in todo /\ msg.kind = "servermsg" THEN 1 ELSE 0
        IN  /\ ToSet(seen[p]) \union ChatIn(inbox[p]) = {posted[i] : i \in due}
            /\ \A i, j \in 1 .. Len(seen[p]) : i < j => seen[p][i] < seen[p][j]
            /\ \A i, j \in ChatAt(inbox[p]) : i < j => inbox[p][i].n < inbox[p][j].n
            /\ \A n \in ToSet(seen[p]), m \in ChatIn(inbox[p]) : n < m

\* What the TeamSpeak server told the listener, but for what that passed over.
Told == posted \o (IF listener = "push" THEN <<heard>> ELSE <<>>) \o events

\* What users say is broadcast once and in order, or on its way to be, unless it
\* was said while the listener was not registered, or its line holds the text that
\* the server's own is told by; none of that comes to the pages (smsg.go 93-139).
ChatIsRelayed ==
    /\ \A i, j \in 1 .. Len(Told) : i < j /\ Told[j] # 0 => Told[i] < Told[j]
    /\ {n \in ToSet(Told) : ~HoldsServerId(n)} = ((1 .. chat) \ lost) \ Quotes
    /\ \A n \in ToSet(posted) : ~HoldsServerId(n)

\* "listen to server text events and pass them to relevant channel" (smsg.go 15):
\* what users say while the listener is registered is passed on.  The search for
\* "invokerid=0" breaks it.
UsersAreHeard == ToSet(Told) \ {0} = (1 .. chat) \ lost

\* No page goes back to an older list (clientlist.go 25-47).
ListsGoForward == [][\A p \in Pages : conn'[p] = "open" => shows'[p] >= shows[p]]_vars

\* The connection that the webserver was started with, and the webserver, last.
Lasts == asks /\ up

\* When no more happens every page that stays shows who is there, for good, as
\* long as the connection lasts (clientlist.go 25-47).
PagesAreCurrent == <>[](Lasts => \A p \in Pages : conn[p] = "open" => shows[p] = room)

\* Pages that went away are forgotten (server.go 134, 188), on the same condition:
\* it takes a list to find out.
PagesAreForgotten == <>[](Lasts => \A p \in clients : conn[p] = "open")
=============================================================================
