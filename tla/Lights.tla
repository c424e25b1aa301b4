------------------------------- MODULE Lights -------------------------------
(***************************************************************************)
(* The lights switch: webserver/cmd/elights/lights.go on the server and    *)
(* webserver/static/lights.js in every page that shows it.                 *)
(*                                                                         *)
(* Each page's socket has a goroutine of its own (lightsConnHandler),      *)
(* which hands values to the one that broadcasts them (handleLightToggles) *)
(* over the unbuffered channel `toggle`: a handler holds its value until   *)
(* the broadcaster takes it.                                               *)
(***************************************************************************)
EXTENDS Naturals, Sequences, SequencesExt

CONSTANTS
    Pages,
    None,
    MaxClicks  \* bound: clicks in all

ASSUME PagesAssumption == None \notin Pages
ASSUME MaxClicksAssumption == MaxClicks \in Nat

\* A string read while it is written may be neither the old nor the new one.
Torn == "Torn"
Flip(v) == IF v = "On" THEN "Off" ELSE "On"
Query == "?"   \* getCurrentToggle; a value stands for toggleLight with it

VARIABLES
    currentToggle,
    clients,   \* the map: pages the broadcaster writes to
    page,      \* page[p]: "none", "loaded", "open" or "closed"
    shown,     \* shown[p]: the text of the button
    conn,      \* conn[p]: p has "none", or its handler has "upgraded" it, or is
               \* "serving" it
    up,        \* up[p]: messages on their way to the handler
    down,      \* down[p]: values on their way to the page
    held,      \* held[p]: the value that p's handler sends on `toggle`, and
               \* whether a query made it
    sending,   \* the value being broadcast, None between two
    left,      \* clients the range over the map has yet to visit
    asked,     \* history: a query, no click, made the value being broadcast
    clicks     \* history: how many clicks there were

vars == <<currentToggle, clients, page, shown, conn, up, down, held, sending, left, asked, clicks>>
browser == <<page, shown, clicks>>
broadcaster == <<currentToggle, sending, left, asked>>

Init ==
    /\ currentToggle = "On"
    /\ clients = {}
    /\ page = [p \in Pages |-> "none"] /\ shown = [p \in Pages |-> None]
    /\ conn = page
    /\ up = [p \in Pages |-> <<>>] /\ down = up
    /\ held = [p \in Pages |-> None]
    /\ sending = None /\ left = {} /\ asked = FALSE
    /\ clicks = 0

----------------------------------------------------------------------------
(***************************************************************************)
(* The page                                                                *)
(***************************************************************************)
\* What a goroutine may find in currentToggle: Done assigns it without a lock.
Reads == IF sending # None /\ left = {} /\ sending # currentToggle
         THEN {currentToggle, Torn} ELSE {currentToggle}

\* lightPageHandler fills in the toggle as it is now.
Load(p) ==
    /\ page[p] = "none"
    /\ page' = [page EXCEPT ![p] = "loaded"]
    /\ \E v \in Reads : shown' = [shown EXCEPT ![p] = v]
    /\ UNCHANGED <<clients, conn, up, down, held, broadcaster, clicks>>

\* Mutant: the page does not ask, it trusts what it was loaded with.
OpenSilent(p) ==
    /\ page[p] = "loaded"
    /\ page' = [page EXCEPT ![p] = "open"] /\ conn' = [conn EXCEPT ![p] = "upgraded"]
    /\ UNCHANGED <<clients, up, down, shown, held, broadcaster, clicks>>

\* The socket opens, and the page asks.
Open(p) ==
    /\ page[p] = "loaded"
    /\ page' = [page EXCEPT ![p] = "open"] /\ conn' = [conn EXCEPT ![p] = "upgraded"]
    /\ up' = [up EXCEPT ![p] = Append(@, Query)]
    /\ UNCHANGED <<clients, down, shown, held, broadcaster, clicks>>

\* toggleLight: the page shows the new value at once and sends it.
Click(p) ==
    /\ page[p] = "open" /\ clicks < MaxClicks
    /\ clicks' = clicks + 1
    /\ shown' = [shown EXCEPT ![p] = Flip(@)]
    /\ up' = [up EXCEPT ![p] = Append(@, shown'[p])]
    /\ UNCHANGED <<clients, page, conn, down, held, broadcaster>>

Message(p) ==
    /\ page[p] = "open" /\ down[p] # <<>>
    /\ shown' = [shown EXCEPT ![p] = Head(down[p])]
    /\ down' = [down EXCEPT ![p] = Tail(@)]
    /\ UNCHANGED <<clients, page, conn, up, held, broadcaster, clicks>>

\* The user leaves.  The handler's read fails, after what still came; the entry
\* in the map stays.
Leave(p) ==
    /\ page[p] \in {"loaded", "open"}
    /\ page' = [page EXCEPT ![p] = "closed"]
    /\ up' \in {up, [up EXCEPT ![p] = <<>>]} /\ down' = [down EXCEPT ![p] = <<>>]
    /\ UNCHANGED <<clients, conn, shown, held, broadcaster, clicks>>

----------------------------------------------------------------------------
(***************************************************************************)
(* lightsConnHandler                                                       *)
(***************************************************************************)
\* The connection is entered in the map, without a lock.  While the broadcaster
\* ranges over the map the range may visit the new entry or not.
Enter(p) ==
    /\ conn[p] = "upgraded"
    /\ conn' = [conn EXCEPT ![p] = "serving"]
    /\ clients' = clients \union {p}
    /\ left' \in IF sending = None THEN {left} ELSE {left, left \union {p}}
    /\ UNCHANGED <<browser, up, down, held, currentToggle, sending, asked>>

\* Or the runtime notices and ends the server ("concurrent map iteration and
\* map write"); the one that the manager then starts begins anew.
EnterFatal(p) ==
    /\ conn[p] = "upgraded"
    /\ sending # None \/ \E q \in Pages \ {p} : conn[q] = "upgraded"
    /\ page' = [q \in Pages |-> IF page[q] = "open" THEN "closed" ELSE page[q]]
    /\ conn' = [q \in Pages |-> "none"]
    /\ currentToggle' = "On" /\ clients' = {}
    /\ up' = [q \in Pages |-> <<>>] /\ down' = up'
    /\ held' = [q \in Pages |-> None]
    /\ sending' = None /\ left' = {} /\ asked' = FALSE
    /\ UNCHANGED <<shown, clicks>>

\* A message is read; what is sent on the channel is evaluated now.
Handle(p) ==
    /\ conn[p] = "serving" /\ held[p] = None /\ up[p] # <<>>
    /\ IF Head(up[p]) = Query
       THEN \E v \in Reads : held' = [held EXCEPT ![p] = [value |-> v, query |-> TRUE]]
       ELSE held' = [held EXCEPT ![p] = [value |-> Head(up[p]), query |-> FALSE]]
    /\ up' = [up EXCEPT ![p] = Tail(@)]
    /\ UNCHANGED <<clients, browser, conn, down, broadcaster>>

----------------------------------------------------------------------------
(***************************************************************************)
(* handleLightToggles                                                      *)
(***************************************************************************)
\* The channel's rendezvous with one of the handlers that wait.
Take(p) ==
    /\ sending = None /\ held[p] # None
    /\ sending' = held[p].value /\ asked' = held[p].query
    /\ left' = clients
    /\ held' = [held EXCEPT ![p] = None]
    /\ UNCHANGED <<currentToggle, clients, browser, conn, up, down>>

\* WriteJSON to one of the clients; one that has left is taken from the map.
Write(p) ==
    /\ sending # None /\ p \in left
    /\ left' = left \ {p}
    /\ IF page[p] = "open"
       THEN down' = [down EXCEPT ![p] = Append(@, sending)] /\ UNCHANGED clients
       ELSE clients' = clients \ {p} /\ UNCHANGED down
    /\ UNCHANGED <<currentToggle, browser, conn, up, held, sending, asked>>

\* Only after the last write is the value the current one.
Done ==
    /\ sending # None /\ left = {}
    /\ currentToggle' = sending
    /\ sending' = None /\ asked' = FALSE
    /\ UNCHANGED <<clients, browser, conn, up, down, held, left>>

----------------------------------------------------------------------------
Broadcasts == Done \/ \E p \in Pages : Take(p) \/ Write(p)

Next ==
    \/ \E p \in Pages : Load(p) \/ Open(p) \/ Click(p) \/ Message(p) \/ Leave(p)
                        \/ Enter(p) \/ EnterFatal(p) \/ Handle(p)
    \/ Broadcasts

\* Goroutines run, and a page that is open handles what it is sent.  Select
\* takes the waiting handlers in the order they came.
Fairness ==
    /\ WF_vars(Broadcasts)
    /\ \A p \in Pages : /\ WF_vars(Enter(p)) /\ WF_vars(Handle(p)) /\ SF_vars(Take(p))
                         /\ WF_vars(Message(p))

Spec == Init /\ [][Next]_vars /\ Fairness

----------------------------------------------------------------------------

\* Once the clicks are over, that is where the system ends.
Settles == <>[](\A p \in Pages : page[p] = "open" => shown[p] = currentToggle)

\* A page that opens asks for the current status (lights.js 5-16); asking does
\* not change it.
QueryChangesNothing == [][asked => currentToggle' = currentToggle]_vars
=============================================================================
