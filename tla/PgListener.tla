---- MODULE PgListener ----
(***************************************************************************)
(* The bridge from PostgreSQL's NOTIFY to the WebSocket service.  One      *)
(* listener object holds one field for its pg client and one reconnect     *)
(* timer; a client reports its failures through callbacks, which all write *)
(* that same field whichever client they come from.  The error of a        *)
(* connection and its end are two events, and a successor may be created   *)
(* between them.                                                           *)
(*                                                                         *)
(* A notification names a schema; the listener maps it to a project with a *)
(* cache that it reloads at most every thirty seconds, and an unknown      *)
(* schema makes the handler wait for that reload while others run.         *)
(***************************************************************************)
EXTENDS RealtimeBase, FiniteSets, Naturals, Sequences

CONSTANTS
    Clients,     \* pg client objects; one that has ended may stand for a new one
    MaxEvents,   \* bound: notifications committed
    MaxFailures, \* bound: failures of connections and of attempts to connect
    NoClient     \* the field holds null

ASSUME ListenerAssumption ==
    /\ NoClient \notin Clients
    /\ MaxEvents \in Nat /\ MaxFailures \in Nat

VARIABLES
    conn,      \* the phase of each client
    asked,     \* clients on which another client's connect() has queued LISTEN
    current,   \* the client field
    timer,     \* the reconnect timer is armed
    stopped,   \* shuttingDown
    failures,
    origin,    \* the project and the table of each notification, in commit order
    inbox,     \* notifications sent to each client and not yet handled
    created,   \* projects in the database
    cache,     \* projects in the schema cache
    cacheOld,  \* it was loaded more than thirty seconds ago
    waiting,   \* handlers waiting for the cache to be reloaded: the client, the
               \* notification and the projects there were when the wait began
    waited,    \* history: notifications that ever did
    delivered, \* history: notifications broadcast, in order
    lateEnd    \* history: the end of a client came when it had a successor

clientVars == <<conn, asked, current, timer, failures, lateEnd>>
cacheVars == <<created, cache, cacheOld>>
eventVars == <<origin, waiting, waited, delivered>>
listenerVars == <<clientVars, stopped, inbox, cacheVars, eventVars>>

Listening(c) == conn[c] = "listening"

Alive == {"connecting", "attaching", "listening", "idle"}

----------------------------------------------------------------------------
\* start() has loaded the cache, or failed to, and is about to connect.
ListenerInit ==
    /\ conn = [c \in Clients |-> "unused"]
    /\ asked = {}
    /\ current = NoClient
    /\ timer = TRUE
    /\ stopped = FALSE
    /\ failures = 0
    /\ origin = <<>>
    /\ inbox = [c \in Clients |-> <<>>]
    /\ created \in SUBSET Projects
    /\ cache \in {{}, created}
    /\ cacheOld = (cache # created)
    /\ waiting = {}
    /\ waited = {}
    /\ delivered = <<>>
    /\ lateEnd = FALSE

\* The timer fires: connect() makes a client and waits for its connection.
Connect(c) ==
    /\ timer
    /\ ~stopped
    /\ conn[c] \in {"unused", "ended"}
    /\ timer' = FALSE
    /\ current' = c
    /\ conn' = [conn EXCEPT ![c] = "connecting"]
    /\ UNCHANGED <<asked, failures, lateEnd, stopped, inbox, cacheVars, eventVars>>

\* The connection is refused: connect() catches the rejection and arms the
\* timer, and the end of the client is still to be reported.
ConnectFails(c) ==
    /\ conn[c] = "connecting"
    /\ failures < MaxFailures
    /\ failures' = failures + 1
    /\ conn' = [conn EXCEPT ![c] = "ending"]
    /\ timer' = ~stopped
    /\ UNCHANGED <<asked, current, lateEnd, stopped, inbox, cacheVars, eventVars>>

\* Mutant: every attempt leaves the timer armed.
ConnectedKeepsTimer(c) ==
    /\ conn[c] = "connecting"
    /\ conn' = [conn EXCEPT ![c] = "attaching"]
    /\ timer' = ~stopped
    /\ UNCHANGED <<asked, current, failures, lateEnd, stopped, inbox, cacheVars, eventVars>>

\* Connected: connect() sends LISTEN to the client the field holds NOW.  When the
\* field is null it throws and tries again; this client stays connected, unused.
Connected(c) ==
    /\ conn[c] = "connecting"
    /\ conn' = [conn EXCEPT ![c] = IF current = c \/ c \in asked THEN "attaching" ELSE "idle"]
    /\ asked' = (asked \ {c}) \cup ({current} \ {c, NoClient})
    /\ timer' = (timer \/ (current = NoClient /\ ~stopped))
    /\ UNCHANGED <<current, failures, lateEnd, stopped, inbox, cacheVars, eventVars>>

\* LISTEN has taken effect; on a client that was idle, by another's request.
Attach(c) ==
    /\ \/ conn[c] = "attaching"
       \/ conn[c] = "idle" /\ c \in asked
    /\ conn' = [conn EXCEPT ![c] = "listening"]
    /\ asked' = asked \ {c}
    /\ UNCHANGED <<current, timer, failures, lateEnd, stopped, inbox, cacheVars, eventVars>>

\* A connection breaks: onClientError ends the client the field holds, whoever
\* failed, clears the field and arms the timer.
Break(c) ==
    /\ conn[c] \in {"attaching", "listening", "idle"}
    /\ failures < MaxFailures
    /\ failures' = failures + 1
    /\ conn' = [d \in Clients |-> IF d = c \/ (d = current /\ conn[d] \in Alive)
                                  THEN "ending" ELSE conn[d]]
    /\ inbox' = [inbox EXCEPT ![c] = <<>>]
    /\ asked' = asked \ {c, current}
    /\ current' = NoClient
    /\ timer' = ~stopped
    /\ UNCHANGED <<lateEnd, stopped, cacheVars, eventVars>>

\* Mutant: a pending timer is cleared and not armed again.
EndClearsTimer(c) ==
    /\ conn[c] = "ending"
    /\ conn' = [conn EXCEPT ![c] = "ended"]
    /\ inbox' = [inbox EXCEPT ![c] = <<>>]
    /\ asked' = asked \ {c}
    /\ current' = NoClient
    /\ timer' = (~timer /\ ~stopped)
    /\ UNCHANGED <<failures, lateEnd, stopped, cacheVars, eventVars>>

\* onClientEnd clears the field and arms the timer, even if the field holds a
\* successor by now.
End(c) ==
    /\ conn[c] = "ending"
    /\ conn' = [conn EXCEPT ![c] = "ended"]
    /\ inbox' = [inbox EXCEPT ![c] = <<>>]
    /\ asked' = asked \ {c}
    /\ IF stopped
       THEN UNCHANGED <<current, timer, lateEnd>>
       ELSE /\ current' = NoClient
            /\ timer' = TRUE
            /\ lateEnd' = (lateEnd \/ current \notin {c, NoClient})
    /\ UNCHANGED <<failures, stopped, cacheVars, eventVars>>

\* Mutant: the field is cleared before its client is ended.
StopForgetsClient ==
    /\ ~stopped
    /\ stopped' = TRUE
    /\ timer' = FALSE
    /\ current' = NoClient
    /\ UNCHANGED <<conn, asked, failures, lateEnd, inbox, cacheVars, eventVars>>

\* Shutdown ends the client the field holds.
Stop ==
    /\ ~stopped
    /\ stopped' = TRUE
    /\ timer' = FALSE
    /\ conn' = [c \in Clients |-> IF c = current /\ conn[c] \in Alive THEN "ending" ELSE conn[c]]
    /\ asked' = asked \ {current}
    /\ current' = NoClient
    /\ UNCHANGED <<failures, lateEnd, inbox, cacheVars, eventVars>>

----------------------------------------------------------------------------
CreateProject(p) ==
    /\ p \notin created
    /\ created' = created \cup {p}
    /\ UNCHANGED <<clientVars, stopped, inbox, cache, cacheOld, eventVars>>

\* Mutant: a transaction that rolls back notifies too.
NotifyUncommitted(p, t) ==
    /\ p \in created
    /\ Len(origin) < MaxEvents
    /\ inbox' = [c \in Clients |-> IF Listening(c) THEN Append(inbox[c], Len(origin) + 1) ELSE inbox[c]]
    /\ UNCHANGED <<clientVars, stopped, cacheVars, eventVars>>

\* A transaction that called df_emit commits: every listening session is notified.
Notify(p, t) ==
    /\ p \in created
    /\ Len(origin) < MaxEvents
    /\ origin' = Append(origin, [project |-> p, table |-> t])
    /\ inbox' = [c \in Clients |-> IF Listening(c) THEN Append(inbox[c], Len(origin')) ELSE inbox[c]]
    /\ UNCHANGED <<clientVars, stopped, cacheVars, waiting, waited, delivered>>

AgeCache ==
    /\ ~cacheOld
    /\ cacheOld' = TRUE
    /\ UNCHANGED <<clientVars, stopped, inbox, created, cache, eventVars>>

Receive(c) ==
    /\ inbox[c] # <<>>
    /\ inbox' = [inbox EXCEPT ![c] = Tail(@)]

\* Mutant: the newest notification is handled first.
DeliverNewest(c) ==
    LET e == inbox[c][Len(inbox[c])] IN
    /\ inbox[c] # <<>>
    /\ inbox' = [inbox EXCEPT ![c] = SubSeq(@, 1, Len(@) - 1)]
    /\ origin[e].project \in cache
    /\ delivered' = Append(delivered, e)
    /\ UNCHANGED <<clientVars, stopped, cacheVars, origin, waiting, waited>>

\* A known schema is broadcast at once, in the callback itself.
Deliver(c) ==
    LET e == Head(inbox[c]) IN
    /\ Receive(c)
    /\ origin[e].project \in cache
    /\ delivered' = Append(delivered, e)
    /\ UNCHANGED <<clientVars, stopped, cacheVars, origin, waiting, waited>>

\* An unknown schema is dropped while the cache is young.
Drop(c) ==
    LET e == Head(inbox[c]) IN
    /\ Receive(c)
    /\ origin[e].project \notin cache
    /\ ~cacheOld
    /\ UNCHANGED <<clientVars, stopped, cacheVars, eventVars>>

\* Otherwise its handler waits for the cache to be loaded again.
AwaitCache(c) ==
    LET e == Head(inbox[c]) IN
    /\ Receive(c)
    /\ origin[e].project \notin cache
    /\ cacheOld
    /\ waiting' = waiting \cup {<<c, e, created>>}
    /\ waited' = waited \cup {e}
    /\ UNCHANGED <<clientVars, stopped, cacheVars, origin, delivered>>

\* The cache has been loaded, from what the query saw at one moment of the wait, or
\* could not be, and the handler goes on.
Reload(w) ==
    LET e == w[2] IN
    /\ w \in waiting
    /\ waiting' = waiting \ {w}
    /\ \/ \E seen \in SUBSET created :
            w[3] \subseteq seen /\ cache' = seen /\ cacheOld' = FALSE
       \/ UNCHANGED <<cache, cacheOld>>
    /\ delivered' = IF origin[e].project \in cache' THEN Append(delivered, e) ELSE delivered
    /\ UNCHANGED <<clientVars, stopped, inbox, created, origin, waited>>

----------------------------------------------------------------------------
Manage(c) == Connect(c) \/ ConnectFails(c) \/ Connected(c) \/ Attach(c) \/ Break(c) \/ End(c)

\* Steps that broadcast nothing.
ListenerQuiet ==
    \/ \E c \in Clients : Manage(c) \/ Drop(c) \/ AwaitCache(c)
    \/ \E p \in Projects : CreateProject(p) \/ \E t \in Tables : Notify(p, t)
    \/ AgeCache
    \/ Stop

ListenerNext ==
    \/ ListenerQuiet
    \/ \E c \in Clients : Deliver(c)
    \/ \E w \in waiting : Reload(w)

\* Timers fire, and a connection attempt or a query is answered in the end.
ListenerFairness ==
    /\ WF_listenerVars(\E c \in Clients : Connect(c))
    /\ \A c \in Clients :
        /\ WF_listenerVars(Connected(c))
        /\ WF_listenerVars(Attach(c))
        /\ WF_listenerVars(End(c))

ListenerSpec == ListenerInit /\ [][ListenerNext]_listenerVars /\ ListenerFairness

----------------------------------------------------------------------------
Phases == {"unused", "connecting", "attaching", "listening", "idle", "ending", "ended"}

\* Type invariant of the listener.
ListenerTypeOK ==
    /\ conn \in [Clients -> Phases]
    /\ asked \subseteq Clients
    /\ current \in Clients \cup {NoClient}
    /\ timer \in BOOLEAN /\ stopped \in BOOLEAN /\ cacheOld \in BOOLEAN /\ lateEnd \in BOOLEAN
    /\ failures \in Nat
    /\ origin \in Seq([project : Projects, table : Tables])
    /\ \A c \in Clients : \A i \in DOMAIN inbox[c] : inbox[c][i] \in DOMAIN origin
    /\ created \subseteq Projects /\ cache \subseteq created
    /\ waiting \subseteq Clients \X (DOMAIN origin) \X (SUBSET created)
    /\ waited \subseteq DOMAIN origin
    /\ \A i \in DOMAIN delivered : delivered[i] \in DOMAIN origin

\* A notification is broadcast twice only if the end of a client was reported after
\* its successor had been created: a second listener has no other cause.
DuplicatesExplained ==
    \A i, j \in DOMAIN delivered : i # j /\ delivered[i] = delivered[j] => lateEnd

\* Notifications are broadcast in commit order, except around one that had to wait
\* for the schema cache and except by a second listener.
OrderExplained ==
    \A i, j \in DOMAIN delivered :
        i < j /\ delivered[i] > delivered[j] =>
            lateEnd \/ delivered[i] \in waited \/ delivered[j] \in waited

\* After stop() no client goes on or begins to listen, except one that the late end
\* of another hid from it.
StopIsFinal == stopped /\ ~lateEnd => \A c \in Clients : conn[c] \notin Alive

\* However connections fail and their reports interleave, the listener is connected
\* again in the end and stays so: no order of error, end and timer strands it.
ListensAgain == <>[](stopped \/ \E c \in Clients : Listening(c))
====
