---- MODULE WebSocket ----
(***************************************************************************)
(* The WebSocket service: admission of connections, subscriptions and      *)
(* broadcasts.  The route authenticates a new socket with several awaits   *)
(* and attaches its message and close handlers only after the last of      *)
(* them, together with the count of the project's connections.             *)
(*                                                                         *)
(* A subscription is an object of its own: a socket that subscribes twice  *)
(* to a channel holds two, while its set of channels holds the name once.  *)
(***************************************************************************)
EXTENDS RealtimeBase, FiniteSets, Naturals

CONSTANTS
    Sockets,
    Slugs,          \* names a client may give in project:<slug>
    MaxConnections, \* connections of a project
    MaxChannels,    \* MAX_CHANNELS_PER_CLIENT
    MaxRepeats,     \* bound: subscriptions of a socket to one channel
    Messages        \* what is broadcast

ASSUME SocketAssumption ==
    /\ IsFiniteSet(Sockets)
    /\ MaxConnections \in Nat /\ MaxChannels \in Nat /\ MaxRepeats \in Nat

VARIABLES
    home,           \* the project in the path of each socket
    phase,
    connectionCount,
    channels,       \* how many subscriptions of a socket a channel holds
    clientChannels, \* the set kept by the route for each socket
    repeated,       \* history: channels a socket subscribed to while it held them
    got             \* how many copies of a message each socket was sent

socketVars == <<home, phase, connectionCount, channels, clientChannels, repeated, got>>

\* Keys of the channels map.  A client asks for a kind and a name, and the route puts
\* the project's id between them.
Asks == ({"table"} \X Tables) \cup ({"project"} \X Slugs)

\* Mutant: one namespace for the channels of all projects.
FullChannelOfAnyProject(s, ask) == <<ask[1], CHOOSE p \in Projects : TRUE, ask[2]>>

FullChannel(s, ask) == <<ask[1], home[s], ask[2]>>

Keys == ({"table"} \X Projects \X Tables) \cup ({"project"} \X Projects \X Slugs)
            \cup ({"project"} \X Projects)

----------------------------------------------------------------------------
SocketInit ==
    /\ home \in [Sockets -> Projects]
    /\ phase = [s \in Sockets |-> "handshake"]
    /\ connectionCount = [p \in Projects |-> 0]
    /\ channels = [s \in Sockets |-> [k \in Keys |-> 0]]
    /\ clientChannels = [s \in Sockets |-> {}]
    /\ repeated = [s \in Sockets |-> {}]
    /\ got = [s \in Sockets |-> [m \in Messages |-> 0]]

\* The peer goes away while the route is at one of its awaits.
Vanish(s) ==
    /\ phase[s] = "handshake"
    /\ phase' = [phase EXCEPT ![s] = "vanished"]
    /\ UNCHANGED <<home, connectionCount, channels, clientChannels, repeated, got>>

\* No token, a token of another project, the module is disabled, or an await fails.
RefuseSocket(s) ==
    /\ phase[s] \in {"handshake", "vanished"}
    /\ phase' = [phase EXCEPT ![s] = "closed"]
    /\ UNCHANGED <<home, connectionCount, channels, clientChannels, repeated, got>>

QuotaExceeded(s) ==
    /\ connectionCount[home[s]] >= MaxConnections
    /\ RefuseSocket(s)

\* Mutant: one connection too many.
AdmitOneMore(s) ==
    /\ phase[s] \in {"handshake", "vanished"}
    /\ connectionCount[home[s]] <= MaxConnections
    /\ connectionCount' = [connectionCount EXCEPT ![home[s]] = @ + 1]
    /\ phase' = [phase EXCEPT ![s] = IF @ = "handshake" THEN "open" ELSE "leaked"]
    /\ UNCHANGED <<home, channels, clientChannels, repeated, got>>

\* No await lies between the check of the quota and the increment.  The close event
\* of a socket that vanished has already been emitted: no handler will see it.
Admit(s) ==
    /\ phase[s] \in {"handshake", "vanished"}
    /\ connectionCount[home[s]] < MaxConnections
    /\ connectionCount' = [connectionCount EXCEPT ![home[s]] = @ + 1]
    /\ phase' = [phase EXCEPT ![s] = IF @ = "handshake" THEN "open" ELSE "leaked"]
    /\ UNCHANGED <<home, channels, clientChannels, repeated, got>>

Subscribe(s, ask) ==
    LET ch == FullChannel(s, ask) IN
    /\ phase[s] = "open"
    /\ Cardinality(clientChannels[s]) < MaxChannels
    /\ channels[s][ch] < MaxRepeats
    /\ channels' = [channels EXCEPT ![s][ch] = @ + 1]
    /\ clientChannels' = [clientChannels EXCEPT ![s] = @ \cup {ch}]
    /\ repeated' = [repeated EXCEPT ![s] = IF channels[s][ch] > 0 THEN @ \cup {ch} ELSE @]
    /\ UNCHANGED <<home, phase, connectionCount, got>>

\* One subscription goes, the name goes.
Unsubscribe(s, ask) ==
    LET ch == FullChannel(s, ask) IN
    /\ phase[s] = "open"
    /\ channels' = [channels EXCEPT ![s][ch] = IF @ > 0 THEN @ - 1 ELSE 0]
    /\ clientChannels' = [clientChannels EXCEPT ![s] = @ \ {ch}]
    /\ UNCHANGED <<home, phase, connectionCount, repeated, got>>

\* readyState is no longer OPEN: nothing is sent to the socket any more.
BeginClose(s) ==
    /\ phase[s] = "open"
    /\ phase' = [phase EXCEPT ![s] = "closing"]
    /\ UNCHANGED <<home, connectionCount, channels, clientChannels, repeated, got>>

\* Mutant: a connection that closes is not given back.
ClosedUncounted(s) ==
    /\ phase[s] = "closing"
    /\ phase' = [phase EXCEPT ![s] = "closed"]
    /\ channels' = [channels EXCEPT ![s] = [k \in Keys |-> 0]]
    /\ clientChannels' = [clientChannels EXCEPT ![s] = {}]
    /\ UNCHANGED <<home, connectionCount, repeated, got>>

\* Mutant: only the route's handler runs, one unsubscribe for each name.
ClosedByName(s) ==
    /\ phase[s] = "closing"
    /\ phase' = [phase EXCEPT ![s] = "closed"]
    /\ connectionCount' = [connectionCount EXCEPT ![home[s]] = IF @ <= 1 THEN 0 ELSE @ - 1]
    /\ channels' = [channels EXCEPT ![s] =
                        [k \in Keys |-> IF k \in clientChannels[s] /\ @[k] > 0 THEN @[k] - 1 ELSE @[k]]]
    /\ clientChannels' = [clientChannels EXCEPT ![s] = {}]
    /\ UNCHANGED <<home, repeated, got>>

\* The close event: the route's handler and one handler of each subscription.
Closed(s) ==
    /\ phase[s] = "closing"
    /\ phase' = [phase EXCEPT ![s] = "closed"]
    /\ connectionCount' = [connectionCount EXCEPT ![home[s]] = IF @ <= 1 THEN 0 ELSE @ - 1]
    /\ channels' = [channels EXCEPT ![s] = [k \in Keys |-> 0]]
    /\ clientChannels' = [clientChannels EXCEPT ![s] = {}]
    /\ UNCHANGED <<home, repeated, got>>

\* One message to project:<id>, one to table:<id>:<table>.
BroadcastDataChange(p, t, m) ==
    /\ got' = [s \in Sockets |->
                IF phase[s] # "open" THEN got[s]
                ELSE [got[s] EXCEPT ![m] =
                        @ + channels[s][<<"project", p>>] + channels[s][<<"table", p, t>>]]]
    /\ UNCHANGED <<home, phase, connectionCount, channels, clientChannels, repeated>>

SocketStep(s) ==
    \/ Vanish(s) \/ RefuseSocket(s) \/ QuotaExceeded(s) \/ Admit(s) \/ BeginClose(s) \/ Closed(s)
    \/ \E ask \in Asks : Subscribe(s, ask) \/ Unsubscribe(s, ask)

----------------------------------------------------------------------------
SocketPhases == {"handshake", "vanished", "open", "leaked", "closing", "closed"}

\* Type invariant of the service.
SocketTypeOK ==
    /\ home \in [Sockets -> Projects]
    /\ phase \in [Sockets -> SocketPhases]
    /\ connectionCount \in [Projects -> 0 .. MaxConnections]
    /\ channels \in [Sockets -> [Keys -> Nat]]
    /\ clientChannels \in [Sockets -> SUBSET Keys]
    /\ repeated \in [Sockets -> SUBSET Keys]
    /\ got \in [Sockets -> [Messages -> Nat]]

SocketsOf(p, phases) == {s \in Sockets : home[s] = p /\ phase[s] \in phases}

\* The count of a project is that of its connections, plus those that vanished while
\* they were authenticated: these are never given back.
CountExplained ==
    \A p \in Projects :
        connectionCount[p] = Cardinality(SocketsOf(p, {"open", "closing", "leaked"}))

\* A channel holds no socket that has closed, and none that has unsubscribed, unless
\* it had subscribed twice.
SubscriptionsTracked ==
    \A s \in Sockets : \A k \in Keys :
        channels[s][k] > 0 =>
            /\ phase[s] \in {"open", "closing"}
            /\ k \in clientChannels[s] \cup repeated[s]
====
