---- MODULE Realtime ----
(***************************************************************************)
(* The realtime path: a committed df_emit reaches the listener, and the    *)
(* listener's handler broadcasts it to the sockets in the same step.       *)
(***************************************************************************)
EXTENDS PgListener, WebSocket

\* A message is known by its place in the order of commits.
ASSUME MessagesAssumption == Messages = 1 .. MaxEvents

vars == <<listenerVars, socketVars>>

Init == ListenerInit /\ SocketInit

Broadcast(e) == BroadcastDataChange(origin[e].project, origin[e].table, e)

\* onNotification for a known schema.
DeliverAndBroadcast(c) == Deliver(c) /\ Broadcast(Head(inbox[c]))

\* onNotification after its await.
ReloadAndBroadcast(w) ==
    /\ Reload(w)
    /\ IF delivered' = delivered THEN UNCHANGED socketVars ELSE Broadcast(w[2])

Next ==
    \/ ListenerQuiet /\ UNCHANGED socketVars
    \/ \E c \in Clients : DeliverAndBroadcast(c)
    \/ \E w \in waiting : ReloadAndBroadcast(w)
    \/ \E s \in Sockets : SocketStep(s) /\ UNCHANGED listenerVars

Spec == Init /\ [][Next]_vars

----------------------------------------------------------------------------
\* A socket is sent the changes of its own project only.
OnlyOwnProject ==
    \A s \in Sockets : \A e \in DOMAIN origin : got[s][e] > 0 => origin[e].project = home[s]

\* A socket is sent a change twice only if it subscribed twice, or if two clients of
\* the listener were alive.
AtMostOnce ==
    \A s \in Sockets : \A e \in DOMAIN origin : got[s][e] > 1 => lateEnd \/ repeated[s] # {}

\* A socket subscribed to project:<slug> receives the changes of all the tables of
\* its project, as the gateway's guide says.
ProjectChannelReceives ==
    [][\A s \in Sockets : \A e \in DOMAIN origin :
        /\ Len(delivered') > Len(delivered) /\ delivered'[Len(delivered')] = e
        /\ phase[s] = "open" /\ home[s] = origin[e].project
        /\ \E slug \in Slugs : FullChannel(s, <<"project", slug>>) \in clientChannels[s]
        => got'[s][e] > got[s][e]]_vars
====
