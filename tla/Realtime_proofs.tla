---- MODULE Realtime_proofs ----
(***************************************************************************)
(* Proofs about the listener for any number of clients, projects and       *)
(* tables, and about the sockets it broadcasts to, for any number of those *)
(* and all bounds.  The steps of sockets and those of the listener meet in *)
(* a broadcast only, which changes nothing but what the sockets were sent. *)
(***************************************************************************)
EXTENDS Realtime, FiniteSetTheorems, TLAPS

----------------------------------------------------------------------------
(***************************************************************************)
(* The listener by itself.                                                 *)
(***************************************************************************)
\* As long as no end came late, the field holds the only client that is alive, and
\* there is none while the reconnect timer is armed or after stop().
AloneInv ==
    /\ conn = [c \in Clients |-> conn[c]]
    /\ ~lateEnd =>
        /\ \A c \in Clients : conn[c] \in Alive => c = current
        /\ timer \/ stopped => \A c \in Clients : conn[c] \notin Alive

\* One step of the listener keeps AloneInv.
LEMMA ListenerKeepsAlone ==
    ASSUME AloneInv, [ListenerNext]_listenerVars
    PROVE  AloneInv'
<1> USE DEF AloneInv, Alive
<1>1. ASSUME NEW c \in Clients, Connect(c)
      PROVE  AloneInv'
    BY <1>1 DEF Connect
<1>2. ASSUME NEW c \in Clients, ConnectFails(c)
      PROVE  AloneInv'
    BY <1>2 DEF ConnectFails
<1>3. ASSUME NEW c \in Clients, Connected(c)
      PROVE  AloneInv'
    BY <1>3, ListenerAssumption DEF Connected
<1>4. ASSUME NEW c \in Clients, Attach(c)
      PROVE  AloneInv'
    BY <1>4 DEF Attach
<1>5. ASSUME NEW c \in Clients, Break(c)
      PROVE  AloneInv'
    BY <1>5 DEF Break
<1>6. ASSUME NEW c \in Clients, End(c)
      PROVE  AloneInv'
    BY <1>6, ListenerAssumption DEF End
<1>7. CASE Stop
    BY <1>7 DEF Stop
<1>8. ASSUME UNCHANGED <<conn, current, timer, stopped, lateEnd>>
      PROVE  AloneInv'
    BY <1>8
<1>9. ASSUME NEW c \in Clients, Drop(c) \/ AwaitCache(c) \/ Deliver(c)
      PROVE  AloneInv'
    BY <1>8, <1>9 DEF Drop, AwaitCache, Deliver, clientVars
<1>10. ASSUME NEW p \in Projects, CreateProject(p) \/ \E t \in Tables : Notify(p, t)
       PROVE  AloneInv'
    BY <1>8, <1>10 DEF CreateProject, Notify, clientVars
<1>11. CASE AgeCache
    BY <1>8, <1>11 DEF AgeCache, clientVars
<1>12. ASSUME NEW w \in waiting, Reload(w)
       PROVE  AloneInv'
    BY <1>8, <1>12 DEF Reload, clientVars
<1>13. CASE UNCHANGED listenerVars
    BY <1>8, <1>13 DEF listenerVars, clientVars
<1> QED
    BY <1>1, <1>2, <1>3, <1>4, <1>5, <1>6, <1>7, <1>9, <1>10, <1>11, <1>12, <1>13
    DEF ListenerNext, ListenerQuiet, Manage

\* stop() is final: no client goes on or begins to listen after it, unless the end
\* of a client was reported when its successor existed (pg-listener.service.ts:148).
THEOREM NothingListensAfterStop == ListenerSpec => []StopIsFinal
<1>1. ListenerInit => AloneInv
    BY DEF ListenerInit, AloneInv, Alive
<1>2. AloneInv /\ [ListenerNext]_listenerVars => AloneInv'
    BY ListenerKeepsAlone
<1>3. AloneInv => StopIsFinal
    BY DEF AloneInv, StopIsFinal
<1> QED
    BY <1>1, <1>2, <1>3, PTL DEF ListenerSpec

----------------------------------------------------------------------------
(* What the listener broadcasts: types, duplicates, order. *)

\* The types the steps keep, the sequences' own included.
TypeInv ==
    /\ ListenerTypeOK
    /\ inbox \in [Clients -> Seq(Nat)]
    /\ delivered \in Seq(Nat)

\* Dropping the first element of a sequence.
LEMMA TailIs ==
    ASSUME NEW s \in Seq(Nat), s # <<>>
    PROVE  /\ Tail(s) \in Seq(Nat)
           /\ Len(s) \in Nat \ {0} /\ Len(Tail(s)) = Len(s) - 1
           /\ \A i \in 1 .. Len(s) - 1 : Tail(s)[i] = s[i + 1]
           /\ Head(s) = s[1] /\ 1 \in DOMAIN s /\ Head(s) \in Nat
           /\ DOMAIN s = 1 .. Len(s) /\ DOMAIN Tail(s) = 1 .. Len(s) - 1
    OBVIOUS

\* Adding an element to a sequence.
LEMMA AppendIs ==
    ASSUME NEW S, NEW s \in Seq(S), NEW x \in S
    PROVE  /\ Append(s, x) \in Seq(S)
           /\ Append(s, x) # <<>>
           /\ Len(s) \in Nat /\ DOMAIN s = 1 .. Len(s) /\ DOMAIN Append(s, x) = 1 .. Len(s) + 1
           /\ \A i \in 1 .. Len(s) : Append(s, x)[i] = s[i]
           /\ Append(s, x)[Len(s) + 1] = x
    OBVIOUS

\* Adding an element of a set to a sequence of its elements.
LEMMA AppendTo ==
    ASSUME NEW s \in Seq(Nat), NEW x \in Nat, NEW D, x \in D, \A i \in DOMAIN s : s[i] \in D
    PROVE  /\ Append(s, x) \in Seq(Nat)
           /\ \A i \in DOMAIN Append(s, x) : Append(s, x)[i] \in D
<1>1. Append(s, x) \in Seq(Nat) /\ DOMAIN s = 1 .. Len(s) /\ DOMAIN Append(s, x) = 1 .. Len(s) + 1 /\ Len(s) \in Nat
    BY AppendIs
<1>2. ASSUME NEW i \in 1 .. Len(s) + 1 PROVE Append(s, x)[i] \in D
    <2>1. CASE i = Len(s) + 1
        BY <2>1, AppendIs
    <2>2. CASE i \in 1 .. Len(s)
        BY <1>1, <2>2, AppendIs
    <2> QED BY <1>1, <2>1, <2>2
<1> QED
    BY <1>1, <1>2

\* A handler waits on, whatever is notified and created meanwhile.
LEMMA WaitOn ==
    ASSUME NEW W, NEW D, NEW E, NEW C, NEW K,
           W \subseteq Clients \X D \X (SUBSET C), D \subseteq E, C \subseteq K
    PROVE  W \subseteq Clients \X E \X (SUBSET K)
<1> SUFFICES ASSUME NEW w \in W PROVE w \in Clients \X E \X (SUBSET K)
    OBVIOUS
<1>1. PICK a \in Clients, b \in D, s \in SUBSET C : w = <<a, b, s>>
    OBVIOUS
<1>2. a \in Clients /\ b \in E /\ s \in SUBSET K
    OBVIOUS
<1> QED
    BY <1>1, <1>2

\* No notification yet: the sequences are empty.
LEMMA TypeInit == ListenerInit => TypeInv
<1> SUFFICES ASSUME ListenerInit PROVE TypeInv
    OBVIOUS
<1>1. /\ \A c \in Clients : DOMAIN inbox[c] = {}
      /\ DOMAIN delivered = {}
      /\ delivered \in Seq(Nat) /\ inbox \in [Clients -> Seq(Nat)]
    BY DEF ListenerInit
<1>2. origin \in Seq([project : Projects, table : Tables])
    BY DEF ListenerInit
<1>3. created \subseteq Projects /\ cache \subseteq created
    BY DEF ListenerInit
<1>4. waiting = {} /\ waited = {}
    BY DEF ListenerInit
<1>5. /\ conn \in [Clients -> Phases] /\ asked \subseteq Clients /\ current \in Clients \cup {NoClient}
      /\ timer \in BOOLEAN /\ stopped \in BOOLEAN /\ cacheOld \in BOOLEAN /\ lateEnd \in BOOLEAN
      /\ failures \in Nat
    BY DEF ListenerInit, Phases
<1> QED
    BY <1>1, <1>2, <1>3, <1>4, <1>5 DEF TypeInv, ListenerTypeOK

\* A step of a connection leaves the notifications alone, but for an inbox it may empty.
LEMMA ManageKeepsTypes ==
    ASSUME TypeInv, NEW c \in Clients, Manage(c)
    PROVE  TypeInv'
<1> USE DEF TypeInv, ListenerTypeOK
<1>1. /\ conn' \in [Clients -> Phases] /\ asked' \subseteq Clients /\ current' \in Clients \cup {NoClient}
      /\ timer' \in BOOLEAN /\ stopped' = stopped /\ lateEnd' \in BOOLEAN /\ failures' \in Nat
    <2>1. CASE Connect(c)
        BY <2>1 DEF Connect, Phases
    <2>2. CASE ConnectFails(c)
        BY <2>2 DEF ConnectFails, Phases
    <2>3. CASE Connected(c)
        BY <2>3 DEF Connected, Phases
    <2>4. CASE Attach(c)
        BY <2>4 DEF Attach, Phases
    <2>5. CASE Break(c)
        BY <2>5 DEF Break, Phases
    <2>6. CASE End(c)
        BY <2>6 DEF End, Phases
    <2> QED BY <2>1, <2>2, <2>3, <2>4, <2>5, <2>6 DEF Manage
<1>2. UNCHANGED <<cacheVars, eventVars>>
    BY DEF Manage, Connect, ConnectFails, Connected, Attach, Break, End
<1>3. inbox' = inbox \/ inbox' = [inbox EXCEPT ![c] = <<>>]
    BY DEF Manage, Connect, ConnectFails, Connected, Attach, Break, End
<1>4. inbox' \in [Clients -> Seq(Nat)]
    <2>1. << >> \in Seq(Nat)
        OBVIOUS
    <2> QED BY <1>3, <2>1
<1>5. \A d \in Clients : \A i \in DOMAIN inbox'[d] : inbox'[d][i] \in DOMAIN origin
    <2> SUFFICES ASSUME NEW d \in Clients, NEW i \in DOMAIN inbox'[d] PROVE inbox'[d][i] \in DOMAIN origin
        OBVIOUS
    <2>1. inbox'[d] = inbox[d] \/ inbox'[d] = <<>>
        BY <1>3
    <2>2. DOMAIN << >> = {}
        OBVIOUS
    <2> QED BY <2>1, <2>2
<1> QED
    BY <1>1, <1>2, <1>4, <1>5 DEF cacheVars, eventVars

\* A notification is added to those recorded, and to inboxes.
LEMMA NotifyKeepsTypes ==
    ASSUME TypeInv, NEW p \in Projects, NEW t \in Tables, Notify(p, t)
    PROVE  TypeInv'
<1> USE DEF TypeInv, ListenerTypeOK
<1> DEFINE n == Len(origin)
           ev == [project |-> p, table |-> t]
<1>1. /\ n \in Nat /\ origin' = Append(origin, ev)
      /\ origin' \in Seq([project : Projects, table : Tables])
      /\ DOMAIN origin = 1 .. n /\ DOMAIN origin' = 1 .. n + 1 /\ Len(origin') = n + 1
    BY AppendIs DEF Notify
<1>2. \A d \in Clients : inbox'[d] = inbox[d] \/ inbox'[d] = Append(inbox[d], n + 1)
    BY <1>1 DEF Notify
<1>3. inbox' \in [Clients -> Seq(Nat)]
    BY <1>1, AppendIs DEF Notify
<1>4. \A d \in Clients : \A i \in DOMAIN inbox'[d] : inbox'[d][i] \in DOMAIN origin'
    <2> SUFFICES ASSUME NEW d \in Clients, NEW i \in DOMAIN inbox'[d] PROVE inbox'[d][i] \in 1 .. n + 1
        BY <1>1
    <2>1. CASE inbox'[d] = inbox[d]
        BY <1>1, <2>1
    <2>2. CASE inbox'[d] = Append(inbox[d], n + 1)
        <3>1. CASE i \in 1 .. Len(inbox[d])
            BY <1>1, <2>2, <3>1, AppendIs
        <3>2. CASE i = Len(inbox[d]) + 1
            BY <1>1, <2>2, <3>2, AppendIs
        <3>3. i \in 1 .. Len(inbox[d]) + 1
            BY <1>1, <2>2, AppendIs
        <3>4. Len(inbox[d]) \in Nat
            OBVIOUS
        <3> QED BY <3>1, <3>2, <3>3, <3>4
    <2> QED BY <1>2, <2>1, <2>2
<1>5. /\ UNCHANGED <<conn, asked, current, timer, failures, lateEnd, stopped, created, cache, cacheOld>>
      /\ UNCHANGED <<waiting, waited, delivered>>
    BY DEF Notify, clientVars, cacheVars
<1>6. waiting' \subseteq Clients \X (DOMAIN origin') \X (SUBSET created')
    <2>1. DOMAIN origin \subseteq DOMAIN origin' /\ created \subseteq created'
        BY <1>1, <1>5
    <2>2. waiting \subseteq Clients \X (DOMAIN origin) \X (SUBSET created)
        OBVIOUS
    <2>3. waiting \subseteq Clients \X (DOMAIN origin') \X (SUBSET created')
        BY <2>1, <2>2, WaitOn, Zenon
    <2> QED BY <1>5, <2>3
<1>7. waited' \subseteq DOMAIN origin' /\ \A i \in DOMAIN delivered' : delivered'[i] \in DOMAIN origin'
    <2> DOMAIN origin \subseteq DOMAIN origin'
        BY <1>1
    <2> QED BY <1>5
<1> QED
    BY <1>1, <1>3, <1>4, <1>5, <1>6, <1>7

\* A notification taken from an inbox is a recorded one.
LEMMA ReceiveKeepsTypes ==
    ASSUME TypeInv, NEW c \in Clients, Receive(c)
    PROVE  /\ inbox[c] \in Seq(Nat) /\ inbox[c] # <<>>
           /\ inbox' \in [Clients -> Seq(Nat)]
           /\ \A d \in Clients : \A i \in DOMAIN inbox'[d] : inbox'[d][i] \in DOMAIN origin
           /\ Head(inbox[c]) \in DOMAIN origin /\ Head(inbox[c]) \in Nat
<1> USE DEF TypeInv, ListenerTypeOK
<1>1. inbox[c] \in Seq(Nat) /\ inbox[c] # <<>> /\ inbox' = [inbox EXCEPT ![c] = Tail(@)]
    BY DEF Receive
<1>2. Tail(inbox[c]) \in Seq(Nat) /\ Head(inbox[c]) = inbox[c][1] /\ 1 \in DOMAIN inbox[c] /\ Head(inbox[c]) \in Nat
    BY <1>1, TailIs
<1>3. \A i \in DOMAIN Tail(inbox[c]) : Tail(inbox[c])[i] \in DOMAIN origin
    <2> SUFFICES ASSUME NEW i \in DOMAIN Tail(inbox[c]) PROVE Tail(inbox[c])[i] \in DOMAIN origin
        OBVIOUS
    <2>1. i \in 1 .. Len(inbox[c]) - 1 /\ DOMAIN inbox[c] = 1 .. Len(inbox[c]) /\ Len(inbox[c]) \in Nat
        BY <1>1, TailIs
    <2>2. Tail(inbox[c])[i] = inbox[c][i + 1]
        BY <1>1, <2>1, TailIs
    <2>3. i + 1 \in DOMAIN inbox[c]
        BY <2>1
    <2> QED BY <2>2, <2>3
<1> QED
    BY <1>1, <1>2, <1>3

\* The other steps: a handler takes one, waits and goes on; a project is created; the cache ages;
\* the service stops.
LEMMA OthersKeepTypes ==
    ASSUME TypeInv, ListenerNext, ~\E c \in Clients : Manage(c), ~\E p \in Projects, t \in Tables : Notify(p, t)
    PROVE  TypeInv'
<1> USE DEF TypeInv, ListenerTypeOK
<1>1. ASSUME NEW c \in Clients, Drop(c) \/ AwaitCache(c) \/ Deliver(c)
      PROVE  TypeInv'
    <2> DEFINE e == Head(inbox[c])
    <2>1. /\ inbox' \in [Clients -> Seq(Nat)]
          /\ \A d \in Clients : \A i \in DOMAIN inbox'[d] : inbox'[d][i] \in DOMAIN origin
          /\ e \in DOMAIN origin /\ e \in Nat
        BY <1>1, ReceiveKeepsTypes DEF Drop, AwaitCache, Deliver
    <2>2. UNCHANGED <<conn, asked, current, timer, failures, lateEnd, stopped, created, cache, cacheOld, origin>>
        BY <1>1 DEF Drop, AwaitCache, Deliver, clientVars, cacheVars, eventVars
    <2>3. waiting' = waiting \/ waiting' = waiting \cup {<<c, e, created>>}
        BY <1>1 DEF Drop, AwaitCache, Deliver, eventVars
    <2>4. waiting' \subseteq Clients \X (DOMAIN origin') \X (SUBSET created')
        <3>1. <<c, e, created>> \in Clients \X (DOMAIN origin) \X (SUBSET created)
            BY <2>1
        <3>2. waiting' \subseteq Clients \X (DOMAIN origin) \X (SUBSET created)
            BY <2>3, <3>1, Zenon
        <3> QED BY <2>2, <3>2, Zenon
    <2>5. waited' = waited \/ waited' = waited \cup {e}
        BY <1>1 DEF Drop, AwaitCache, Deliver, eventVars
    <2>6. delivered' = delivered \/ delivered' = Append(delivered, e)
        BY <1>1 DEF Drop, AwaitCache, Deliver, eventVars
    <2>7. delivered' \in Seq(Nat) /\ \A i \in DOMAIN delivered' : delivered'[i] \in DOMAIN origin
        BY <2>1, <2>6, AppendTo
    <2> QED BY <2>1, <2>2, <2>4, <2>5, <2>7
<1>2. ASSUME NEW p \in Projects, CreateProject(p)
      PROVE  TypeInv'
    <2>1. created' = created \cup {p} /\ UNCHANGED <<conn, asked, current, timer, failures, lateEnd, stopped, inbox, cache, cacheOld>>
        BY <1>2 DEF CreateProject, clientVars
    <2>2. UNCHANGED <<origin, waiting, waited, delivered>>
        BY <1>2 DEF CreateProject, eventVars
    <2>3. waiting' \subseteq Clients \X (DOMAIN origin') \X (SUBSET created')
        <3>1. DOMAIN origin \subseteq DOMAIN origin' /\ created \subseteq created'
            BY <2>1, <2>2
        <3>2. waiting \subseteq Clients \X (DOMAIN origin) \X (SUBSET created)
            OBVIOUS
        <3>3. waiting \subseteq Clients \X (DOMAIN origin') \X (SUBSET created')
            BY <3>1, <3>2, WaitOn, Zenon
        <3> QED BY <2>2, <3>3
    <2> QED BY <2>1, <2>2, <2>3
<1>3. CASE AgeCache
    BY <1>3 DEF AgeCache, clientVars, eventVars
<1>4. CASE Stop
    <2>1. conn' \in [Clients -> Phases] /\ asked' \subseteq Clients /\ current' \in Clients \cup {NoClient}
          /\ timer' \in BOOLEAN /\ stopped' \in BOOLEAN
        BY <1>4 DEF Stop, Phases
    <2> QED BY <1>4, <2>1 DEF Stop, cacheVars, eventVars
<1>5. ASSUME NEW w \in waiting, Reload(w)
      PROVE  TypeInv'
    <2>1. PICK a \in Clients, e \in DOMAIN origin, s \in SUBSET created : w = <<a, e, s>>
        OBVIOUS
    <2>2. e \in Nat /\ w[2] = e
        BY <2>1
    <2>3. UNCHANGED <<conn, asked, current, timer, failures, lateEnd, stopped, inbox, created, origin, waited>>
        BY <1>5 DEF Reload, clientVars
    <2>4. cache' \subseteq created /\ cacheOld' \in BOOLEAN
        BY <1>5 DEF Reload
    <2>5. waiting' \subseteq Clients \X (DOMAIN origin') \X (SUBSET created')
        <3>1. waiting' \subseteq waiting
            BY <1>5 DEF Reload
        <3>2. waiting' \subseteq Clients \X (DOMAIN origin) \X (SUBSET created)
            BY <3>1, Zenon
        <3> QED BY <2>3, <3>2, Zenon
    <2>6. delivered' = delivered \/ delivered' = Append(delivered, e)
        BY <1>5, <2>2 DEF Reload
    <2>7. delivered' \in Seq(Nat) /\ \A i \in DOMAIN delivered' : delivered'[i] \in DOMAIN origin
        BY <2>2, <2>6, AppendTo
    <2> QED BY <2>3, <2>4, <2>5, <2>7
<1> QED
    BY <1>1, <1>2, <1>3, <1>4, <1>5 DEF ListenerNext, ListenerQuiet

\* Every step keeps the types.
LEMMA TypeNext == TypeInv /\ [ListenerNext]_listenerVars => TypeInv'
<1> SUFFICES ASSUME TypeInv, [ListenerNext]_listenerVars PROVE TypeInv'
    OBVIOUS
<1>1. CASE UNCHANGED listenerVars
    BY <1>1 DEF TypeInv, ListenerTypeOK, listenerVars, clientVars, cacheVars, eventVars
<1> QED
    BY <1>1, ManageKeepsTypes, NotifyKeepsTypes, OthersKeepTypes

\* The listener's variables have their types, with any number of clients and notifications.
THEOREM ListenerTypes == ListenerSpec => []ListenerTypeOK
<1>1. TypeInv => ListenerTypeOK
    BY DEF TypeInv
<1> QED
    BY <1>1, TypeInit, TypeNext, PTL DEF ListenerSpec

Increasing(s) == \A i, j \in DOMAIN s : i < j => s[i] < s[j]

\* A notification neither broadcast nor kept waiting, and later than all broadcast in turn.
Fresh(e) ==
    /\ \A w \in waiting : w[2] # e
    /\ \A i \in DOMAIN delivered : delivered[i] # e /\ (delivered[i] \in waited \/ delivered[i] < e)

\* As long as no end came late, one client at most has notifications to be handled, in
\* order, all of them still to be broadcast; what waits is broadcast once, when it is done.
InboxInv ==
    /\ \A c \in Clients : inbox[c] # <<>> => conn[c] = "listening" \/ stopped
    /\ \A c, d \in Clients : inbox[c] # <<>> /\ inbox[d] # <<>> => c = d
    /\ \A c \in Clients : Increasing(inbox[c])
    /\ \A c \in Clients : \A i \in DOMAIN inbox[c] : Fresh(inbox[c][i])

OnceInv ==
    /\ \A i, j \in DOMAIN delivered : delivered[i] = delivered[j] => i = j
    /\ \A i, j \in DOMAIN delivered :
        i < j => delivered[i] < delivered[j] \/ delivered[i] \in waited \/ delivered[j] \in waited
    /\ \A w \in waiting :
        /\ w[2] \in waited
        /\ \A i \in DOMAIN delivered : delivered[i] # w[2]
        /\ \A x \in waiting : x[2] = w[2] => x = w

FlowInv == ~lateEnd => InboxInv /\ OnceInv

\* The empty sequence.
LEMMA EmptyIs == DOMAIN << >> = {} /\ << >> \in Seq(Nat) /\ \A s \in Seq(Nat) : DOMAIN s = {} => s = << >>
    OBVIOUS

\* Nothing is under way at first.
LEMMA FlowInit == ListenerInit => FlowInv
    BY EmptyIs DEF ListenerInit, FlowInv, InboxInv, OnceInv, Increasing

\* A step that changes the connections, but for the inbox of one client that it may empty.
LEMMA ManageKeepsFlow ==
    ASSUME FlowInv, TypeInv, AloneInv, NEW c \in Clients, Manage(c)
    PROVE  FlowInv'
<1> SUFFICES ASSUME ~lateEnd' PROVE InboxInv' /\ OnceInv'
    BY DEF FlowInv
<1>1. ~lateEnd
    BY DEF Manage, Connect, ConnectFails, Connected, Attach, Break, End
<1>2. InboxInv /\ OnceInv
    BY <1>1 DEF FlowInv
<1>3. UNCHANGED <<origin, waiting, waited, delivered, stopped>>
    BY DEF Manage, Connect, ConnectFails, Connected, Attach, Break, End, eventVars
<1>4. conn \in [Clients -> Phases] /\ inbox \in [Clients -> Seq(Nat)]
    BY DEF TypeInv, ListenerTypeOK
<1>5. \A d \in Clients : inbox'[d] = inbox[d] \/ inbox'[d] = << >>
    BY <1>4 DEF Manage, Connect, ConnectFails, Connected, Attach, Break, End
<1>6. ASSUME NEW d \in Clients, inbox'[d] # << >> PROVE inbox[d] # << >> /\ (conn'[d] = "listening" \/ stopped)
    <2>1. inbox[d] # << >> /\ (conn[d] = "listening" \/ stopped)
        BY <1>2, <1>5, <1>6 DEF InboxInv
    <2>2. CASE Connect(c)
        BY <1>4, <2>1, <2>2 DEF Connect
    <2>3. CASE ConnectFails(c)
        BY <1>4, <2>1, <2>3 DEF ConnectFails
    <2>4. CASE Connected(c)
        BY <1>4, <2>1, <2>4 DEF Connected
    <2>5. CASE Attach(c)
        BY <1>4, <2>1, <2>5 DEF Attach
    <2>6. CASE Break(c)
        <3>1. c = current
            BY <1>1, <2>6 DEF Break, AloneInv, Alive
        <3>2. d # c
            BY <1>4, <1>6, <2>6 DEF Break
        <3> QED BY <1>4, <2>1, <2>6, <3>1, <3>2 DEF Break
    <2>7. CASE End(c)
        <3>1. d # c
            BY <1>4, <1>6, <2>7 DEF End
        <3> QED BY <1>4, <2>1, <2>7, <3>1 DEF End
    <2> QED BY <2>2, <2>3, <2>4, <2>5, <2>6, <2>7 DEF Manage
<1>7. InboxInv'
    <2>1. \A d \in Clients : inbox'[d] # <<>> => conn'[d] = "listening" \/ stopped'
        BY <1>3, <1>6
    <2>2. \A d, b \in Clients : inbox'[d] # <<>> /\ inbox'[b] # <<>> => d = b
        BY <1>2, <1>6 DEF InboxInv
    <2>3. \A d \in Clients : Increasing(inbox'[d])
        BY <1>2, <1>5, EmptyIs DEF InboxInv, Increasing
    <2>4. \A d \in Clients : \A i \in DOMAIN inbox'[d] : Fresh(inbox'[d][i])
        BY <1>2, <1>5, EmptyIs DEF InboxInv
    <2>5. \A d \in Clients : \A i \in DOMAIN inbox'[d] : Fresh(inbox[d][i])'
        BY <1>3, <1>5, <2>4, EmptyIs DEF Fresh
    <2> QED BY <2>1, <2>2, <2>3, <2>5 DEF InboxInv, Increasing
<1>8. OnceInv'
    BY <1>2, <1>3 DEF OnceInv
<1> QED
    BY <1>7, <1>8

\* A notification committed is later than all before it, and goes to one client at most.
LEMMA NotifyKeepsFlow ==
    ASSUME FlowInv, TypeInv, AloneInv, NEW p \in Projects, NEW t \in Tables, Notify(p, t)
    PROVE  FlowInv'
<1> SUFFICES ASSUME ~lateEnd' PROVE InboxInv' /\ OnceInv'
    BY DEF FlowInv
<1> DEFINE n == Len(origin)
<1>1. /\ UNCHANGED <<conn, current, timer, lateEnd, stopped, waiting, waited, delivered>>
      /\ ~lateEnd
    BY DEF Notify, clientVars
<1>2. InboxInv /\ OnceInv
    BY <1>1 DEF FlowInv
<1>3. /\ n \in Nat /\ DOMAIN origin = 1 .. n
      /\ conn \in [Clients -> Phases] /\ inbox \in [Clients -> Seq(Nat)] /\ delivered \in Seq(Nat)
      /\ \A d \in Clients : \A i \in DOMAIN inbox[d] : inbox[d][i] \in DOMAIN origin
      /\ \A i \in DOMAIN delivered : delivered[i] \in DOMAIN origin
      /\ waiting \subseteq Clients \X (DOMAIN origin) \X (SUBSET created)
    BY DEF TypeInv, ListenerTypeOK
<1>4. Len(origin') = n + 1
    BY DEF Notify, TypeInv, ListenerTypeOK
<1>5. \A d \in Clients : inbox'[d] = IF Listening(d) THEN Append(inbox[d], n + 1) ELSE inbox[d]
    BY <1>3, <1>4 DEF Notify
<1>6. \A d \in Clients : Listening(d) => ~stopped /\ d = current
    BY <1>1 DEF AloneInv, Alive, Listening
<1>7. Fresh(n + 1)
    <2>1. \A w \in waiting : w[2] # n + 1
        <3> SUFFICES ASSUME NEW w \in waiting PROVE w[2] # n + 1
            OBVIOUS
        <3>1. w \in Clients \X (DOMAIN origin) \X (SUBSET created)
            BY <1>3
        <3>2. w[2] \in 1 .. n
            BY <1>3, <3>1
        <3> QED BY <1>3, <3>2
    <2>2. \A i \in DOMAIN delivered : delivered[i] < n + 1
        BY <1>3
    <2> QED BY <2>1, <2>2 DEF Fresh
<1>8. \A d \in Clients : /\ inbox'[d] \in Seq(Nat)
                         /\ Increasing(inbox'[d])
                         /\ \A i \in DOMAIN inbox'[d] : Fresh(inbox'[d][i])
    <2> SUFFICES ASSUME NEW d \in Clients
                 PROVE  /\ inbox'[d] \in Seq(Nat)
                        /\ Increasing(inbox'[d])
                        /\ \A i \in DOMAIN inbox'[d] : Fresh(inbox'[d][i])
        OBVIOUS
    <2>1. CASE inbox'[d] = inbox[d]
        BY <1>2, <1>3, <2>1 DEF InboxInv
    <2>2. CASE inbox'[d] = Append(inbox[d], n + 1)
        <3> DEFINE s == inbox[d]
                   u == inbox'[d]
        <3>1. s \in Seq(Nat) /\ n + 1 \in Nat
            BY <1>3
        <3>2. /\ u \in Seq(Nat) /\ Len(s) \in Nat /\ DOMAIN s = 1 .. Len(s) /\ DOMAIN u = 1 .. Len(s) + 1
              /\ \A i \in 1 .. Len(s) : u[i] = s[i]
              /\ u[Len(s) + 1] = n + 1
            BY <2>2, <3>1, AppendIs
        <3>3. \A i \in 1 .. Len(s) : s[i] < n + 1 /\ Fresh(s[i])
            BY <1>2, <1>3, <3>2 DEF InboxInv
        <3>4. \A i, j \in 1 .. Len(s) : i < j => s[i] < s[j]
            BY <1>2, <3>2 DEF InboxInv, Increasing
        <3> HIDE DEF s, u
        <3>5. Increasing(u)
            <4> SUFFICES ASSUME NEW i \in 1 .. Len(s) + 1, NEW j \in 1 .. Len(s) + 1, i < j PROVE u[i] < u[j]
                BY <3>2 DEF Increasing
            <4>1. i \in 1 .. Len(s)
                BY <3>2
            <4>2. j \in 1 .. Len(s) \/ j = Len(s) + 1
                BY <3>2
            <4> QED BY <3>2, <3>3, <3>4, <4>1, <4>2
        <3>6. \A i \in DOMAIN u : Fresh(u[i])
            <4> SUFFICES ASSUME NEW i \in 1 .. Len(s) + 1 PROVE Fresh(u[i])
                BY <3>2
            <4>1. i \in 1 .. Len(s) \/ i = Len(s) + 1
                BY <3>2
            <4> QED BY <1>7, <3>2, <3>3, <4>1
        <3> QED BY <3>2, <3>5, <3>6 DEF u
    <2> QED BY <1>5, <2>1, <2>2
<1>9. \A e : Fresh(e) => Fresh(e)'
    BY <1>1 DEF Fresh
<1>10. \A d \in Clients : inbox'[d] # << >> => (inbox[d] # << >> \/ Listening(d))
    BY <1>5
<1>11. InboxInv'
    <2>1. \A d \in Clients : inbox'[d] # <<>> => conn'[d] = "listening" \/ stopped'
        BY <1>1, <1>2, <1>10 DEF InboxInv, Listening
    <2>2. \A d, b \in Clients : inbox'[d] # <<>> /\ inbox'[b] # <<>> => d = b
        BY <1>2, <1>6, <1>10 DEF InboxInv, Listening
    <2>3. \A d \in Clients : \A i \in DOMAIN inbox'[d] : Fresh(inbox[d][i])'
        BY <1>1, <1>8 DEF Fresh
    <2> QED BY <1>8, <2>1, <2>2, <2>3 DEF InboxInv, Increasing
<1>12. OnceInv'
    BY <1>1, <1>2 DEF OnceInv
<1> QED
    BY <1>11, <1>12

\* A notification taken from an inbox: those left there are later.
LEMMA ReceiveKeepsInbox ==
    ASSUME InboxInv, TypeInv, NEW c \in Clients, Receive(c)
    PROVE  LET e == Head(inbox[c]) IN
           /\ e \in Nat /\ Fresh(e)
           /\ \A d \in Clients : inbox'[d] # << >> => inbox[d] # << >>
           /\ \A d \in Clients : Increasing(inbox'[d])
           /\ \A d \in Clients : \A i \in DOMAIN inbox'[d] :
                Fresh(inbox'[d][i]) /\ inbox'[d][i] \in Nat /\ e < inbox'[d][i]
<1> DEFINE s == inbox[c]
           u == inbox'[c]
<1>1. /\ s \in Seq(Nat) /\ s # << >> /\ inbox' = [inbox EXCEPT ![c] = Tail(s)]
      /\ inbox \in [Clients -> Seq(Nat)]
    BY DEF Receive, TypeInv
<1>2. /\ Len(s) \in Nat \ {0} /\ DOMAIN s = 1 .. Len(s) /\ DOMAIN u = 1 .. Len(s) - 1
      /\ \A i \in 1 .. Len(s) - 1 : u[i] = s[i + 1]
      /\ Head(s) = s[1] /\ Head(s) \in Nat
    BY <1>1, TailIs
<1>3. \A i, j \in 1 .. Len(s) : i < j => s[i] < s[j]
    BY <1>2 DEF InboxInv, Increasing
<1>4. \A i \in 1 .. Len(s) : Fresh(s[i]) /\ s[i] \in Nat
    BY <1>1, <1>2 DEF InboxInv
<1>5. \A d \in Clients : d # c => inbox'[d] = inbox[d] /\ inbox[d] = << >>
    BY <1>1 DEF InboxInv
<1> HIDE DEF s, u
<1>6. \A i \in 1 .. Len(s) - 1 : i + 1 \in 1 .. Len(s) /\ 1 < i + 1 /\ 1 \in 1 .. Len(s)
    BY <1>2
<1>7. \A i \in DOMAIN u : Fresh(u[i]) /\ u[i] \in Nat /\ Head(s) < u[i]
    BY <1>2, <1>3, <1>4, <1>6
<1>8. Increasing(u)
    <2> SUFFICES ASSUME NEW i \in 1 .. Len(s) - 1, NEW j \in 1 .. Len(s) - 1, i < j PROVE u[i] < u[j]
        BY <1>2 DEF Increasing
    <2>1. i + 1 \in 1 .. Len(s) /\ j + 1 \in 1 .. Len(s) /\ i + 1 < j + 1
        BY <1>2
    <2> QED BY <1>2, <1>3, <2>1
<1>9. Fresh(Head(s))
    BY <1>2, <1>4
<1>10. \A d \in Clients : d # c => Increasing(inbox'[d]) /\ DOMAIN inbox'[d] = {}
    BY <1>5, EmptyIs DEF Increasing
<1> QED
    BY <1>1, <1>2, <1>5, <1>7, <1>8, <1>9, <1>10 DEF s, u

\* The broadcasting of e, which is fresh: its handler has waited, or all that wait or are
\* still to come are later.
LEMMA BroadcastKeepsOnce ==
    ASSUME OnceInv, NEW e \in Nat, TypeInv,
           \A i \in DOMAIN delivered : delivered[i] # e /\ (e \in waited \/ delivered[i] \in waited \/ delivered[i] < e),
           delivered' = Append(delivered, e), waited' = waited,
           waiting' \subseteq waiting, \A w \in waiting' : w[2] # e
    PROVE  OnceInv'
<1> DEFINE s == delivered
           u == delivered'
<1>1. s \in Seq(Nat)
    BY DEF TypeInv
<1>2. /\ Len(s) \in Nat /\ DOMAIN s = 1 .. Len(s) /\ DOMAIN u = 1 .. Len(s) + 1
      /\ \A i \in 1 .. Len(s) : u[i] = s[i]
      /\ u[Len(s) + 1] = e
    BY <1>1, AppendIs
<1>3. \A i \in 1 .. Len(s) : s[i] # e /\ (e \in waited \/ s[i] \in waited \/ s[i] < e)
    BY <1>2
<1>4. /\ \A i, j \in 1 .. Len(s) : s[i] = s[j] => i = j
      /\ \A i, j \in 1 .. Len(s) : i < j => s[i] < s[j] \/ s[i] \in waited \/ s[j] \in waited
      /\ \A w \in waiting :
            /\ w[2] \in waited
            /\ \A i \in 1 .. Len(s) : s[i] # w[2]
            /\ \A x \in waiting : x[2] = w[2] => x = w
    BY <1>2 DEF OnceInv
<1> HIDE DEF s, u
<1>5. ASSUME NEW i \in 1 .. Len(s) + 1, NEW j \in 1 .. Len(s) + 1
      PROVE  /\ u[i] = u[j] => i = j
             /\ i < j => u[i] < u[j] \/ u[i] \in waited \/ u[j] \in waited
    <2>1. /\ i \in 1 .. Len(s) \/ i = Len(s) + 1
          /\ j \in 1 .. Len(s) \/ j = Len(s) + 1
        BY <1>2
    <2> QED BY <1>2, <1>3, <1>4, <2>1
<1>6. ASSUME NEW w \in waiting', NEW i \in 1 .. Len(s) + 1 PROVE u[i] # w[2]
    <2>1. i \in 1 .. Len(s) \/ i = Len(s) + 1
        BY <1>2
    <2> QED BY <1>2, <1>4, <2>1
<1> QED
    BY <1>2, <1>4, <1>5, <1>6 DEF OnceInv, u

\* A notification is dropped, waits for the cache, or is broadcast.
LEMMA TakeKeepsFlow ==
    ASSUME FlowInv, TypeInv, NEW c \in Clients, Drop(c) \/ AwaitCache(c) \/ Deliver(c)
    PROVE  FlowInv'
<1> SUFFICES ASSUME ~lateEnd' PROVE InboxInv' /\ OnceInv'
    BY DEF FlowInv
<1> DEFINE e == Head(inbox[c])
<1>1. UNCHANGED <<conn, stopped, lateEnd, created, cache>> /\ Receive(c)
    BY DEF Drop, AwaitCache, Deliver, clientVars, cacheVars
<1>2. InboxInv /\ OnceInv
    BY <1>1 DEF FlowInv
<1>3. /\ e \in Nat /\ Fresh(e)
      /\ \A d \in Clients : inbox'[d] # << >> => inbox[d] # << >>
      /\ \A d \in Clients : Increasing(inbox'[d])
      /\ \A d \in Clients : \A i \in DOMAIN inbox'[d] :
            Fresh(inbox'[d][i]) /\ inbox'[d][i] \in Nat /\ e < inbox'[d][i]
    BY <1>1, <1>2, ReceiveKeepsInbox
<1>4. delivered \in Seq(Nat)
    BY DEF TypeInv
<1> HIDE DEF e
<1>5. ASSUME \A f \in Nat : Fresh(f) /\ e < f => Fresh(f)' PROVE InboxInv'
    <2>1. \A d \in Clients : \A i \in DOMAIN inbox'[d] : Fresh(inbox[d][i])'
        <3> SUFFICES ASSUME NEW d \in Clients, NEW i \in DOMAIN inbox'[d] PROVE Fresh(inbox[d][i])'
            OBVIOUS
        <3>1. PICK f \in Nat : f = inbox'[d][i] /\ Fresh(f) /\ e < f
            BY <1>3
        <3>2. Fresh(f)'
            BY <1>5, <3>1
        <3> QED BY <3>1, <3>2 DEF Fresh
    <2>2. \A d \in Clients : inbox'[d] # <<>> => conn'[d] = "listening" \/ stopped'
        BY <1>1, <1>2, <1>3 DEF InboxInv
    <2>3. \A d, b \in Clients : inbox'[d] # <<>> /\ inbox'[b] # <<>> => d = b
        BY <1>2, <1>3 DEF InboxInv
    <2> QED BY <1>3, <2>1, <2>2, <2>3 DEF InboxInv, Increasing
<1>6. CASE Drop(c)
    <2>1. UNCHANGED <<waiting, waited, delivered>>
        BY <1>6 DEF Drop, eventVars
    <2>2. \A f \in Nat : Fresh(f) /\ e < f => Fresh(f)'
        BY <2>1 DEF Fresh
    <2> QED BY <1>2, <1>5, <2>1, <2>2 DEF OnceInv
<1>7. CASE AwaitCache(c)
    <2>1. delivered' = delivered /\ waited' = waited \cup {e} /\ waiting' = waiting \cup {<<c, e, created>>}
        BY <1>7 DEF AwaitCache, e
    <2>2. <<c, e, created>>[2] = e
        OBVIOUS
    <2>3. ASSUME NEW f \in Nat, Fresh(f), e < f PROVE Fresh(f)'
        <3>1. \A w \in waiting' : w[2] # f
            BY <1>3, <2>1, <2>2, <2>3 DEF Fresh
        <3> QED BY <2>1, <2>3, <3>1 DEF Fresh
    <2>4. OnceInv'
        <3>1. \A i \in DOMAIN delivered : delivered[i] # e
            BY <1>3 DEF Fresh
        <3>2. \A w \in waiting : w[2] # e
            BY <1>3 DEF Fresh
        <3>3. \A w \in waiting' : w \in waiting \/ (w = <<c, e, created>> /\ w[2] = e)
            BY <2>1, <2>2
        <3>4. \A w \in waiting' : w[2] \in waited' /\ \A i \in DOMAIN delivered : delivered[i] # w[2]
            BY <1>2, <2>1, <3>1, <3>3 DEF OnceInv
        <3>5. \A w, x \in waiting' : x[2] = w[2] => x = w
            BY <1>2, <3>2, <3>3 DEF OnceInv
        <3> QED BY <1>2, <2>1, <3>4, <3>5 DEF OnceInv
    <2> QED BY <1>5, <2>3, <2>4
<1>8. CASE Deliver(c)
    <2>1. delivered' = Append(delivered, e) /\ UNCHANGED <<waited, waiting>>
        BY <1>8 DEF Deliver, e
    <2>2. /\ Len(delivered) \in Nat /\ DOMAIN delivered = 1 .. Len(delivered)
          /\ DOMAIN delivered' = 1 .. Len(delivered) + 1
          /\ \A i \in 1 .. Len(delivered) : delivered'[i] = delivered[i]
          /\ delivered'[Len(delivered) + 1] = e
        BY <1>3, <1>4, <2>1, AppendIs
    <2>3. ASSUME NEW f \in Nat, Fresh(f), e < f PROVE Fresh(f)'
        <3>1. \A i \in 1 .. Len(delivered) + 1 : delivered'[i] # f /\ (delivered'[i] \in waited \/ delivered'[i] < f)
            <4> SUFFICES ASSUME NEW i \in 1 .. Len(delivered) + 1
                         PROVE  delivered'[i] # f /\ (delivered'[i] \in waited \/ delivered'[i] < f)
                OBVIOUS
            <4>1. i \in 1 .. Len(delivered) \/ i = Len(delivered) + 1
                BY <2>2
            <4> QED BY <1>3, <2>2, <2>3, <4>1 DEF Fresh
        <3> QED BY <2>1, <2>2, <2>3, <3>1 DEF Fresh
    <2>4. /\ \A i \in DOMAIN delivered : delivered[i] # e /\ (delivered[i] \in waited \/ delivered[i] < e)
          /\ \A w \in waiting' : w[2] # e
        BY <1>3, <2>1 DEF Fresh
    <2>5. OnceInv'
        BY <1>2, <1>3, <2>1, <2>4, BroadcastKeepsOnce
    <2> QED BY <1>5, <2>3, <2>5
<1> QED
    BY <1>6, <1>7, <1>8

\* A handler goes on: it broadcasts what waited with it alone, or nothing.
LEMMA ReloadKeepsFlow ==
    ASSUME FlowInv, TypeInv, NEW w \in waiting, Reload(w)
    PROVE  FlowInv'
<1> SUFFICES ASSUME ~lateEnd' PROVE InboxInv' /\ OnceInv'
    BY DEF FlowInv
<1> DEFINE e == w[2]
<1>1. /\ UNCHANGED <<conn, stopped, lateEnd, inbox, origin, waited>> /\ waiting' = waiting \ {w}
      /\ delivered' = delivered \/ delivered' = Append(delivered, e)
    BY DEF Reload, clientVars
<1>2. InboxInv /\ OnceInv
    BY <1>1 DEF FlowInv
<1>3. /\ DOMAIN origin \subseteq Nat /\ waiting \subseteq Clients \X (DOMAIN origin) \X (SUBSET created)
      /\ delivered \in Seq(Nat)
    BY DEF TypeInv, ListenerTypeOK
<1>4. e \in Nat
    <2>1. w \in Clients \X (DOMAIN origin) \X (SUBSET created)
        BY <1>3
    <2> QED BY <1>3, <2>1
<1>5. /\ e \in waited
      /\ \A i \in DOMAIN delivered : delivered[i] # e
      /\ \A x \in waiting' : x[2] # e /\ x \in waiting
    BY <1>1, <1>2 DEF OnceInv
<1>6. CASE delivered' = delivered
    <2>1. OnceInv'
        BY <1>1, <1>2, <1>6 DEF OnceInv
    <2>2. \A f : Fresh(f) => Fresh(f)'
        BY <1>1, <1>6 DEF Fresh
    <2>3. \A d \in Clients : \A i \in DOMAIN inbox[d] : Fresh(inbox[d][i])'
        BY <1>1, <1>2, <1>6 DEF Fresh, InboxInv
    <2> QED BY <1>1, <1>2, <2>1, <2>3 DEF InboxInv, Increasing
<1>7. CASE delivered' = Append(delivered, e)
    <2>1. OnceInv'
        BY <1>1, <1>2, <1>4, <1>5, <1>7, BroadcastKeepsOnce
    <2>2. /\ Len(delivered) \in Nat /\ DOMAIN delivered = 1 .. Len(delivered)
          /\ DOMAIN delivered' = 1 .. Len(delivered) + 1
          /\ \A i \in 1 .. Len(delivered) : delivered'[i] = delivered[i]
          /\ delivered'[Len(delivered) + 1] = e
        BY <1>3, <1>4, <1>7, AppendIs
    <2>3. \A d \in Clients : \A i \in DOMAIN inbox[d] : Fresh(inbox[d][i])'
        <3> SUFFICES ASSUME NEW d \in Clients, NEW i \in DOMAIN inbox[d] PROVE Fresh(inbox[d][i])'
            OBVIOUS
        <3> DEFINE f == inbox[d][i]
        <3>1. Fresh(f)
            BY <1>2 DEF InboxInv
        <3> HIDE DEF f
        <3>2. \A x \in waiting' : x[2] # f
            BY <1>1, <3>1 DEF Fresh
        <3>3. e # f
            BY <3>1 DEF Fresh
        <3>4. \A k \in 1 .. Len(delivered) + 1 : delivered'[k] # f /\ (delivered'[k] \in waited \/ delivered'[k] < f)
            <4> SUFFICES ASSUME NEW k \in 1 .. Len(delivered) + 1
                         PROVE  delivered'[k] # f /\ (delivered'[k] \in waited \/ delivered'[k] < f)
                OBVIOUS
            <4>1. k \in 1 .. Len(delivered) \/ k = Len(delivered) + 1
                BY <2>2
            <4> QED BY <1>5, <2>2, <3>1, <3>3, <4>1 DEF Fresh
        <3> QED BY <1>1, <2>2, <3>2, <3>4 DEF Fresh, f
    <2> QED BY <1>1, <1>2, <2>1, <2>3 DEF InboxInv, Increasing
<1> QED
    BY <1>1, <1>6, <1>7

\* Every step keeps FlowInv, given that the listener is alone.
LEMMA FlowNext == FlowInv /\ TypeInv /\ AloneInv /\ [ListenerNext]_listenerVars => FlowInv'
<1> SUFFICES ASSUME FlowInv, TypeInv, AloneInv, [ListenerNext]_listenerVars PROVE FlowInv'
    OBVIOUS
<1>1. ASSUME UNCHANGED <<lateEnd, inbox, waiting, waited, delivered>>, (conn' = conn /\ stopped' = stopped) \/ stopped'
      PROVE  FlowInv'
    <2>1. \A e : Fresh(e) <=> Fresh(e)'
        BY <1>1 DEF Fresh
    <2>2. \A d \in Clients : \A i \in DOMAIN inbox[d] : Fresh(inbox[d][i]) => Fresh(inbox[d][i])'
        BY <1>1 DEF Fresh
    <2> QED BY <1>1, <2>2 DEF FlowInv, InboxInv, OnceInv, Increasing
<1>2. CASE AgeCache \/ Stop \/ UNCHANGED listenerVars
    BY <1>1, <1>2 DEF AgeCache, Stop, listenerVars, clientVars, cacheVars, eventVars
<1>3. ASSUME NEW p \in Projects, CreateProject(p) PROVE FlowInv'
    BY <1>1, <1>3 DEF CreateProject, clientVars, eventVars
<1> QED
    BY <1>2, <1>3, ManageKeepsFlow, NotifyKeepsFlow, TakeKeepsFlow, ReloadKeepsFlow
    DEF ListenerNext, ListenerQuiet

\* The two invariants of the listener, together.
LEMMA ListenerFlows == ListenerSpec => [](TypeInv /\ FlowInv)
<1>1. ListenerInit => AloneInv
    BY DEF ListenerInit, AloneInv, Alive
<1> QED
    BY <1>1, ListenerKeepsAlone, TypeInit, TypeNext, FlowInit, FlowNext, PTL DEF ListenerSpec

\* No notification is broadcast twice, however many connections fail, unless the end of a
\* client was reported when its successor existed (pg-listener.service.ts:148).
THEOREM NoDuplicates == ListenerSpec => []DuplicatesExplained
<1>1. FlowInv => DuplicatesExplained
    BY DEF FlowInv, OnceInv, DuplicatesExplained
<1> QED
    BY <1>1, ListenerFlows, PTL

\* Notifications are broadcast in the order they were committed, unless one of the two has
\* waited for the schema cache, or there was a second listener.
THEOREM InCommitOrder == ListenerSpec => []OrderExplained
<1>1. TypeInv /\ FlowInv => OrderExplained
    <2> SUFFICES ASSUME TypeInv, FlowInv, ~lateEnd, NEW i \in DOMAIN delivered, NEW j \in DOMAIN delivered,
                        i < j, delivered[i] > delivered[j]
                 PROVE  delivered[i] \in waited \/ delivered[j] \in waited
        BY DEF OrderExplained
    <2>1. delivered[i] \in Nat /\ delivered[j] \in Nat
        BY DEF TypeInv
    <2> QED BY <2>1 DEF FlowInv, OnceInv
<1> QED
    BY <1>1, ListenerFlows, PTL

----------------------------------------------------------------------------
(***************************************************************************)
(* The listener with the sockets.                                          *)
(***************************************************************************)
\* The state of the service besides what was sent.
roomVars == <<home, phase, connectionCount, channels, clientChannels, repeated>>

RoomStep(s) == SocketStep(s) /\ UNCHANGED got

\* A step of the composition is a step of one socket, or leaves the service alone
\* but for a broadcast.
LEMMA StepOfService ==
    ASSUME [Next]_vars
    PROVE  UNCHANGED roomVars \/ \E s \in Sockets : RoomStep(s)
<1>1. CASE ListenerQuiet /\ UNCHANGED socketVars
    BY <1>1 DEF socketVars, roomVars
<1>2. CASE \E c \in Clients : DeliverAndBroadcast(c)
    BY <1>2 DEF DeliverAndBroadcast, Broadcast, BroadcastDataChange, roomVars
<1>3. CASE \E w \in waiting : ReloadAndBroadcast(w)
    BY <1>3 DEF ReloadAndBroadcast, Broadcast, BroadcastDataChange, socketVars, roomVars
<1>4. ASSUME NEW s \in Sockets, SocketStep(s)
      PROVE  RoomStep(s)
    BY <1>4 DEF SocketStep, RoomStep, Vanish, RefuseSocket, QuotaExceeded, Admit, BeginClose, Closed,
        Subscribe, Unsubscribe
<1>5. CASE UNCHANGED vars
    BY <1>5 DEF vars, socketVars, roomVars
<1> QED
    BY <1>1, <1>2, <1>3, <1>4, <1>5 DEF Next

----------------------------------------------------------------------------
\* Types of the service, but for what it sent.
RoomTypeOK ==
    /\ home \in [Sockets -> Projects]
    /\ phase \in [Sockets -> SocketPhases]
    /\ connectionCount \in [Projects -> 0 .. MaxConnections]
    /\ channels \in [Sockets -> [Keys -> Nat]]
    /\ clientChannels \in [Sockets -> SUBSET Keys]
    /\ repeated \in [Sockets -> SUBSET Keys]

\* What a client may ask for is a key of the channels map.
LEMMA ChannelsAreKeys ==
    ASSUME RoomTypeOK, NEW s \in Sockets, NEW ask \in Asks
    PROVE  FullChannel(s, ask) \in Keys
BY DEF RoomTypeOK, Asks, FullChannel, Keys

\* One step keeps RoomTypeOK.
LEMMA StepKeepsRoomType ==
    ASSUME RoomTypeOK, [Next]_vars
    PROVE  RoomTypeOK'
<1> USE SocketAssumption DEF RoomTypeOK, SocketPhases
<1>1. CASE UNCHANGED roomVars
    BY <1>1 DEF roomVars, Keys
<1>2. ASSUME NEW s \in Sockets, RoomStep(s)
      PROVE  RoomTypeOK'
    <2>1. CASE Vanish(s) \/ RefuseSocket(s) \/ QuotaExceeded(s) \/ BeginClose(s)
        BY <2>1 DEF Vanish, RefuseSocket, QuotaExceeded, BeginClose
    <2>2. CASE Admit(s)
        BY <2>2 DEF Admit
    <2>3. CASE Closed(s)
        BY <2>3 DEF Closed
    <2>4. ASSUME NEW ask \in Asks, Subscribe(s, ask)
          PROVE  RoomTypeOK'
        BY <2>4, ChannelsAreKeys DEF Subscribe
    <2>5. ASSUME NEW ask \in Asks, Unsubscribe(s, ask)
          PROVE  RoomTypeOK'
        BY <2>5, ChannelsAreKeys DEF Unsubscribe
    <2> QED
        BY <1>2, <2>1, <2>2, <2>3, <2>4, <2>5 DEF RoomStep, SocketStep
<1> QED
    BY <1>1, <1>2, StepOfService

\* The maps of the service keep their types, and no count exceeds the quota.
THEOREM RoomTypeCorrect == Spec => []RoomTypeOK
<1>1. Init => RoomTypeOK
    BY SocketAssumption DEF Init, SocketInit, RoomTypeOK, SocketPhases
<1> QED
    BY <1>1, StepKeepsRoomType, PTL DEF Spec

----------------------------------------------------------------------------
(***************************************************************************)
(* Subscriptions.  A name that was given back while a subscription was     *)
(* left must have been subscribed to at least twice.                       *)
(***************************************************************************)
TrackedInv ==
    /\ SubscriptionsTracked
    /\ \A s \in Sockets : \A k \in Keys : channels[s][k] > 1 => k \in repeated[s]

\* One step keeps TrackedInv.
LEMMA StepKeepsTracked ==
    ASSUME RoomTypeOK, TrackedInv, [Next]_vars
    PROVE  TrackedInv'
<1> USE DEF RoomTypeOK, TrackedInv, SubscriptionsTracked
<1>1. CASE UNCHANGED roomVars
    BY <1>1 DEF roomVars, Keys
<1>2. ASSUME NEW s \in Sockets, RoomStep(s)
      PROVE  TrackedInv'
    <2>1. CASE Vanish(s) \/ RefuseSocket(s) \/ QuotaExceeded(s) \/ BeginClose(s)
        BY <2>1 DEF Vanish, RefuseSocket, QuotaExceeded, BeginClose, Keys
    <2>2. CASE Admit(s)
        BY <2>2 DEF Admit, Keys
    <2>3. CASE Closed(s)
        BY <2>3 DEF Closed, Keys
    <2>4. ASSUME NEW ask \in Asks, Subscribe(s, ask)
          PROVE  TrackedInv'
        <3>1. FullChannel(s, ask) \in Keys
            BY ChannelsAreKeys
        <3> QED
            BY <2>4, <3>1 DEF Subscribe, Keys
    <2>5. ASSUME NEW ask \in Asks, Unsubscribe(s, ask)
          PROVE  TrackedInv'
        <3>1. FullChannel(s, ask) \in Keys
            BY ChannelsAreKeys
        <3> QED
            BY <2>5, <3>1 DEF Unsubscribe, Keys
    <2> QED
        BY <1>2, <2>1, <2>2, <2>3, <2>4, <2>5 DEF RoomStep, SocketStep
<1> QED
    BY <1>1, <1>2, StepOfService

\* A channel of the service never holds a socket that has closed, nor one that has
\* unsubscribed unless it had subscribed twice (websocket.service.ts:266).
THEOREM SubscriptionsFollowSockets == Spec => []SubscriptionsTracked
<1>1. Init => TrackedInv
    BY DEF Init, SocketInit, TrackedInv, SubscriptionsTracked, Keys
<1>2. RoomTypeOK /\ TrackedInv /\ [Next]_vars => TrackedInv'
    BY StepKeepsTracked
<1>3. TrackedInv => SubscriptionsTracked
    BY DEF TrackedInv
<1> QED
    BY <1>1, <1>2, <1>3, RoomTypeCorrect, PTL DEF Spec

----------------------------------------------------------------------------
(***************************************************************************)
(* Connections.  The count of a project follows the set of its sockets     *)
(* that were admitted and whose close event no handler has seen.           *)
(***************************************************************************)
Counted(p) == SocketsOf(p, {"open", "closing", "leaked"})

\* What is counted is a finite set of sockets.
LEMMA CountedIsFinite ==
    ASSUME NEW p
    PROVE  IsFiniteSet(Counted(p))
BY SocketAssumption, FS_Subset DEF Counted, SocketsOf

\* One step keeps CountExplained: only admission and the close event change it.
LEMMA StepKeepsCount ==
    ASSUME RoomTypeOK, CountExplained, [Next]_vars
    PROVE  CountExplained'
<1> SUFFICES ASSUME NEW p \in Projects
             PROVE  connectionCount'[p] = Cardinality(Counted(p)')
    BY DEF CountExplained, Counted
<1> USE DEF RoomTypeOK
<1>1. connectionCount[p] = Cardinality(Counted(p))
    BY DEF CountExplained, Counted
<1>2. CASE connectionCount' = connectionCount /\ Counted(p)' = Counted(p)
    BY <1>1, <1>2
<1>3. CASE UNCHANGED roomVars
    BY <1>2, <1>3 DEF roomVars, Counted, SocketsOf
<1>4. ASSUME NEW s \in Sockets, RoomStep(s)
      PROVE  connectionCount'[p] = Cardinality(Counted(p)')
    <2>1. CASE \/ Vanish(s) \/ RefuseSocket(s) \/ QuotaExceeded(s) \/ BeginClose(s)
               \/ \E ask \in Asks : Subscribe(s, ask) \/ Unsubscribe(s, ask)
        BY <1>2, <2>1 DEF Vanish, RefuseSocket, QuotaExceeded, BeginClose, Subscribe, Unsubscribe,
            Counted, SocketsOf
    <2>2. CASE (Admit(s) \/ Closed(s)) /\ home[s] # p
        <3>1. Counted(p)' = Counted(p) /\ connectionCount'[p] = connectionCount[p]
            BY <2>2 DEF Admit, Closed, Counted, SocketsOf
        <3> QED
            BY <1>1, <3>1
    <2>3. CASE Admit(s) /\ home[s] = p
        <3>1. Counted(p)' = Counted(p) \cup {s} /\ s \notin Counted(p)
            BY <2>3 DEF Admit, Counted, SocketsOf
        <3>2. connectionCount'[p] = connectionCount[p] + 1
            BY <2>3 DEF Admit
        <3> QED
            BY <1>1, <3>1, <3>2, CountedIsFinite, FS_AddElement
    <2>4. CASE Closed(s) /\ home[s] = p
        <3>1. Counted(p)' = Counted(p) \ {s} /\ s \in Counted(p)
            BY <2>4 DEF Closed, Counted, SocketsOf
        <3>2. connectionCount'[p] = IF connectionCount[p] <= 1 THEN 0 ELSE connectionCount[p] - 1
            BY <2>4 DEF Closed
        <3>3. Cardinality(Counted(p)') = Cardinality(Counted(p)) - 1
            BY <3>1, CountedIsFinite, FS_RemoveElement
        <3>4. Cardinality(Counted(p)') \in Nat
            BY <3>1, CountedIsFinite, FS_RemoveElement, FS_CardinalityType
        <3> QED
            BY <1>1, <3>2, <3>3, <3>4
    <2> QED
        BY <1>4, <2>1, <2>2, <2>3, <2>4 DEF RoomStep, SocketStep
<1> QED
    BY <1>3, <1>4, StepOfService

\* The connections counted for a project are its admitted sockets that have not
\* closed, and those that vanished while they were authenticated
\* (websocket.service.ts:213-221).
THEOREM CountFollowsSockets == Spec => []CountExplained
<1>1. Init => CountExplained
    <2> SUFFICES ASSUME Init, NEW p \in Projects
                 PROVE  connectionCount[p] = Cardinality(Counted(p))
        BY DEF CountExplained, Counted
    <2>1. Counted(p) = {}
        BY DEF Init, SocketInit, Counted, SocketsOf
    <2> QED
        BY <2>1, FS_EmptySet DEF Init, SocketInit
<1>2. RoomTypeOK /\ CountExplained /\ [Next]_vars => CountExplained'
    BY StepKeepsCount
<1> QED
    BY <1>1, <1>2, RoomTypeCorrect, PTL DEF Spec

----------------------------------------------------------------------------
(***************************************************************************)
(* What is sent.  Events are known by their place in origin; every event   *)
(* in an inbox or in a handler that waits is in origin, and every channel  *)
(* a socket is on has the id of its own project in the key.                *)
(***************************************************************************)
EventsOK ==
    /\ origin \in Seq([project : Projects, table : Tables])
    /\ Len(origin) <= MaxEvents
    /\ inbox \in [Clients -> Seq(Nat)]
    /\ \A c \in Clients : \A i \in DOMAIN inbox[c] : inbox[c][i] \in DOMAIN origin
    /\ \A w \in waiting : w[2] \in DOMAIN origin

\* One step of the listener keeps EventsOK.
LEMMA ListenerKeepsEvents ==
    ASSUME EventsOK, [ListenerNext]_listenerVars
    PROVE  EventsOK'
<1> USE DEF EventsOK
<1>1. CASE UNCHANGED <<origin, inbox, waiting>>
    BY <1>1
<1>2. ASSUME NEW c \in Clients, Manage(c)
      PROVE  EventsOK'
    <2>1. /\ origin' = origin /\ waiting' = waiting
          /\ inbox' = inbox \/ inbox' = [inbox EXCEPT ![c] = <<>>]
        BY <1>2 DEF Manage, Connect, ConnectFails, Connected, Attach, Break, End, cacheVars, eventVars
    <2>2. CASE inbox' = [inbox EXCEPT ![c] = <<>>]
        <3>1. \A d \in Clients : inbox'[d] = inbox[d] \/ inbox'[d] = <<>>
            BY <2>2
        <3>2. inbox' \in [Clients -> Seq(Nat)]
            BY <2>2
        <3>3. DOMAIN <<>> = {}
            OBVIOUS
        <3>4. \A d \in Clients : \A i \in DOMAIN inbox'[d] : inbox'[d][i] \in DOMAIN origin
            BY <3>1, <3>3
        <3> QED
            BY <2>1, <3>2, <3>4
    <2> QED
        BY <1>1, <2>1, <2>2
<1>3. ASSUME NEW c \in Clients, Drop(c) \/ AwaitCache(c) \/ Deliver(c)
      PROVE  EventsOK'
    <2>1. /\ origin' = origin
          /\ inbox[c] # <<>>
          /\ inbox' = [inbox EXCEPT ![c] = Tail(@)]
          /\ waiting' = waiting \/ waiting' = waiting \cup {<<c, Head(inbox[c]), created>>}
        BY <1>3 DEF Drop, AwaitCache, Deliver, Receive, eventVars
    <2>2. Head(inbox[c]) \in DOMAIN origin
        BY <2>1
    <2>3. \A i \in DOMAIN Tail(inbox[c]) : Tail(inbox[c])[i] \in DOMAIN origin
        BY <2>1
    <2>4. Tail(inbox[c]) \in Seq(Nat)
        BY <2>1
    <2> QED
        BY <2>1, <2>2, <2>3, <2>4
<1>4. ASSUME NEW p \in Projects, NEW t \in Tables, Notify(p, t)
      PROVE  EventsOK'
    <2>1. /\ origin' = Append(origin, [project |-> p, table |-> t])
          /\ Len(origin) < MaxEvents
          /\ inbox' = [c \in Clients |-> IF Listening(c) THEN Append(inbox[c], Len(origin')) ELSE inbox[c]]
          /\ waiting' = waiting
        BY <1>4 DEF Notify
    <2>2. /\ origin' \in Seq([project : Projects, table : Tables])
          /\ Len(origin') = Len(origin) + 1
          /\ Len(origin') <= MaxEvents
          /\ DOMAIN origin \subseteq DOMAIN origin'
          /\ Len(origin') \in DOMAIN origin'
        BY <2>1, ListenerAssumption
    <2>3. ASSUME NEW c \in Clients
          PROVE  /\ inbox'[c] \in Seq(Nat)
                 /\ \A i \in DOMAIN inbox'[c] : inbox'[c][i] \in DOMAIN origin'
        <3>1. CASE Listening(c)
            <4>1. inbox'[c] = Append(inbox[c], Len(origin'))
                BY <2>1, <3>1
            <4> QED
                BY <2>2, <4>1
        <3>2. CASE ~Listening(c)
            BY <2>1, <2>2, <3>2
        <3> QED
            BY <3>1, <3>2
    <2>4. inbox' \in [Clients -> Seq(Nat)]
        BY <2>1, <2>3
    <2> QED
        BY <2>1, <2>2, <2>3, <2>4
<1>5. ASSUME NEW w \in waiting, Reload(w)
      PROVE  EventsOK'
    BY <1>5 DEF Reload
<1>6. CASE Stop \/ AgeCache \/ \E p \in Projects : CreateProject(p)
    BY <1>1, <1>6 DEF Stop, AgeCache, CreateProject, eventVars
<1>7. CASE UNCHANGED listenerVars
    BY <1>1, <1>7 DEF listenerVars, eventVars
<1> QED
    BY <1>2, <1>3, <1>4, <1>5, <1>6, <1>7 DEF ListenerNext, ListenerQuiet

\* A step of the composition is a step of the listener or leaves it alone.
LEMMA StepKeepsEvents ==
    ASSUME EventsOK, [Next]_vars
    PROVE  EventsOK'
<1>1. [ListenerNext]_listenerVars
    BY DEF Next, vars, ListenerNext, DeliverAndBroadcast, ReloadAndBroadcast
<1> QED
    BY <1>1, ListenerKeepsEvents

\* Only a socket's own project is in the keys of its channels, and only that
\* project's events were sent to it.
OwnInv ==
    /\ got \in [Sockets -> [Messages -> Nat]]
    /\ \A s \in Sockets : \A k \in Keys : channels[s][k] > 0 => k[2] = home[s]
    /\ \A s \in Sockets : \A m \in Messages :
            got[s][m] > 0 => m \in DOMAIN origin /\ origin[m].project = home[s]

\* A recorded event is a message, of a project and a table.
LEMMA EventsAreMessages ==
    ASSUME EventsOK
    PROVE  /\ DOMAIN origin \subseteq Messages
           /\ \A e \in DOMAIN origin : origin[e].project \in Projects /\ origin[e].table \in Tables
<1>1. DOMAIN origin = 1 .. Len(origin) /\ Len(origin) \in Nat /\ Len(origin) <= MaxEvents
    BY DEF EventsOK
<1>2. DOMAIN origin \subseteq Messages
    BY <1>1, MessagesAssumption, ListenerAssumption
<1> DEFINE Event == [project : Projects, table : Tables]
<1>3. origin \in Seq(Event)
    BY DEF EventsOK
<1> HIDE DEF Event
<1>4. \A e \in DOMAIN origin : origin[e] \in Event
    BY <1>3
<1> QED
    BY <1>2, <1>4 DEF Event

\* Recorded events do not change.
LEMMA OriginOnlyGrows ==
    ASSUME EventsOK, [ListenerNext]_listenerVars
    PROVE  \A e \in DOMAIN origin : e \in DOMAIN origin' /\ origin'[e] = origin[e]
<1>1. CASE origin' = origin
    BY <1>1
<1>2. ASSUME NEW p \in Projects, NEW t \in Tables, Notify(p, t)
      PROVE  \A e \in DOMAIN origin : e \in DOMAIN origin' /\ origin'[e] = origin[e]
    BY <1>2 DEF Notify, EventsOK
<1>3. origin' = origin \/ \E p \in Projects, t \in Tables : Notify(p, t)
    BY DEF ListenerNext, ListenerQuiet, Manage, Connect, ConnectFails, Connected, Attach, Break, End,
        Drop, AwaitCache, Deliver, Reload, CreateProject, AgeCache, Stop, eventVars, listenerVars
<1> QED
    BY <1>1, <1>2, <1>3

\* One step keeps OwnInv.
LEMMA StepKeepsOwn ==
    ASSUME RoomTypeOK, EventsOK, OwnInv, [Next]_vars
    PROVE  OwnInv'
<1>1. [ListenerNext]_listenerVars
    BY DEF Next, vars, ListenerNext, DeliverAndBroadcast, ReloadAndBroadcast
<1>2. \A e \in DOMAIN origin : e \in DOMAIN origin' /\ origin'[e] = origin[e]
    BY <1>1, OriginOnlyGrows
<1>3. CASE UNCHANGED socketVars
    BY <1>2, <1>3 DEF OwnInv, socketVars, Keys
<1>4. ASSUME NEW e \in DOMAIN origin, Broadcast(e), origin' = origin
      PROVE  OwnInv'
    <2> DEFINE p == origin[e].project
               t == origin[e].table
               Sent(s) == channels[s][<<"project", p>>] + channels[s][<<"table", p, t>>]
    <2>1. e \in Messages /\ p \in Projects /\ t \in Tables
        BY EventsAreMessages
    <2>2. <<"project", p>> \in Keys /\ <<"table", p, t>> \in Keys
        BY <2>1 DEF Keys
    <2>3. \A s \in Sockets : Sent(s) \in Nat /\ (Sent(s) > 0 => home[s] = p)
        BY <2>2 DEF OwnInv, RoomTypeOK
    <2>4. /\ got' = [s \in Sockets |-> IF phase[s] # "open" THEN got[s]
                                      ELSE [got[s] EXCEPT ![e] = @ + Sent(s)]]
          /\ UNCHANGED <<home, channels>>
        <3>1. ASSUME NEW s \in Sockets
              PROVE  got[s][e] + Sent(s)
                       = got[s][e] + channels[s][<<"project", p>>] + channels[s][<<"table", p, t>>]
            <4>1. /\ got[s][e] \in Nat
                  /\ channels[s][<<"project", p>>] \in Nat
                  /\ channels[s][<<"table", p, t>>] \in Nat
                BY <2>1, <2>2 DEF OwnInv, RoomTypeOK
            <4> QED
                BY <4>1
        <3> QED
            BY <1>4, <3>1 DEF Broadcast, BroadcastDataChange
    <2> HIDE DEF Sent
    <2>5. got' \in [Sockets -> [Messages -> Nat]]
        BY <2>1, <2>3, <2>4 DEF OwnInv
    <2>6. ASSUME NEW s \in Sockets, NEW m \in Messages, got'[s][m] > 0
          PROVE  m \in DOMAIN origin /\ origin[m].project = home[s]
        <3>1. CASE got'[s][m] = got[s][m]
            BY <2>6, <3>1 DEF OwnInv
        <3>2. CASE m = e /\ got'[s][m] = got[s][m] + Sent(s)
            BY <2>3, <2>6, <3>2 DEF OwnInv
        <3> QED
            BY <2>1, <2>4, <3>1, <3>2 DEF OwnInv
    <2>7. \A s \in Sockets : \A k \in Keys : channels'[s][k] > 0 => k[2] = home'[s]
        BY <2>4 DEF OwnInv
    <2> QED
        BY <1>4, <2>4, <2>5, <2>6, <2>7 DEF OwnInv, Keys
<1>5. ASSUME NEW c \in Clients, DeliverAndBroadcast(c)
      PROVE  OwnInv'
    <2>1. Head(inbox[c]) \in DOMAIN origin /\ origin' = origin
        BY <1>5 DEF DeliverAndBroadcast, Deliver, Receive, EventsOK
    <2> QED
        BY <1>4, <1>5, <2>1 DEF DeliverAndBroadcast
<1>6. ASSUME NEW w \in waiting, ReloadAndBroadcast(w)
      PROVE  OwnInv'
    <2>1. w[2] \in DOMAIN origin /\ origin' = origin
        BY <1>6 DEF ReloadAndBroadcast, Reload, EventsOK
    <2> QED
        BY <1>3, <1>4, <1>6, <2>1 DEF ReloadAndBroadcast
<1>7. ASSUME NEW s \in Sockets, SocketStep(s), UNCHANGED listenerVars
      PROVE  OwnInv'
    <2>1. origin' = origin /\ got' = got /\ home' = home
        BY <1>7 DEF SocketStep, Vanish, RefuseSocket, QuotaExceeded, Admit, BeginClose, Closed, Subscribe,
            Unsubscribe, listenerVars, eventVars
    <2>2. ASSUME NEW ask \in Asks, Subscribe(s, ask) \/ Unsubscribe(s, ask)
          PROVE  \A x \in Sockets : \A k \in Keys : channels'[x][k] > 0 => k[2] = home[x]
        <3>1. FullChannel(s, ask) \in Keys /\ FullChannel(s, ask)[2] = home[s]
            BY ChannelsAreKeys DEF FullChannel
        <3>2. \A x \in Sockets : \A k \in Keys :
                ~(x = s /\ k = FullChannel(s, ask)) => channels'[x][k] = channels[x][k]
            BY <2>2, <3>1 DEF Subscribe, Unsubscribe, RoomTypeOK
        <3> QED
            BY <3>1, <3>2 DEF OwnInv
    <2>3. CASE Closed(s)
        BY <2>1, <2>3 DEF Closed, OwnInv, RoomTypeOK, Keys
    <2>4. CASE Vanish(s) \/ RefuseSocket(s) \/ QuotaExceeded(s) \/ Admit(s) \/ BeginClose(s)
        BY <2>1, <2>4 DEF Vanish, RefuseSocket, QuotaExceeded, Admit, BeginClose, OwnInv, Keys
    <2>5. CASE \A x \in Sockets : \A k \in Keys : channels'[x][k] > 0 => k[2] = home[x]
        BY <2>1, <2>5 DEF OwnInv, Keys
    <2> QED
        BY <1>7, <2>2, <2>3, <2>4, <2>5 DEF SocketStep
<1> QED
    BY <1>3, <1>5, <1>6, <1>7 DEF Next, vars

\* The invariants of what is sent, together.
THEOREM EventsAreOwn == Spec => [](RoomTypeOK /\ EventsOK /\ OwnInv)
<1>1. Init => RoomTypeOK /\ EventsOK /\ OwnInv
    <2> SUFFICES ASSUME Init
                 PROVE  RoomTypeOK /\ EventsOK /\ OwnInv
        OBVIOUS
    <2>1. EventsOK
        BY ListenerAssumption DEF Init, ListenerInit, EventsOK
    <2>2. RoomTypeOK /\ OwnInv
        BY SocketAssumption DEF Init, SocketInit, RoomTypeOK, SocketPhases, OwnInv, Keys
    <2> QED
        BY <2>1, <2>2
<1>2. RoomTypeOK /\ EventsOK /\ OwnInv /\ [Next]_vars => (RoomTypeOK /\ EventsOK /\ OwnInv)'
    BY StepKeepsRoomType, StepKeepsEvents, StepKeepsOwn
<1> QED
    BY <1>1, <1>2, PTL DEF Spec

\* The type invariant of the WebSocket service; its counts never exceed the quota.
THEOREM SocketTypeCorrect == Spec => []SocketTypeOK
<1>1. RoomTypeOK /\ OwnInv => SocketTypeOK
    BY DEF RoomTypeOK, OwnInv, SocketTypeOK
<1> QED
    BY <1>1, EventsAreOwn, PTL

\* Isolation: whatever a socket subscribes to, and however often the listener's
\* clients fail, it is sent events of its own project only.
THEOREM SocketsReceiveOwnProjectOnly == Spec => []OnlyOwnProject
<1>1. EventsOK /\ OwnInv => OnlyOwnProject
    BY EventsAreMessages DEF OwnInv, OnlyOwnProject
<1> QED
    BY <1>1, EventsAreOwn, PTL

----------------------------------------------------------------------------
(***************************************************************************)
(* How often it is sent.  What a socket was sent has been broadcast, and   *)
(* what is broadcast has not been before, while one client listens only    *)
(* (FlowInv of the listener's proofs).  No subscription is to the key      *)
(* project:<id> alone, so that one broadcast reaches a socket twice only   *)
(* when it holds its table's channel twice.                                *)
(***************************************************************************)
SentInv ==
    /\ \A s \in Sockets : \A p \in Projects : channels[s][<<"project", p>>] = 0
    /\ ~lateEnd =>
        \A s \in Sockets : \A m \in Messages :
            /\ got[s][m] > 0 => \E i \in DOMAIN delivered : delivered[i] = m
            /\ got[s][m] > 1 => repeated[s] # {}

\* The listener's invariants hold in the composition.
LEMMA StepKeepsListener ==
    ASSUME AloneInv, TypeInv, FlowInv, [Next]_vars
    PROVE  (AloneInv /\ TypeInv /\ FlowInv)'
<1>1. [ListenerNext]_listenerVars
    BY DEF Next, vars, ListenerNext, DeliverAndBroadcast, ReloadAndBroadcast
<1> QED
    BY <1>1, ListenerKeepsAlone, TypeNext, FlowNext

\* The end of a client that came late stays known.
LEMMA LateEndStays ==
    ASSUME TypeInv, [Next]_vars
    PROVE  lateEnd => lateEnd'
<1>1. lateEnd \in BOOLEAN
    BY DEF TypeInv, ListenerTypeOK
<1>2. [ListenerNext]_listenerVars
    BY DEF Next, vars, ListenerNext, DeliverAndBroadcast, ReloadAndBroadcast
<1> QED
    BY <1>1, <1>2 DEF ListenerNext, ListenerQuiet, Manage, Connect, ConnectFails, Connected, Attach, Break, End,
        Drop, AwaitCache, Deliver, Reload, CreateProject, Notify, AgeCache, Stop, clientVars, listenerVars

\* A broadcast of what has not been broadcast before.
LEMMA BroadcastKeepsSent ==
    ASSUME RoomTypeOK, EventsOK, OwnInv, TrackedInv, SentInv, TypeInv, ~lateEnd,
           NEW e \in DOMAIN origin, Broadcast(e), delivered' = Append(delivered, e),
           \A i \in DOMAIN delivered : delivered[i] # e
    PROVE  SentInv'
<1> DEFINE p == origin[e].project
           t == origin[e].table
<1>1. e \in Messages /\ p \in Projects /\ t \in Tables
    BY EventsAreMessages
<1>2. <<"project", p>> \in Keys /\ <<"table", p, t>> \in Keys
    BY <1>1 DEF Keys
<1>3. UNCHANGED <<channels, repeated>>
    BY DEF Broadcast, BroadcastDataChange
<1>4. e \in Nat /\ delivered \in Seq(Nat)
    BY DEF TypeInv, EventsOK
<1>5. /\ Len(delivered) \in Nat /\ DOMAIN delivered = 1 .. Len(delivered)
      /\ DOMAIN delivered' = 1 .. Len(delivered) + 1
      /\ \A i \in 1 .. Len(delivered) : delivered'[i] = delivered[i]
      /\ delivered'[Len(delivered) + 1] = e
    BY <1>4, AppendIs
<1>6. ASSUME NEW s \in Sockets, NEW m \in Messages
      PROVE  /\ got'[s][m] > 0 => \E i \in DOMAIN delivered' : delivered'[i] = m
             /\ got'[s][m] > 1 => repeated[s] # {}
    <2> DEFINE one == channels[s][<<"project", p>>]
               two == channels[s][<<"table", p, t>>]
    <2>1. /\ got[s] \in [Messages -> Nat] /\ one = 0 /\ two \in Nat
          /\ two > 1 => repeated[s] # {}
        <3>1. two \in Nat
            BY <1>2 DEF RoomTypeOK
        <3>2. two > 1 => repeated[s] # {}
            BY <1>2 DEF TrackedInv
        <3> QED BY <1>1, <3>1, <3>2 DEF OwnInv, SentInv
    <2>2. got'[s] = got[s] \/ got'[s] = [got[s] EXCEPT ![e] = @ + one + two]
        BY DEF Broadcast, BroadcastDataChange
    <2> HIDE DEF one, two
    <2>3. CASE got'[s][m] = got[s][m]
        <3>1. got[s][m] > 0 => \E i \in 1 .. Len(delivered) : delivered[i] = m
            BY <1>5 DEF SentInv
        <3>2. got[s][m] > 0 => \E i \in 1 .. Len(delivered) + 1 : delivered'[i] = m
            BY <1>5, <3>1
        <3> QED BY <1>5, <2>3, <3>2 DEF SentInv
    <2>4. CASE m = e /\ got'[s][m] = got[s][m] + one + two
        <3>1. got[s][m] = 0
            BY <1>1, <2>1, <2>4 DEF SentInv
        <3>2. got'[s][m] > 1 => repeated[s] # {}
            BY <2>1, <2>4, <3>1
        <3>3. Len(delivered) + 1 \in DOMAIN delivered' /\ delivered'[Len(delivered) + 1] = m
            BY <1>5, <2>4
        <3> QED BY <3>2, <3>3
    <2> QED BY <1>1, <2>1, <2>2, <2>3, <2>4
<1> QED
    BY <1>3, <1>6 DEF SentInv

\* A step of a socket may subscribe it to a key of three parts.
LEMMA SocketKeepsSent ==
    ASSUME RoomTypeOK, SentInv, NEW s \in Sockets, SocketStep(s), UNCHANGED listenerVars
    PROVE  SentInv'
<1>1. UNCHANGED <<got, delivered, lateEnd>>
    BY DEF SocketStep, Vanish, RefuseSocket, QuotaExceeded, Admit, BeginClose, Closed, Subscribe,
       Unsubscribe, listenerVars, eventVars, clientVars
<1>2. \A x \in Sockets : repeated[x] # {} => repeated'[x] # {}
    BY DEF SocketStep, Vanish, RefuseSocket, QuotaExceeded, Admit, BeginClose, Closed, Subscribe,
       Unsubscribe, RoomTypeOK
<1>3. \A x \in Sockets : \A p \in Projects : channels'[x][<<"project", p>>] = 0
    <2> SUFFICES ASSUME NEW x \in Sockets, NEW p \in Projects PROVE channels'[x][<<"project", p>>] = 0
        OBVIOUS
    <2> DEFINE key == <<"project", p>>
    <2>1. key \in Keys /\ channels[x][key] = 0
        BY DEF Keys, SentInv
    <2>2. CASE Vanish(s) \/ RefuseSocket(s) \/ QuotaExceeded(s) \/ Admit(s) \/ BeginClose(s)
        BY <2>1, <2>2 DEF Vanish, RefuseSocket, QuotaExceeded, Admit, BeginClose
    <2>3. CASE Closed(s)
        BY <2>1, <2>3 DEF Closed, RoomTypeOK
    <2>4. ASSUME NEW ask \in Asks, Subscribe(s, ask) \/ Unsubscribe(s, ask)
          PROVE  channels'[x][key] = 0
        <3>1. FullChannel(s, ask) \in Keys
            BY ChannelsAreKeys
        <3>2. FullChannel(s, ask) # key
            BY DEF FullChannel
        <3> HIDE DEF key
        <3> QED BY <2>1, <2>4, <3>1, <3>2 DEF Subscribe, Unsubscribe, RoomTypeOK
    <2> QED BY <2>2, <2>3, <2>4 DEF SocketStep
<1> QED
    BY <1>1, <1>2, <1>3 DEF SentInv

\* One step keeps SentInv.
LEMMA StepKeepsSent ==
    ASSUME RoomTypeOK, EventsOK, OwnInv, TrackedInv, TypeInv, FlowInv, SentInv, [Next]_vars
    PROVE  SentInv'
<1>1. lateEnd => lateEnd'
    BY LateEndStays
<1>2. CASE lateEnd
    <2>1. ASSUME channels' = channels PROVE SentInv'
        BY <1>1, <1>2, <2>1 DEF SentInv
    <2>2. CASE UNCHANGED roomVars
        BY <2>1, <2>2 DEF roomVars
    <2>3. ASSUME NEW s \in Sockets, SocketStep(s), UNCHANGED listenerVars PROVE SentInv'
        BY <2>3, SocketKeepsSent
    <2>4. UNCHANGED roomVars \/ \E s \in Sockets : SocketStep(s) /\ UNCHANGED listenerVars
        BY DEF Next, vars, roomVars, socketVars, DeliverAndBroadcast, ReloadAndBroadcast, Broadcast, BroadcastDataChange
    <2> QED BY <2>2, <2>3, <2>4
<1>3. CASE ~lateEnd
    <2>1. ASSUME UNCHANGED <<socketVars, delivered>> PROVE SentInv'
        BY <1>1, <1>3, <2>1 DEF SentInv, socketVars
    <2>2. CASE ListenerQuiet /\ UNCHANGED socketVars
        <3>1. delivered' = delivered
            BY <2>2 DEF ListenerQuiet, Manage, Connect, ConnectFails, Connected, Attach, Break, End,
               Drop, AwaitCache, CreateProject, Notify, AgeCache, Stop, eventVars
        <3> QED BY <2>1, <2>2, <3>1
    <2>3. ASSUME NEW c \in Clients, DeliverAndBroadcast(c) PROVE SentInv'
        <3> DEFINE e == Head(inbox[c])
        <3>1. delivered' = Append(delivered, e) /\ Broadcast(e) /\ Receive(c)
            BY <2>3 DEF DeliverAndBroadcast, Deliver
        <3>2. e \in DOMAIN origin /\ Fresh(e)
            BY <1>3, <3>1, ReceiveKeepsInbox, ReceiveKeepsTypes DEF FlowInv
        <3>3. \A i \in DOMAIN delivered : delivered[i] # e
            BY <3>2 DEF Fresh
        <3> HIDE DEF e
        <3> QED BY <1>3, <3>1, <3>2, <3>3, BroadcastKeepsSent
    <2>4. ASSUME NEW w \in waiting, ReloadAndBroadcast(w) PROVE SentInv'
        <3> DEFINE e == w[2]
        <3>1. CASE delivered' = delivered
            BY <2>1, <2>4, <3>1 DEF ReloadAndBroadcast
        <3>2. CASE delivered' # delivered
            <4>1. delivered' = Append(delivered, e) /\ Broadcast(e)
                BY <2>4, <3>2 DEF ReloadAndBroadcast, Reload
            <4>2. e \in DOMAIN origin
                BY DEF EventsOK
            <4>3. \A i \in DOMAIN delivered : delivered[i] # e
                BY <1>3 DEF FlowInv, OnceInv
            <4> HIDE DEF e
            <4> QED BY <1>3, <4>1, <4>2, <4>3, BroadcastKeepsSent
        <3> QED BY <3>1, <3>2
    <2>5. ASSUME NEW s \in Sockets, SocketStep(s), UNCHANGED listenerVars PROVE SentInv'
        BY <2>5, SocketKeepsSent
    <2>6. CASE UNCHANGED vars
        BY <2>1, <2>6 DEF vars, listenerVars, eventVars
    <2> QED BY <2>2, <2>3, <2>4, <2>5, <2>6 DEF Next
<1>4. lateEnd \in BOOLEAN
    BY DEF TypeInv, ListenerTypeOK
<1> QED
    BY <1>2, <1>3, <1>4

\* A socket is sent a change at most once, unless it subscribed to a channel twice or the
\* end of a client was reported late: through failures, waits and reconnections
\* (pg-listener.service.ts:148, websocket.service.ts:266).
THEOREM SentAtMostOnce == Spec => []AtMostOnce
<1> DEFINE All == /\ RoomTypeOK /\ EventsOK /\ OwnInv /\ TrackedInv
                  /\ AloneInv /\ TypeInv /\ FlowInv /\ SentInv
<1>1. Init => All
    <2> SUFFICES ASSUME Init PROVE All
        OBVIOUS
    <2>1. AloneInv /\ TypeInv /\ FlowInv
        BY TypeInit, FlowInit DEF Init, ListenerInit, AloneInv, Alive
    <2>2. EventsOK
        BY ListenerAssumption DEF Init, ListenerInit, EventsOK
    <2>3. RoomTypeOK /\ OwnInv /\ TrackedInv
        BY SocketAssumption DEF Init, SocketInit, RoomTypeOK, SocketPhases, OwnInv, Keys, TrackedInv, SubscriptionsTracked
    <2>4. SentInv
        BY DEF Init, SocketInit, SentInv, Keys
    <2> QED BY <2>1, <2>2, <2>3, <2>4
<1>2. All /\ [Next]_vars => All'
    BY StepKeepsRoomType, StepKeepsEvents, StepKeepsOwn, StepKeepsTracked, StepKeepsListener, StepKeepsSent
<1>3. All => AtMostOnce
    BY EventsAreMessages DEF SentInv, AtMostOnce
<1> QED
    BY <1>1, <1>2, <1>3, PTL DEF Spec
====
