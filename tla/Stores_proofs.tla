---- MODULE Stores_proofs ----
(***************************************************************************)
(* StoresAgree holds in every state of the control plane, for any tokens,  *)
(* files, projects, webhooks and number of requests: the disk and the      *)
(* table of files, the two layouts of the table of webhooks, the row and   *)
(* the schema of the project and its switch, the limits the worker caches  *)
(* and the keys of tokens follow each other wherever no request is at work *)
(* and none was cut off.                                                   *)
(*                                                                         *)
(* The argument is the same for each store.  What the requests at work are *)
(* is described first: their objects, their awaits, and how a call, a step *)
(* and the end of a request, a restart and a loss of Redis change them.    *)
(* The invariant of a store then says, for each await of its requests, how *)
(* far the two sides are apart there; a step of another component leaves   *)
(* its requests Aside, so that each has to answer for its own steps only.  *)
(***************************************************************************)
EXTENDS ControlPlane, TLAPS

----------------------------------------------------------------------------
(***************************************************************************)
(* Requests.  A component has operations O and objects K: any other        *)
(* request has nothing to do with them.  A step is Aside when it leaves    *)
(* the requests of the component where they are, for what concerns its     *)
(* objects, and their doubt as it is.                                      *)
(***************************************************************************)
Requested(r) == r = [op |-> r.op, on |-> r.on, at |-> r.at, data |-> r.data, sure |-> r.sure]
Foreign(O, K, r) == r.op \notin O /\ r.on \cap K = {}
Free(O, K, r) == r = NoReq \/ (Requested(r) /\ r.sure \subseteq r.on /\ Foreign(O, K, r))
RequestsOf(O, K) ==
    /\ req = [w \in Workers |-> req[w]] /\ calls \in Nat
    /\ \A w \in Workers : req[w] # NoReq =>
        Requested(req[w]) /\ req[w].sure \subseteq req[w].on /\ (req[w].op \in O \/ req[w].on \cap K = {})

Alike(K, r, s) ==
    /\ r # NoReq /\ Requested(s)
    /\ s.op = r.op /\ s.on = r.on /\ s.at = r.at /\ s.data = r.data
    /\ s.sure \subseteq r.sure /\ s.sure \cap K = r.sure \cap K
Aside(O, K) ==
    /\ req' = [w \in Workers |-> req'[w]]
    /\ \A w \in Workers : Alike(K, req[w], req'[w]) \/ (Free(O, K, req[w]) /\ Free(O, K, req'[w]))
    /\ doubt' \cap K = doubt \cap K
    /\ calls' \in Nat /\ calls' <= calls /\ menu' = menu

TokenOps == {"create token", "revoke token", "restore tokens"}
FileOps == {"upload file", "remove file"}
StudioOps == PluginOps \cup {"talk", "forget session"}
QuotaOps == {"serve", "change quota"}
PlayerOps == UseOps \cup {"login"}
ProjectOps == {"create project", "switch project"}
HookRequests == HookOps \cup {"remove hook", "restore hooks"}
Deleted == {ProjectObject, PluginObject} \cup TokenObjects \cup SessionObjects \cup FileObjects

\* What is known of requests stays known.
LEMMA AsideKnows ==
    ASSUME NEW O, NEW K, RequestsOf(O, K), Aside(O, K)
    PROVE  RequestsOf(O, K)'
<1>1. ASSUME NEW w \in Workers, req'[w] # NoReq
      PROVE  /\ Requested(req'[w]) /\ req'[w].sure \subseteq req'[w].on
             /\ req'[w].op \in O \/ req'[w].on \cap K = {}
    BY <1>1 DEF RequestsOf, Aside, Alike, Free, Foreign
<1> QED BY <1>1 DEF RequestsOf, Aside

\* What a request is that has become less sure.
LEMMA SureShrinks ==
    ASSUME NEW r, Requested(r), NEW on
    PROVE  [r EXCEPT !.sure = @ \ on]
              = [op |-> r.op, on |-> r.on, at |-> r.at, data |-> r.data, sure |-> r.sure \ on]
<1>1. PICK s : s = [op |-> r.op, on |-> r.on, at |-> r.at, data |-> r.data, sure |-> r.sure \ on]
    OBVIOUS
<1> QED BY <1>1 DEF Requested
\* What a request is when it has moved on.
LEMMA RequestMoves ==
    ASSUME NEW r, Requested(r), NEW at, NEW data
    PROVE  [r EXCEPT !.at = at, !.data = data]
              = [op |-> r.op, on |-> r.on, at |-> at, data |-> data, sure |-> r.sure]
<1>1. PICK s : s = [op |-> r.op, on |-> r.on, at |-> at, data |-> r.data, sure |-> r.sure]
    OBVIOUS
<1>2. [r EXCEPT !.at = at] = s
    BY <1>1 DEF Requested
<1>3. [r EXCEPT !.at = at, !.data = data] = [s EXCEPT !.data = data]
    BY <1>2
<1>4. [s EXCEPT !.data = data] = [op |-> r.op, on |-> r.on, at |-> at, data |-> data, sure |-> r.sure]
    BY <1>1
<1> QED BY <1>3, <1>4

\* A request arrives: a new one, and the others are less sure of its objects.
Less(r, s, more) ==
    /\ r # NoReq /\ Requested(s)
    /\ s.op = r.op /\ s.on = r.on /\ s.at = r.at /\ s.data = r.data /\ s.sure = r.sure \ more
Hit(op, on) == {o \in on : Disturbed(op, o) # {}}
Arrived(h, op, on, at, data) ==
    /\ req[h] = NoReq /\ calls' = calls - 1 /\ calls > 0 /\ menu' = menu
    /\ req' = [w \in Workers |-> req'[w]]
    /\ req'[h] = [op |-> op, on |-> on, at |-> at, data |-> data, sure |-> on \ Hit(op, on)]
    /\ \A w \in Workers \ {h} :
        \/ req'[w] = req[w] /\ (req[w] # NoReq => {req[w].op, op} \notin Conflicts)
        \/ {req[w].op, op} \in Conflicts /\ Less(req[w], req'[w], on)
    /\ doubt' = doubt \cup Hit(op, on)

\* A call of the component's, or of another's, is such an arrival.
LEMMA CalledArrives ==
    ASSUME NEW O, NEW K, RequestsOf(O, K), NEW h \in Workers, NEW op, NEW on, NEW at, NEW data,
           Called(h, op, on, at, data)
    PROVE  Arrived(h, op, on, at, data)
<1> DEFINE new == [op |-> op, on |-> on, at |-> at, data |-> data, sure |-> on \ Hit(op, on)]
<1>1. /\ req[h] = NoReq /\ menu' = menu /\ calls' = calls - 1 /\ calls > 0
      /\ req' = [w \in Workers |->
            IF w = h THEN new
            ELSE IF req[w] # NoReq /\ {req[w].op, op} \in Conflicts THEN [req[w] EXCEPT !.sure = @ \ on]
            ELSE req[w]]
      /\ doubt' = doubt \cup Hit(op, on)
    BY DEF Called, Arrive, Hit
<1> HIDE DEF new
<1>2. ASSUME NEW w \in Workers, w # h, req[w] # NoReq, {req[w].op, op} \in Conflicts
      PROVE  Less(req[w], req'[w], on)
    <2>1. PICK s : s = [op |-> req[w].op, on |-> req[w].on, at |-> req[w].at, data |-> req[w].data,
                        sure |-> req[w].sure \ on]
        OBVIOUS
    <2>2. req'[w] = s
        <3>1. Requested(req[w])
            BY <1>2 DEF RequestsOf
        <3>2. [req[w] EXCEPT !.sure = @ \ on] = s
            BY <2>1, <3>1 DEF Requested
        <3> QED BY <1>1, <1>2, <3>2
    <2> QED BY <1>2, <2>1, <2>2 DEF Less, Requested
<1>3. ASSUME NEW w \in Workers \ {h}
      PROVE  \/ req'[w] = req[w] /\ (req[w] # NoReq => {req[w].op, op} \notin Conflicts)
             \/ {req[w].op, op} \in Conflicts /\ Less(req[w], req'[w], on)
    BY <1>1, <1>2
<1>4. req' = [w \in Workers |-> req'[w]]
    BY <1>1
<1>5. req'[h] = [op |-> op, on |-> on, at |-> at, data |-> data, sure |-> on \ Hit(op, on)]
    BY <1>1 DEF new
<1> QED BY <1>1, <1>3, <1>4, <1>5 DEF Arrived

\* A request that has nothing to do with the component arrives.
LEMMA ArriveAside ==
    ASSUME NEW O, NEW K, RequestsOf(O, K), NEW h \in Workers, NEW op, NEW on, NEW at, NEW data,
           Called(h, op, on, at, data), op \notin O, on \cap K = {}
    PROVE  Aside(O, K)
<1>1. Arrived(h, op, on, at, data)
    BY CalledArrives
<1>2. ASSUME NEW w \in Workers
      PROVE  Alike(K, req[w], req'[w]) \/ (Free(O, K, req[w]) /\ Free(O, K, req'[w]))
    <2>1. CASE w = h
        BY <1>1, <2>1 DEF Arrived, Free, Foreign, Requested
    <2>2. CASE w # h /\ req'[w] = req[w]
        BY <2>2 DEF RequestsOf, Free, Alike
    <2>3. CASE Less(req[w], req'[w], on)
        BY <2>3 DEF Less, Alike
    <2> QED BY <1>1, <2>1, <2>2, <2>3 DEF Arrived
<1>3. doubt' \cap K = doubt \cap K
    BY <1>1 DEF Arrived, Hit
<1>4. calls' \in Nat /\ calls' <= calls
    BY <1>1 DEF Arrived, RequestsOf
<1> QED BY <1>1, <1>2, <1>3, <1>4 DEF Aside, Arrived

\* It arrives at the await it starts with, having looked for its project or not.
LEMMA BeginAside ==
    ASSUME NEW O, NEW K, RequestsOf(O, K), NEW h \in Workers, NEW op, NEW on, NEW at, NEW data,
           Begin(h, op, on, at, data), op \notin O, on \cap K = {}
    PROVE  Aside(O, K)
BY ArriveAside DEF Begin

\* The same, through a cache of projects.
LEMMA BeginInAside ==
    ASSUME NEW O, NEW K, RequestsOf(O, K), NEW cache, NEW h \in Workers, NEW op, NEW on, NEW at, NEW data,
           BeginIn(cache, h, op, on, at, data), op \notin O, on \cap K = {}
    PROVE  Aside(O, K)
BY ArriveAside DEF BeginIn

\* A request moves on, or ends; the others stay.
Moved(r, at, data) == [op |-> r.op, on |-> r.on, at |-> at, data |-> data, sure |-> r.sure]
Put(h, r) == req' = [w \in Workers |-> IF w = h THEN r ELSE req[w]]
\* A request that moves on is one whose await and data change.
LEMMA MovePuts ==
    ASSUME NEW O, NEW K, RequestsOf(O, K), NEW h \in Workers, req[h] # NoReq,
           NEW at, NEW data, req' = [req EXCEPT ![h].at = at, ![h].data = data]
    PROVE  Put(h, Moved(req[h], at, data))
<1>1. Requested(req[h])
    BY DEF RequestsOf
<1>2. req' = [w \in Workers |-> IF w = h THEN [req[h] EXCEPT !.at = at, !.data = data] ELSE req[w]]
    BY DEF RequestsOf
<1>3. [req[h] EXCEPT !.at = at, !.data = data] = Moved(req[h], at, data)
    BY <1>1, RequestMoves DEF Moved
<1> QED BY <1>2, <1>3 DEF Put

\* The same when its data stays.
LEMMA MoveOnPuts ==
    ASSUME NEW O, NEW K, RequestsOf(O, K), NEW h \in Workers, req[h] # NoReq,
           NEW at, req' = [req EXCEPT ![h].at = at]
    PROVE  Put(h, Moved(req[h], at, req[h].data))
<1>1. Requested(req[h])
    BY DEF RequestsOf
<1>2. req' = [w \in Workers |-> IF w = h THEN [req[h] EXCEPT !.at = at] ELSE req[w]]
    BY DEF RequestsOf
<1>3. PICK r : r = Moved(req[h], at, req[h].data)
    OBVIOUS
<1>4. [req[h] EXCEPT !.at = at] = r
    BY <1>1, <1>3 DEF Requested, Moved
<1> QED BY <1>2, <1>3, <1>4 DEF Put

\* What a request is when it has moved on, or ended.
LEMMA GoPuts ==
    ASSUME NEW O, NEW K, RequestsOf(O, K), NEW h \in Workers, req[h] # NoReq, NEW at, NEW data
    PROVE  /\ Go(h, at, data) => Put(h, Moved(req[h], at, data)) /\ UNCHANGED <<doubt, calls, menu>>
           /\ \A more : Swallow(h, at, data, more) =>
                Put(h, Moved(req[h], at, data)) /\ doubt' = doubt \cup more /\ UNCHANGED <<calls, menu>>
BY MovePuts DEF Go, Swallow

\* The same when it ends.
LEMMA EndPuts ==
    ASSUME NEW O, NEW K, RequestsOf(O, K), NEW h \in Workers
    PROVE  /\ req' = [req EXCEPT ![h] = NoReq] => Put(h, NoReq)
           /\ \A s : Finish(h, s) \/ FinishAnyway(h, s) =>
                Put(h, NoReq) /\ doubt' = doubt \ (s \cap req[h].sure) /\ UNCHANGED <<calls, menu>>
           /\ \A more : Fail(h, more) =>
                Put(h, NoReq) /\ doubt' = doubt \cup more /\ UNCHANGED <<calls, menu>>
<1>1. req' = [req EXCEPT ![h] = NoReq] => Put(h, NoReq)
    BY DEF RequestsOf, Put
<1> QED BY <1>1 DEF Finish, FinishAnyway, Fail

\* The same when it is answered although something was left undone.
LEMMA LeavePuts ==
    ASSUME NEW O, NEW K, RequestsOf(O, K), NEW h \in Workers, NEW more, Leave(h, more)
    PROVE  Put(h, NoReq) /\ doubt' = doubt \cup more /\ UNCHANGED <<calls, menu>>
BY EndPuts DEF Leave

\* A request of another kind moves on or ends.
LEMMA PutAside ==
    ASSUME NEW O, NEW K, RequestsOf(O, K), NEW h \in Workers, req[h] # NoReq, req[h].op \notin O,
           NEW r, Put(h, r),
           r = NoReq \/ (Requested(r) /\ r.op = req[h].op /\ r.on = req[h].on /\ r.sure = req[h].sure),
           doubt' \cap K = doubt \cap K, UNCHANGED <<calls, menu>>
    PROVE  Aside(O, K)
<1>1. req[h].on \cap K = {} /\ Requested(req[h]) /\ req[h].sure \subseteq req[h].on
    BY DEF RequestsOf
<1>2. Free(O, K, req[h]) /\ Free(O, K, r)
    BY <1>1 DEF Free, Foreign
<1>3. \A w \in Workers : Alike(K, req[w], req'[w]) \/ (Free(O, K, req[w]) /\ Free(O, K, req'[w]))
    BY <1>2 DEF Put, RequestsOf, Alike, Free
<1>4. req' = [w \in Workers |-> req'[w]]
    BY DEF Put
<1> QED BY <1>3, <1>4 DEF Aside, RequestsOf

\* It goes on to its next await,
LEMMA GoAside ==
    ASSUME NEW O, NEW K, RequestsOf(O, K), NEW h \in Workers, req[h] # NoReq, req[h].op \notin O,
           NEW at, NEW data, Go(h, at, data)
    PROVE  Aside(O, K)
<1>1. Put(h, Moved(req[h], at, data)) /\ UNCHANGED <<doubt, calls, menu>>
    BY GoPuts
<1> QED BY <1>1, PutAside DEF Moved, Requested

\* goes on after a failure,
LEMMA SwallowAside ==
    ASSUME NEW O, NEW K, RequestsOf(O, K), NEW h \in Workers, req[h] # NoReq, req[h].op \notin O,
           NEW at, NEW data, NEW more, more \cap K = {}, Swallow(h, at, data, more)
    PROVE  Aside(O, K)
<1>1. Put(h, Moved(req[h], at, data)) /\ doubt' = doubt \cup more /\ UNCHANGED <<calls, menu>>
    BY GoPuts
<1> QED BY <1>1, PutAside DEF Moved, Requested

\* is answered, settling what it has been sure of;
LEMMA FinishAside ==
    ASSUME NEW O, NEW K, RequestsOf(O, K), NEW h \in Workers, req[h] # NoReq, req[h].op \notin O,
           NEW settled, Finish(h, settled) \/ FinishAnyway(h, settled)
    PROVE  Aside(O, K)
<1>1. Put(h, NoReq) /\ doubt' = doubt \ (settled \cap req[h].sure) /\ UNCHANGED <<calls, menu>>
    BY EndPuts
<1>2. doubt' \cap K = doubt \cap K
    BY <1>1 DEF RequestsOf
<1> QED BY <1>1, <1>2, PutAside

\* fails,
LEMMA FailAside ==
    ASSUME NEW O, NEW K, RequestsOf(O, K), NEW h \in Workers, req[h] # NoReq, req[h].op \notin O,
           NEW more, more \cap K = {}, Fail(h, more)
    PROVE  Aside(O, K)
<1>1. Put(h, NoReq) /\ doubt' = doubt \cup more /\ UNCHANGED <<calls, menu>>
    BY EndPuts
<1> QED BY <1>1, PutAside

\* or is answered with something left undone.
LEMMA LeaveAside ==
    ASSUME NEW O, NEW K, RequestsOf(O, K), NEW h \in Workers, req[h] # NoReq, req[h].op \notin O,
           NEW more, more \cap K = {}, Leave(h, more)
    PROVE  Aside(O, K)
<1>1. Put(h, NoReq) /\ doubt' = doubt \cup more /\ UNCHANGED <<calls, menu>>
    BY LeavePuts
<1> QED BY <1>1, PutAside

\* A step that leaves the requests alone.
LEMMA IdleAside ==
    ASSUME NEW O, NEW K, RequestsOf(O, K), req' = req, menu' = menu, calls' \in Nat, calls' <= calls,
           doubt' \cap K = doubt \cap K
    PROVE  Aside(O, K)
BY DEF RequestsOf, Aside, Alike, Free


----------------------------------------------------------------------------
(***************************************************************************)
(* Steps of a component with operations of its own are aside for others.   *)
(* O and K are what the others are about; K need only miss the objects     *)
(* the step is about.                                                      *)
(***************************************************************************)

\* Tokens.
LEMMA TokenStepMisses ==
    ASSUME NEW O, NEW K, RequestsOf(O, K), O \cap TokenOps = {}, \A t \in Tokens : TokenObject(t) \notin K,
           NEW h \in Workers, TokenStep(h), (req[h] # NoReq /\ req[h].op \in TokenOps \ {"restore tokens"}) => TokenObject(req[h].data.t) \notin K
    PROVE  Aside(O, K)
<1> USE DEF TokenOps, At, Syncing
<1>1. CASE SyncCreate(h) \/ SyncRevoke(h) \/ Restore(h)
    <2>1. ASSUME SyncCreate(h) PROVE Aside(O, K)
        <3>1. PICK t, data : t \in Tokens /\ Begin(h, "create token", {TokenObject(t)}, "key", data)
            BY <2>1 DEF SyncCreate
        <3>2. {TokenObject(t)} \cap K = {} /\ "create token" \notin O
            BY <3>1
        <3> QED BY <3>1, <3>2, BeginAside
    <2>2. ASSUME SyncRevoke(h) PROVE Aside(O, K)
        <3>1. PICK t, data : t \in Tokens /\ Begin(h, "revoke token", {TokenObject(t)}, "key", data)
            BY <2>2 DEF SyncRevoke
        <3>2. {TokenObject(t)} \cap K = {} /\ "revoke token" \notin O
            BY <3>1
        <3> QED BY <3>1, <3>2, BeginAside
    <2>3. ASSUME Restore(h) PROVE Aside(O, K)
        <3>1. TokenObjects \cap K = {} /\ "restore tokens" \notin O
            BY DEF TokenObjects
        <3> QED BY <2>3, <3>1, BeginAside DEF Restore
    <2> QED BY <1>1, <2>1, <2>2, <2>3
<1>2. CASE SyncKey(h) \/ ListRows(h) \/ DropExpired(h) \/ SetKey(h)
    BY <1>2, GoAside DEF SyncKey, ListRows, DropExpired, SetKey
<1>3. CASE GetKey(h)
    BY <1>3, GoAside DEF GetKey
<1>4. CASE SyncRow(h) \/ SyncRowFails(h) \/ RestoreEnds(h)
    BY <1>4, FinishAside DEF SyncRow, SyncRowFails, RestoreEnds
<1>5. CASE SyncKeyFails(h)
    <2>1. PICK t : t = req[h].data.t /\ Fail(h, {TokenObject(t)}) /\ req[h] # NoReq /\ req[h].op \in {"create token", "revoke token"}
        BY <1>5 DEF SyncKeyFails
    <2>2. {TokenObject(t)} \cap K = {} /\ req[h].op \notin O
        BY <2>1
    <2> QED BY <2>1, <2>2, FailAside
<1>6. CASE RestoreFails(h)
    BY <1>6, FailAside DEF RestoreFails
<1> QED BY <1>1, <1>2, <1>3, <1>4, <1>5, <1>6 DEF TokenStep

\* The same where K holds no token at all.
LEMMA TokenStepAside ==
    ASSUME NEW O, NEW K, RequestsOf(O, K), O \cap TokenOps = {}, \A x : TokenObject(x) \notin K,
           NEW h \in Workers, TokenStep(h)
    PROVE  Aside(O, K)
BY TokenStepMisses

\* Webhooks.
LEMMA HookStepAside ==
    ASSUME NEW O, NEW K, RequestsOf(O, K), O \cap HookRequests = {}, LayoutObject \notin K,
           NEW h \in Workers, HookStep(h)
    PROVE  Aside(O, K)
<1> USE DEF HookRequests, At, InHookOp, HookOps
<1>1. CASE AddHook(h) \/ ChangeHook(h) \/ ListHooks(h)
    <2>1. PICK op \in HookOps : BeginIn("projects", h, op, {LayoutObject}, "has column", NoData)
        BY <1>1 DEF AddHook, ChangeHook, ListHooks, HookRequest
    <2>2. {LayoutObject} \cap K = {} /\ op \notin O
        OBVIOUS
    <2> QED BY <2>1, <2>2, BeginInAside
<1>2. CASE RemoveHook(h)
    <2>1. PICK data : BeginIn("projects", h, "remove hook", {}, "logs", data)
        BY <1>2 DEF RemoveHook
    <2> QED BY <2>1, BeginInAside
<1>6. CASE RestoreHooks(h)
    <2>1. BeginIn("projects", h, "restore hooks", {}, "row", NoData)
        BY <1>6 DEF RestoreHooks
    <2> QED BY <2>1, BeginInAside
<1>3. CASE HasColumn(h) \/ AddColumn(h) \/ FillColumn(h) \/ DropColumn(h) \/ DeleteLogs(h)
    BY <1>3, GoAside DEF HasColumn, AddColumn, FillColumn, DropColumn, DeleteLogs, GoOn
<1>4. CASE AddColumnRefused(h) \/ InsertHook(h) \/ UpdateHook(h) \/ ReadHooks(h) \/ DeleteHook(h) \/ ReplaceHooks(h)
    BY <1>4, FinishAside DEF AddColumnRefused, InsertHook, UpdateHook, ReadHooks, DeleteHook, ReplaceHooks
<1>5. CASE HookStepFails(h)
    BY <1>5, FailAside DEF HookStepFails
<1> QED BY <1>1, <1>2, <1>3, <1>4, <1>5, <1>6 DEF HookStep

\* Monitors.
LEMMA MonitorStepMisses ==
    ASSUME NEW O, NEW K, RequestsOf(O, K), O \cap (MonOps \cup {"start monitors"}) = {}, \A m \in Monitors : MonObject(m) \notin K,
           NEW h \in Workers, MonitorStep(h), (req[h] # NoReq /\ req[h].op \in MonOps) => MonObject(req[h].data.m) \notin K
    PROVE  Aside(O, K)
<1> USE DEF MonOps, At, OfMonitor, GoOn
<1>1. CASE AddMonitor(h) \/ ChangeMonitor(h) \/ RemoveMonitor(h)
    <2>1. CASE AddMonitor(h)
        <3>1. PICK op, m, data : m \in Monitors /\ op = "add monitor" /\ BeginIn("projects", h, op, {MonObject(m)}, "tables", data)
            BY <2>1 DEF AddMonitor
        <3>2. {MonObject(m)} \cap K = {} /\ op \notin O
            BY <3>1
        <3> QED BY <3>1, <3>2, BeginInAside
    <2>2. CASE ChangeMonitor(h)
        <3>1. PICK op, m, data : m \in Monitors /\ op = "change monitor" /\ BeginIn("projects", h, op, {MonObject(m)}, "tables", data)
            BY <2>2 DEF ChangeMonitor
        <3>2. {MonObject(m)} \cap K = {} /\ op \notin O
            BY <3>1
        <3> QED BY <3>1, <3>2, BeginInAside
    <2>3. CASE RemoveMonitor(h)
        <3>1. PICK op, m, data : m \in Monitors /\ op = "remove monitor" /\ BeginIn("projects", h, op, {MonObject(m)}, "tables", data)
            BY <2>3 DEF RemoveMonitor
        <3>2. {MonObject(m)} \cap K = {} /\ op \notin O
            BY <3>1
        <3> QED BY <3>1, <3>2, BeginInAside
    <2> QED BY <1>1, <2>1, <2>2, <2>3
<1>2. CASE EnsureTables(h) \/ ReadMonitors(h)
    BY <1>2, GoAside DEF EnsureTables, ReadMonitors
<1>3. CASE EnsureTablesFails(h) \/ SetTimer(h) \/ SetTimers(h)
    BY <1>3, FinishAside DEF EnsureTablesFails, SetTimer, SetTimers
<1>4. CASE WriteMonitor(h)
    BY <1>4, GoAside, FinishAside DEF WriteMonitor
<1>5. CASE WriteMonitorFails(h)
    <2>1. PICK m : MonObject(m) \notin K /\ Fail(h, {MonObject(m)}) /\ req[h] # NoReq /\ req[h].op \notin O
        BY <1>5 DEF WriteMonitorFails
    <2>2. {MonObject(m)} \cap K = {}
        BY <2>1
    <2> QED BY <2>1, <2>2, FailAside
<1>6. CASE ReadMonitorsFails(h)
    <2>1. {MonObject(m) : m \in {m \in Monitors : There(m)}} \cap K = {} /\ req[h] # NoReq /\ req[h].op \notin O
        BY <1>6 DEF ReadMonitorsFails
    <2> QED BY <1>6, <2>1, FailAside DEF ReadMonitorsFails
<1> QED BY <1>1, <1>2, <1>3, <1>4, <1>5, <1>6 DEF MonitorStep

\* The same where K holds no monitor at all.
LEMMA MonitorStepAside ==
    ASSUME NEW O, NEW K, RequestsOf(O, K), O \cap (MonOps \cup {"start monitors"}) = {}, \A x : MonObject(x) \notin K,
           NEW h \in Workers, MonitorStep(h)
    PROVE  Aside(O, K)
BY MonitorStepMisses

\* The AI studio.
LEMMA StudioStepMisses ==
    ASSUME NEW O, NEW K, RequestsOf(O, K), O \cap StudioOps = {},
           PluginObject \notin K, \A s \in Sessions : SessionObject(s) \notin K,
           NEW h \in Workers, StudioStep(h)
    PROVE  Aside(O, K)
<1> USE DEF StudioOps, At, OfPlugin, PluginOps, GoOn
<1>1. CASE \E op \in PluginOps : SwitchPlugin(h, op)
    <2>1. PICK op \in PluginOps :
            BeginIn("projects", h, op, {PluginObject} \cup (IF op = "disable plugin" THEN SessionObjects ELSE {}),
                    "find", NoData)
        BY <1>1 DEF SwitchPlugin
    <2>2. ({PluginObject} \cup (IF op = "disable plugin" THEN SessionObjects ELSE {})) \cap K = {} /\ op \notin O
        BY DEF SessionObjects
    <2> QED BY <2>1, <2>2, BeginInAside
<1>2. CASE ForgetSession(h) \/ Talk(h)
    <2>1. ASSUME ForgetSession(h) PROVE Aside(O, K)
        <3>1. PICK s, data : s \in Sessions /\ Begin(h, "forget session", {SessionObject(s)}, "delete", data)
            BY <2>1 DEF ForgetSession, InStudio
        <3>2. {SessionObject(s)} \cap K = {} /\ "forget session" \notin O
            BY <3>1
        <3> QED BY <3>1, <3>2, BeginAside
    <2>2. ASSUME Talk(h) PROVE Aside(O, K)
        <3>1. PICK s, data : s \in Sessions /\ Begin(h, "talk", {SessionObject(s)}, "endpoint", data)
            BY <2>2 DEF Talk, InStudio
        <3>2. {SessionObject(s)} \cap K = {} /\ "talk" \notin O
            BY <3>1
        <3> QED BY <3>1, <3>2, BeginAside
    <2> QED BY <1>2, <2>1, <2>2
<1>3. CASE FindPlugin(h) \/ WritePlugin(h) \/ FindTables(h)
    BY <1>3, GoAside, FinishAside DEF FindPlugin, WritePlugin, FindTables
<1>4. CASE FindNoProject(h) \/ MakeTableRefused(h)
    <2>1. {PluginObject} \cap K = {}
        OBVIOUS
    <2> QED BY <1>4, <2>1, LeaveAside DEF FindNoProject, MakeTableRefused
<1>5. CASE MakeTable(h) \/ DropTable(h)
    BY <1>5, GoAside, FinishAside DEF MakeTable, DropTable
<1>6. CASE PluginStepFails(h)
    BY <1>6, FailAside DEF PluginStepFails
<1>7. CASE DeleteContext(h) \/ SaveContext(h)
    BY <1>7, FinishAside DEF DeleteContext, SaveContext
<1>8. CASE GetEndpoint(h) \/ GetContext(h) \/ AskProvider(h) \/ LogCall(h) \/ FindContext(h)
    BY <1>8, GoAside, FinishAside DEF GetEndpoint, GetContext, AskProvider, LogCall, FindContext
<1>9. CASE Purge(h)
    <2>1. PICK old \in SUBSET Sessions :
            /\ req[h] # NoReq /\ req[h].op = "talk" /\ req' = [req EXCEPT ![h].at = "context"]
            /\ doubt' = doubt \cup Interrupts(old \ {req[h].data.s}) /\ UNCHANGED <<calls, menu>>
        BY <1>9 DEF Purge
    <2>2. doubt' \cap K = doubt \cap K
        BY <2>1 DEF Interrupts
    <2>3. Put(h, Moved(req[h], "context", req[h].data))
        BY <2>1, MoveOnPuts
    <2> QED BY <2>1, <2>2, <2>3, PutAside DEF Moved, Requested
<1>10. CASE TalkFails(h)
    BY <1>10, FailAside DEF TalkFails, RequestsOf
<1> QED BY <1>1, <1>2, <1>3, <1>4, <1>5, <1>6, <1>7, <1>8, <1>9, <1>10 DEF StudioStep

\* The same where K holds no session at all.
LEMMA StudioStepAside ==
    ASSUME NEW O, NEW K, RequestsOf(O, K), O \cap StudioOps = {},
           PluginObject \notin K, \A x : SessionObject(x) \notin K,
           NEW h \in Workers, StudioStep(h)
    PROVE  Aside(O, K)
BY StudioStepMisses

\* Files.
LEMMA FileStepMisses ==
    ASSUME NEW O, NEW K, RequestsOf(O, K), O \cap FileOps = {}, \A f \in Files : FileObject(f) \notin K,
           NEW h \in Workers, FileStep(h), (req[h] # NoReq /\ req[h].op \in FileOps) => FileObject(req[h].data.f) \notin K
    PROVE  Aside(O, K)
<1> USE DEF FileOps, At, GoOn
<1>1. ASSUME Upload(h) PROVE Aside(O, K)
    <2>1. PICK f, data : f \in Files /\ BeginIn("projects", h, "upload file", {FileObject(f)}, "write", data)
        BY <1>1 DEF Upload
    <2>2. {FileObject(f)} \cap K = {} /\ "upload file" \notin O
        BY <2>1
    <2> QED BY <2>1, <2>2, BeginInAside
<1>2. ASSUME RemoveFile(h) PROVE Aside(O, K)
    <2>1. PICK f, data : f \in Files /\ BeginIn("projects", h, "remove file", {FileObject(f)}, "find", data)
        BY <1>2 DEF RemoveFile
    <2>2. {FileObject(f)} \cap K = {} /\ "remove file" \notin O
        BY <2>1
    <2> QED BY <2>1, <2>2, BeginInAside
<1>3. CASE WriteFile(h) \/ FindFile(h) \/ Unlink(h)
    BY <1>3, GoAside, FinishAside DEF WriteFile, FindFile, Unlink
<1>4. CASE UnlinkFails(h)
    <2>1. PICK f : FileObject(f) \notin K /\ Swallow(h, "row", req[h].data, {FileObject(f)}) /\ req[h] # NoReq /\ req[h].op \notin O
        BY <1>4 DEF UnlinkFails
    <2>2. {FileObject(f)} \cap K = {}
        BY <2>1
    <2> QED BY <2>1, <2>2, SwallowAside
<1>5. CASE InsertFile(h) \/ DeleteFile(h)
    BY <1>5, FinishAside DEF InsertFile, DeleteFile
<1>6. CASE UploadFails(h) \/ RemoveFileFails(h)
    <2>1. PICK f, more : FileObject(f) \notin K /\ more \subseteq {FileObject(f)} /\ Fail(h, more) /\ req[h] # NoReq /\ req[h].op \notin O
        BY <1>6 DEF UploadFails, RemoveFileFails
    <2>2. more \cap K = {}
        BY <2>1
    <2> QED BY <2>1, <2>2, FailAside
<1> QED BY <1>1, <1>2, <1>3, <1>4, <1>5, <1>6 DEF FileStep

\* The same where K holds no file at all.
LEMMA FileStepAside ==
    ASSUME NEW O, NEW K, RequestsOf(O, K), O \cap FileOps = {}, \A x : FileObject(x) \notin K,
           NEW h \in Workers, FileStep(h)
    PROVE  Aside(O, K)
BY FileStepMisses

\* A fetched quota sends those on that wait for it.
LEMMA AnswerAsides ==
    ASSUME NEW O, NEW K, RequestsOf(O, K), O \cap QuotaOps = {}, NEW h \in Workers, At(h, "serve", "store"),
           NEW got, AnswerAll(h, got)
    PROVE  Aside(O, K)
<1> USE DEF QuotaOps
<1>1. /\ req' = [w \in Workers |->
            IF w = h \/ (At(w, "serve", "wait") /\ req[w].data.of = h)
            THEN [req[w] EXCEPT !.at = "count", !.data.limit = got]
            ELSE req[w]]
      /\ UNCHANGED <<menu, calls, doubt>>
    BY DEF AnswerAll
<1>2. ASSUME NEW w \in Workers, req[w] # NoReq, req[w].op = "serve"
      PROVE  Free(O, K, req[w]) /\ Free(O, K, [req[w] EXCEPT !.at = "count", !.data.limit = got])
    <2>1. Foreign(O, K, req[w]) /\ req[w].sure \subseteq req[w].on
        BY <1>2 DEF RequestsOf, Foreign
    <2>5. Requested(req[w])
        BY <1>2 DEF RequestsOf
    <2>2. PICK r : r = [op |-> req[w].op, on |-> req[w].on, at |-> "count",
                        data |-> [req[w].data EXCEPT !.limit = got], sure |-> req[w].sure]
        OBVIOUS
    <2>3. [req[w] EXCEPT !.at = "count", !.data.limit = got] = r
        BY ONLY <2>5, <2>2, RequestMoves
    <2>4. Requested(r) /\ Foreign(O, K, r) /\ r.sure \subseteq r.on
        BY <2>1, <2>2 DEF Requested, Foreign
    <2> QED BY <2>1, <2>3, <2>4, <2>5 DEF Free
<1>3. ASSUME NEW w \in Workers
      PROVE  Alike(K, req[w], req'[w]) \/ (Free(O, K, req[w]) /\ Free(O, K, req'[w]))
    <2>1. CASE w = h \/ (At(w, "serve", "wait") /\ req[w].data.of = h)
        BY <1>1, <1>2, <2>1 DEF At
    <2>2. CASE req'[w] = req[w]
        BY <2>2 DEF RequestsOf, Free, Alike
    <2> QED BY <1>1, <2>1, <2>2
<1>4. req' = [w \in Workers |-> req'[w]] /\ doubt' \cap K = doubt \cap K
    BY <1>1
<1>5. calls' = calls /\ menu' = menu
    BY DEF AnswerAll
<1>6. calls \in Nat
    BY DEF RequestsOf
<1>7. calls' \in Nat /\ calls' <= calls
    BY ONLY <1>5, <1>6
<1> QED BY <1>3, <1>4, <1>5, <1>7 DEF Aside

\* Quotas.
LEMMA QuotaStepAside ==
    ASSUME NEW O, NEW K, RequestsOf(O, K), O \cap QuotaOps = {}, NEW h \in Workers, QuotaStep(h)
    PROVE  Aside(O, K)
<1> USE DEF QuotaOps, At, GoOn
<1>1. ASSUME Serve(h) PROVE Aside(O, K)
    <2>1. PICK data : BeginIn("slugs", h, "serve", {}, "quota", data)
        BY <1>1 DEF Serve
    <2> QED BY <2>1, BeginInAside
<1>2. CASE ChangeQuota(h)
    BY <1>2, BeginAside DEF ChangeQuota
<1>3. CASE ReadQuota(h) \/ ReadQuotaFails(h) \/ Fetch(h)
    BY <1>3, GoAside, SwallowAside DEF ReadQuota, ReadQuotaFails, Fetch
<1>4. CASE Count(h) \/ CountFails(h) \/ Invalidate(h) \/ InvalidateFails(h)
    BY <1>4, FinishAside DEF Count, CountFails, Invalidate, InvalidateFails
<1>5. CASE StoreQuota(h) \/ StoreQuotaFails(h)
    BY <1>5, AnswerAsides DEF StoreQuota, StoreQuotaFails
<1> QED BY <1>1, <1>2, <1>3, <1>4, <1>5 DEF QuotaStep

\* Players.
LEMMA PlayerStepMisses ==
    ASSUME NEW O, NEW K, RequestsOf(O, K), O \cap PlayerOps = {}, \A p \in Players : PlayerObject(p) \notin K,
           NEW h \in Workers, PlayerStep(h), (req[h] # NoReq /\ req[h].op = "login") => PlayerObject(req[h].data.p) \notin K
    PROVE  Aside(O, K)
<1> USE DEF PlayerOps, At, GoOn, OfUse, UseOps
<1>1. CASE Login(h) \/ UseSession(h)
    <2>1. ASSUME Login(h) PROVE Aside(O, K)
        <3>1. PICK p, data : p \in Players /\ Begin(h, "login", {PlayerObject(p)}, "find", data)
            BY <2>1 DEF Login
        <3>2. {PlayerObject(p)} \cap K = {} /\ "login" \notin O
            BY <3>1
        <3> QED BY <3>1, <3>2, BeginAside
    <2>2. ASSUME UseSession(h) PROVE Aside(O, K)
        <3>1. PICK data : \/ Begin(h, "check session", {}, "find", data)
                          \/ BeginIn("slugs", h, "use session", {}, "find", data)
            BY <2>2 DEF UseSession
        <3> QED BY <3>1, BeginAside, BeginInAside
    <2> QED BY <1>1, <2>1, <2>2
<1>2. CASE FindPlayer(h) \/ FindSession(h)
    BY <1>2, GoAside, FinishAside DEF FindPlayer, FindSession
<1>3. CASE UpdatePlayer(h) \/ InsertPlayer(h) \/ LoginRefused(h)
    <2>1. CASE InsertPlayer(h) \/ LoginRefused(h)
        BY <2>1, FinishAside DEF InsertPlayer, LoginRefused
    <2>2. CASE UpdatePlayer(h)
        <3>1. PICK p, settled : PlayerObject(p) \notin K /\ (Leave(h, {PlayerObject(p)}) \/ Finish(h, settled))
            BY <2>2 DEF UpdatePlayer
        <3>2. {PlayerObject(p)} \cap K = {} /\ req[h] # NoReq /\ req[h].op \notin O
            BY <2>2, <3>1 DEF UpdatePlayer
        <3> QED BY <3>1, <3>2, FinishAside, LeaveAside
    <2> QED BY <1>3, <2>1, <2>2
<1>4. CASE EndSession(h) \/ TouchSession(h) \/ LookActive(h)
    BY <1>4, FinishAside DEF EndSession, TouchSession, LookActive
<1>5. CASE LoginFails(h) \/ UseFails(h)
    BY <1>5, FailAside DEF LoginFails, UseFails
<1> QED BY <1>1, <1>2, <1>3, <1>4, <1>5 DEF PlayerStep

\* The same where K holds no player at all.
LEMMA PlayerStepAside ==
    ASSUME NEW O, NEW K, RequestsOf(O, K), O \cap PlayerOps = {}, \A x : PlayerObject(x) \notin K,
           NEW h \in Workers, PlayerStep(h)
    PROVE  Aside(O, K)
BY PlayerStepMisses

\* A project made and switched.
LEMMA ProjectStepAside ==
    ASSUME NEW O, NEW K, RequestsOf(O, K), O \cap ProjectOps = {}, ProjectObject \notin K, SwitchObject \notin K,
           NEW h \in Workers, ProjectStep(h)
    PROVE  Aside(O, K)
<1> USE DEF ProjectOps, At, GoOn
<1>1. CASE CreateProject(h)
    <2>1. {ProjectObject} \cap K = {}
        OBVIOUS
    <2> QED BY <1>1, <2>1, BeginAside DEF CreateProject
<1>2. CASE Switch(h)
    <2>1. PICK data : Begin(h, "switch project", {SwitchObject}, "flag", data)
        BY <1>2 DEF Switch
    <2>2. {SwitchObject} \cap K = {}
        OBVIOUS
    <2> QED BY <2>1, <2>2, BeginAside
<1>3. CASE MakeSchema(h)
    BY <1>3, GoAside DEF MakeSchema
<1>4. CASE MakeRow(h) \/ SetFlag(h)
    BY <1>4, FinishAside DEF MakeRow, SetFlag
<1>5. CASE ProjectFails(h)
    BY <1>5, FailAside DEF ProjectFails, RequestsOf
<1> QED BY <1>1, <1>2, <1>3, <1>4, <1>5 DEF ProjectStep


\* The deletion of a project.
LEMMA DeletionMisses ==
    ASSUME NEW O, NEW K, RequestsOf(O, K), "delete project" \notin O, Deleted \cap K = {}, \A f \in disk : FileObject(f) \notin K,
           NEW h \in Workers, Deletion(h)
    PROVE  Aside(O, K)
<1> USE DEF Deleted, At, GoOn, Deleting
<1>1. CASE DeleteProject(h)
    BY <1>1, BeginAside DEF DeleteProject
<1>2. CASE FindProject(h)
    BY <1>2, GoAside, FinishAside DEF FindProject
<1>3. CASE DeleteFiles(h) \/ DeleteFileRows(h) \/ DeletePlugins(h) \/ DeleteRawLogs(h) \/ DeleteHooks(h)
    BY <1>3, GoAside DEF DeleteFiles, DeleteFileRows, DeletePlugins, DeleteRawLogs, DeleteHooks
<1>4. CASE DeleteTokenRows(h) \/ PluckHashes(h) \/ DropSchema(h) \/ DeleteRow(h)
    BY <1>4, GoAside DEF DeleteTokenRows, PluckHashes, DropSchema, DeleteRow
<1>5. CASE DeleteKey(h)
    BY <1>5, GoAside DEF DeleteKey
<1>6. CASE KeepFile(h)
    <2>1. PICK f \in disk : Swallow(h, "file rows", NoData, {FileObject(f)})
        BY <1>6 DEF KeepFile
    <2>2. {FileObject(f)} \cap K = {} /\ req[h] # NoReq /\ req[h].op \notin O
        BY <1>6 DEF KeepFile
    <2> QED BY <2>1, <2>2, SwallowAside
<1>7. CASE DeleteFilesFail(h)
    <2>1. FileObjects \cap K = {} /\ req[h] # NoReq /\ req[h].op \notin O /\ Swallow(h, "plugins", NoData, FileObjects)
        BY <1>7 DEF DeleteFilesFail
    <2> QED BY <2>1, SwallowAside
<1>8. CASE DeleteStepFails(h) \/ DeleteKeysFail(h)
    <2>1. PICK at, more : more \subseteq {PluginObject} /\ Swallow(h, at, NoData, more)
        BY <1>8 DEF DeleteStepFails, DeleteKeysFail
    <2>2. more \cap K = {} /\ req[h] # NoReq /\ req[h].op \notin O
        BY <1>8, <2>1 DEF DeleteStepFails, DeleteKeysFail
    <2> QED BY <2>1, <2>2, SwallowAside
<1>9. CASE RemoveUploads(h) \/ RemoveUploadsFails(h)
    BY <1>9, FinishAside DEF RemoveUploads, RemoveUploadsFails
<1>10. CASE DeleteFails(h)
    <2>1. PICK more : more = {ProjectObject, PluginObject} \cup TokenObjects /\ Fail(h, more)
        BY <1>10 DEF DeleteFails
    <2>2. more \cap K = {} /\ req[h] # NoReq /\ req[h].op \notin O
        BY <1>10, <2>1 DEF DeleteFails
    <2> QED BY <2>1, <2>2, FailAside
<1> QED BY <1>1, <1>2, <1>3, <1>4, <1>5, <1>6, <1>7, <1>8, <1>9, <1>10 DEF Deletion, RowDeletion, FileDeletion

\* The same where K holds no file at all.
LEMMA DeletionAside ==
    ASSUME NEW O, NEW K, RequestsOf(O, K), "delete project" \notin O, Deleted \cap K = {}, \A x : FileObject(x) \notin K,
           NEW h \in Workers, Deletion(h)
    PROVE  Aside(O, K)
BY DeletionMisses

\* Steps that are no request's leave the requests as they are.
LEMMA OthersStep ==
    ASSUME TokenTime \/ Delivery \/ MonitorTimers \/ Counting \/ QuotaTime \/ PlayerTime \/ ForgetProject
    PROVE  UNCHANGED <<req, menu, doubt>> /\ (calls' = calls \/ (calls > 0 /\ calls' = calls - 1))
<1>1. CASE TokenTime \/ ForgetProject
    BY <1>1 DEF TokenTime, ForgetProject, baseVars
<1>2. CASE Delivery
    BY <1>2 DEF Delivery, Announce, LookUp, LookUpFails, Deliver, Send, LogAttempt, LogFails, LogError,
       LogErrorFails, baseVars
<1>3. CASE Counting
    BY <1>3 DEF Counting, Respond, Take, StoreBucket, StoreBucketFails, InsertRaw, CountRaw, TrimRaw,
       RawFails, baseVars
<1>4. CASE QuotaTime
    BY <1>4 DEF QuotaTime, RefreshFetch, RefreshStore, Age, Unlock, NewDay, baseVars
<1>5. CASE PlayerTime
    BY <1>5 DEF PlayerTime, TouchLater, MarkLater, LogOut, RevokeSession, RevokeAllSessions,
       CleanExpiredSessions, PlayerTick, Clear
<1>6. CASE MonitorTimers
    BY <1>6 DEF MonitorTimers, Tick, CheckEnds, StopElsewhere, baseVars
<1> QED BY <1>1, <1>2, <1>3, <1>4, <1>5, <1>6

\* They are aside.
LEMMA OthersAside ==
    ASSUME NEW O, NEW K, RequestsOf(O, K),
           TokenTime \/ Delivery \/ MonitorTimers \/ Counting \/ QuotaTime \/ PlayerTime \/ ForgetProject
    PROVE  Aside(O, K)
<1>1. UNCHANGED <<req, menu, doubt>> /\ calls' \in Nat /\ calls' <= calls
    BY OthersStep DEF RequestsOf
<1> QED BY <1>1, IdleAside

\* A statement about the studio's endpoints interrupts its sessions.
LEMMA StatementMisses ==
    ASSUME NEW O, NEW K, RequestsOf(O, K), \A s \in Sessions : SessionObject(s) \notin K, StudioStatement
    PROVE  Aside(O, K)
<1>1. doubt' = doubt \cup Interrupts(Sessions) /\ calls' = calls - 1 /\ calls > 0 /\ UNCHANGED <<req, menu>>
    BY DEF StudioStatement, WriteEndpoint
<1>2. doubt' \cap K = doubt \cap K
    BY <1>1 DEF Interrupts
<1> QED BY <1>1, <1>2, IdleAside DEF RequestsOf

\* The same where K holds no session at all.
LEMMA StatementAside ==
    ASSUME NEW O, NEW K, RequestsOf(O, K), \A x : SessionObject(x) \notin K, StudioStatement
    PROVE  Aside(O, K)
BY StatementMisses

\* Redis loses its memory, which takes tokens and the switch from what requests are sure of.
LEMMA RedisLostAside ==
    ASSUME NEW O, NEW K, RequestsOf(O, K), RedisLost, TokenObjects \cap K = {}, SwitchObject \notin K
    PROVE  Aside(O, K)
<1> DEFINE others == TokenObjects \cup {SwitchObject}
<1>1. /\ req' = [w \in Workers |-> IF req[w] = NoReq THEN NoReq ELSE [req[w] EXCEPT !.sure = @ \ others]]
      /\ doubt' = doubt \cup UNION {req[w].on \cap others :
                     w \in {w \in Handlers : req[w] # NoReq /\ req[w].op # "delete project"}}
      /\ UNCHANGED <<menu, calls>>
    BY DEF RedisLost
<1>2. others \cap K = {}
    OBVIOUS
<1> HIDE DEF others
<1>3. ASSUME NEW w \in Workers
      PROVE  Alike(K, req[w], req'[w]) \/ (Free(O, K, req[w]) /\ Free(O, K, req'[w]))
    <2>1. CASE req[w] = NoReq
        BY <1>1, <2>1 DEF Free
    <2>2. CASE req[w] # NoReq
        <3>1. PICK r : r = [op |-> req[w].op, on |-> req[w].on, at |-> req[w].at, data |-> req[w].data,
                            sure |-> req[w].sure \ others]
            OBVIOUS
        <3>2. [req[w] EXCEPT !.sure = @ \ others] = r
            BY <2>2, <3>1 DEF RequestsOf, Requested
        <3>3. req'[w] = r
            BY <1>1, <2>2, <3>2
        <3> QED BY <1>2, <2>2, <3>1, <3>3 DEF Alike, Requested
    <2> QED BY <2>1, <2>2
<1>4. doubt' \cap K = doubt \cap K
    <2>1. UNION {req[w].on \cap others : w \in {w \in Handlers : req[w] # NoReq /\ req[w].op # "delete project"}}
            \subseteq others
        OBVIOUS
    <2> QED BY <1>1, <1>2, <2>1
<1>5. req' = [w \in Workers |-> req'[w]]
    BY <1>1
<1>6. calls' = calls /\ menu' = menu
    BY DEF RedisLost
<1>7. calls \in Nat
    BY DEF RequestsOf
<1>8. calls' \in Nat /\ calls' <= calls
    BY ONLY <1>6, <1>7
<1> QED BY <1>3, <1>4, <1>5, <1>6, <1>8 DEF Aside

----------------------------------------------------------------------------
(***************************************************************************)
(* The requests that delete a project, which several components share.     *)
(***************************************************************************)
Later == {"plugins", "raw logs", "hooks", "token rows", "pluck", "keys", "schema", "row", "uploads"}
DeletionData == {NoData} \cup [left : SUBSET Tokens]
DeletionOK(r) ==
    r.op = "delete project" =>
        /\ r.on = Deleted /\ r.at \in {"find", "files", "file rows"} \cup Later /\ r.data \in DeletionData
        /\ r.at = "keys" => r.data # NoData

\* Where it may go from there.
Followed(at) ==
    CASE at = "plugins" -> {"raw logs"} [] at = "raw logs" -> {"hooks"} [] at = "hooks" -> {"token rows"}
      [] at = "token rows" -> {"pluck"} [] at = "pluck" -> {"keys", "schema"} [] at = "keys" -> {"keys", "schema"}
      [] at = "schema" -> {"row"} [] at = "row" -> {"uploads"} [] OTHER -> {}
\* The awaits that follow each await.
LEMMA FollowedIs ==
    /\ Followed("plugins") = {"raw logs"} /\ Followed("raw logs") = {"hooks"} /\ Followed("hooks") = {"token rows"}
    /\ Followed("token rows") = {"pluck"} /\ Followed("pluck") = {"keys", "schema"}
    /\ Followed("keys") = {"keys", "schema"} /\ Followed("schema") = {"row"} /\ Followed("row") = {"uploads"}
BY DEF Followed

\* What a step of a deletion does to the requests when it is not the files'.
LaterStep(h) ==
    \/ Arrived(h, "delete project", Deleted, "find", NoData)
    \/ At(h, "delete project", "find") /\ Put(h, Moved(req[h], "files", req[h].data)) /\ UNCHANGED <<doubt, calls, menu>>
    \/ At(h, "delete project", "find") /\ Put(h, NoReq) /\ UNCHANGED <<doubt, calls, menu>>
    \/ \E at \in Later, data \in DeletionData, more \in SUBSET {PluginObject} :
        /\ req[h] # NoReq /\ req[h].op = "delete project" /\ req[h].at \in Later \ {"uploads"}
        /\ at \in Followed(req[h].at) /\ (at = "keys" => data # NoData)
        /\ Put(h, Moved(req[h], at, data)) /\ doubt' = doubt \cup more /\ UNCHANGED <<calls, menu>>
    \/ \E more \in SUBSET ({ProjectObject, PluginObject} \cup TokenObjects) :
        /\ At(h, "delete project", "schema") \/ At(h, "delete project", "row")
        /\ {ProjectObject, PluginObject} \cup TokenObjects \subseteq more
        /\ Put(h, NoReq) /\ doubt' = doubt \cup more /\ UNCHANGED <<calls, menu>>

\* What follows a step of a deletion that has failed.
LEMMA AfterStepIs ==
    /\ AfterStep("plugins") = "raw logs" /\ AfterStep("raw logs") = "hooks" /\ AfterStep("hooks") = "token rows"
    /\ AfterStep("token rows") = "pluck" /\ AfterStep("pluck") = "schema"
<1>1. Len(DeleteSteps) - 1 = 9
    BY DEF DeleteSteps
<1>2. /\ DeleteSteps[1] = "files" /\ DeleteSteps[2] = "file rows" /\ DeleteSteps[3] = "plugins"
      /\ DeleteSteps[4] = "raw logs" /\ DeleteSteps[5] = "hooks" /\ DeleteSteps[6] = "token rows"
      /\ DeleteSteps[7] = "pluck" /\ DeleteSteps[8] = "schema" /\ DeleteSteps[9] = "row"
    BY DEF DeleteSteps
<1>3. \A j \in 1 .. 9 : j = 1 \/ j = 2 \/ j = 3 \/ j = 4 \/ j = 5 \/ j = 6 \/ j = 7 \/ j = 8 \/ j = 9
    OBVIOUS
<1> DEFINE Place(at) == CHOOSE j \in 1 .. 9 : DeleteSteps[j] = at
<1>4. ASSUME NEW i \in 3 .. 7 PROVE Place(DeleteSteps[i]) = i
    <2>1. ASSUME NEW j \in 1 .. 9, DeleteSteps[j] = DeleteSteps[i] PROVE j = i
        <3>1. i = 3 \/ i = 4 \/ i = 5 \/ i = 6 \/ i = 7
            OBVIOUS
        <3> QED BY <1>2, <1>3, <2>1, <3>1
    <2> QED BY <2>1
<1> HIDE DEF Place
<1>5. Place("plugins") = 3 /\ Place("raw logs") = 4 /\ Place("hooks") = 5 /\ Place("token rows") = 6 /\ Place("pluck") = 7
    <2>1. 3 \in 3 .. 7 /\ 4 \in 3 .. 7 /\ 5 \in 3 .. 7 /\ 6 \in 3 .. 7 /\ 7 \in 3 .. 7
        OBVIOUS
    <2> QED BY <1>2, <1>4, <2>1
<1>6. \A at : AfterStep(at) = DeleteSteps[1 + Place(at)]
    BY <1>1 DEF AfterStep, Place
<1>7. /\ AfterStep("plugins") = DeleteSteps[4] /\ AfterStep("raw logs") = DeleteSteps[5]
      /\ AfterStep("hooks") = DeleteSteps[6]
      /\ AfterStep("token rows") = DeleteSteps[7] /\ AfterStep("pluck") = DeleteSteps[8]
    <2>1. 1 + 3 = 4 /\ 1 + 4 = 5 /\ 1 + 5 = 6 /\ 1 + 6 = 7 /\ 1 + 7 = 8
        OBVIOUS
    <2> QED BY <1>5, <1>6, <2>1
<1> QED BY <1>2, <1>7

\* A step of a deletion, or the drop of the schema, is such a step.
LEMMA DeletionSteps ==
    ASSUME NEW O, NEW K, RequestsOf(O, K), NEW h \in Workers, RowDeletion(h) \/ DropSchema(h),
           req[h] # NoReq => DeletionOK(req[h])
    PROVE  LaterStep(h)
<1> USE DEF Deleting, GoOn
<1> DEFINE Goes(at, data, more) ==
        /\ req[h] # NoReq /\ req[h].op = "delete project" /\ req[h].at \in Later \ {"uploads"}
        /\ at \in Followed(req[h].at) /\ (at = "keys" => data # NoData)
        /\ Put(h, Moved(req[h], at, data)) /\ doubt' = doubt \cup more /\ UNCHANGED <<calls, menu>>
<1>1. ASSUME NEW at \in Later, NEW data \in DeletionData, NEW more \in SUBSET {PluginObject}, Goes(at, data, more)
      PROVE  LaterStep(h)
    BY <1>1 DEF LaterStep
<1>2. ASSUME NEW at \in Later, NEW data \in DeletionData, Go(h, at, data), at = "keys" => data # NoData,
             NEW here \in Later \ {"uploads"}, At(h, "delete project", here), at \in Followed(here)
      PROVE  LaterStep(h)
    <2>1. Goes(at, data, {})
        BY <1>2, GoPuts DEF At
    <2> QED BY <1>1, <2>1
<1>3. CASE DeleteProject(h)
    BY <1>3, CalledArrives DEF DeleteProject, Begin, Deleted, LaterStep
<1>4. CASE FindProject(h)
    <2>1. At(h, "delete project", "find")
        BY <1>4 DEF FindProject
    <2>2. CASE Go(h, "files", req[h].data)
        BY <2>1, <2>2, GoPuts DEF LaterStep, At
    <2>3. CASE Finish(h, {})
        <3>1. Put(h, NoReq) /\ doubt' = doubt \ ({} \cap req[h].sure) /\ UNCHANGED <<calls, menu>>
            BY <2>3, EndPuts
        <3> QED BY <2>1, <3>1 DEF LaterStep
    <2> QED BY <1>4, <2>2, <2>3 DEF FindProject
<1>5. CASE DeletePlugins(h) \/ DeleteRawLogs(h) \/ DeleteHooks(h) \/ DeleteTokenRows(h) \/ DeleteRow(h)
    <2>1. req[h].data \in DeletionData
        BY <1>5 DEF DeletionOK, DeletePlugins, DeleteRawLogs, DeleteHooks, DeleteTokenRows, DeleteRow, At
    <2>2. PICK here, at : at \in Later \ {"keys"} /\ here \in Later \ {"uploads"} /\ At(h, "delete project", here) /\ Go(h, at, req[h].data)
                        /\ at \in Followed(here)
        BY <1>5, FollowedIs DEF DeletePlugins, DeleteRawLogs, DeleteHooks, DeleteTokenRows, DeleteRow, Later
    <2> QED BY <1>2, <2>1, <2>2
<1>6. CASE PluckHashes(h)
    <2>1. PICK left \in SUBSET Tokens : At(h, "delete project", "pluck") /\ (Go(h, "schema", [left |-> left]) \/ Go(h, "keys", [left |-> left]))
        BY <1>6 DEF PluckHashes
    <2>2. [left |-> left] \in DeletionData /\ [left |-> left] # NoData
        <3>1. [left |-> left].left = left /\ DOMAIN [left |-> left] = {"left"} /\ DOMAIN NoData = {"none"}
            BY DEF NoData
        <3> QED BY <2>1, <3>1 DEF DeletionData
    <2> QED BY <1>2, <2>1, <2>2, FollowedIs DEF Later
<1>7. CASE DeleteKey(h)
    <2>1. PICK t \in req[h].data.left : At(h, "delete project", "keys") /\
            (Go(h, "schema", NoData) \/ Go(h, "keys", [left |-> req[h].data.left \ {t}]))
        BY <1>7 DEF DeleteKey
    <2>2. NoData \in DeletionData
        BY DEF DeletionData
    <2>3. /\ [left |-> req[h].data.left \ {t}] \in DeletionData
          /\ [left |-> req[h].data.left \ {t}] # NoData
        <3>1. req[h].data \in [left : SUBSET Tokens]
            BY <2>1 DEF DeletionOK, At, DeletionData
        <3>2. PICK left : left = req[h].data.left \ {t} /\ left \subseteq Tokens
            BY <3>1
        <3>3. DOMAIN [left |-> left] = {"left"} /\ DOMAIN NoData = {"none"}
            BY DEF NoData
        <3> QED BY <3>2, <3>3 DEF DeletionData
    <2> QED BY <1>2, <2>1, <2>2, <2>3, FollowedIs DEF Later
<1>8. CASE DeleteStepFails(h)
    <2>1. PICK at, more :
            /\ at \in {"plugins", "raw logs", "hooks", "token rows", "pluck"} /\ more \in SUBSET {PluginObject}
            /\ At(h, "delete project", at) /\ Swallow(h, AfterStep(at), NoData, more)
        BY <1>8 DEF DeleteStepFails
    <2>2. AfterStep(at) \in Later /\ NoData \in DeletionData /\ at \in Later \ {"uploads"}
        BY <2>1, AfterStepIs DEF Later, DeletionData
    <2>3. Goes(AfterStep(at), NoData, more)
        <3>1. /\ AfterStep(at) # "keys" /\ req[h] # NoReq /\ req[h].op = "delete project" /\ req[h].at = at
              /\ AfterStep(at) \in Followed(at)
            BY <2>1, AfterStepIs, FollowedIs DEF At
        <3>2. Put(h, Moved(req[h], AfterStep(at), NoData)) /\ doubt' = doubt \cup more /\ UNCHANGED <<calls, menu>>
            BY <2>1, <3>1, GoPuts
        <3> QED BY <2>2, <3>1, <3>2
    <2> QED BY <1>1, <2>1, <2>2, <2>3
<1>9. CASE DeleteKeysFail(h)
    <2>1. At(h, "delete project", "keys") /\ Swallow(h, "schema", NoData, {})
        BY <1>9 DEF DeleteKeysFail
    <2>2. "schema" \in Later /\ NoData \in DeletionData /\ "keys" \in Later \ {"uploads"}
        BY DEF Later, DeletionData
    <2>3. Goes("schema", NoData, {})
        BY <2>1, <2>2, GoPuts, FollowedIs DEF At
    <2> QED BY <1>1, <2>2, <2>3
<1>10. CASE DropSchema(h)
    <2>1. At(h, "delete project", "schema") /\ Go(h, "row", NoData)
        BY <1>10 DEF DropSchema
    <2>2. "row" \in Later /\ NoData \in DeletionData /\ "schema" \in Later \ {"uploads"}
        BY DEF Later, DeletionData
    <2> QED BY <1>2, <2>1, <2>2, FollowedIs
<1>11. CASE DeleteFails(h)
    <2>1. PICK more : /\ more = {ProjectObject, PluginObject} \cup TokenObjects /\ Fail(h, more)
                      /\ At(h, "delete project", "schema") \/ At(h, "delete project", "row")
        BY <1>11 DEF DeleteFails
    <2> QED BY <2>1, EndPuts DEF LaterStep
<1> QED BY <1>3, <1>4, <1>5, <1>6, <1>7, <1>8, <1>9, <1>10, <1>11 DEF RowDeletion

\* A request is not the lack of one.
Typed(r) == r.op \in Operations /\ r.on \subseteq Objects /\ r.at \in Awaits /\ r.data \in RequestData
\* A request whose parts are typed is not NoReq.
LEMMA RequestIsOne ==
    ASSUME NEW r, Requested(r), Typed(r), r.sure \subseteq r.on
    PROVE  r # NoReq
<1>1. r \in Requests
    <2>1. r.sure \subseteq Objects
        BY DEF Typed
    <2>2. PICK s : s = [op |-> r.op, on |-> r.on, at |-> r.at, data |-> r.data, sure |-> r.sure]
        OBVIOUS
    <2>3. s \in Requests
        BY <2>1, <2>2 DEF Typed, Requests
    <2> QED BY <2>2, <2>3 DEF Requested
<1> QED BY <1>1, ControlAssumption

\* A deletion is one,
LEMMA DeletionIsOne ==
    ASSUME NEW r, Requested(r), r.op = "delete project", DeletionOK(r), r.sure \subseteq r.on
    PROVE  r # NoReq
<1>1. r.on \subseteq Objects
    BY DEF DeletionOK, Deleted, Objects
<1>2. r.data \in RequestData
    BY DEF DeletionOK, DeletionData, RequestData
<1>3. r.at \in Awaits /\ r.op \in Operations
    BY DEF DeletionOK, Later, Awaits, Operations
<1> QED BY <1>1, <1>2, <1>3, RequestIsOne DEF Typed

\* What is known of requests when one has arrived, moved on or ended.
LEMMA ArrivedKnows ==
    ASSUME NEW O, NEW K, RequestsOf(O, K), NEW h \in Workers, NEW op, NEW on, NEW at, NEW data,
           Arrived(h, op, on, at, data), op \in O \/ on \cap K = {}
    PROVE  RequestsOf(O, K)'
<1>1. ASSUME NEW w \in Workers, req'[w] # NoReq
      PROVE  /\ Requested(req'[w]) /\ req'[w].sure \subseteq req'[w].on
             /\ req'[w].op \in O \/ req'[w].on \cap K = {}
    <2>1. CASE w = h
        BY <2>1 DEF Arrived, Requested
    <2>2. CASE w # h /\ req'[w] = req[w]
        BY <1>1, <2>2 DEF RequestsOf
    <2>3. CASE w # h /\ Less(req[w], req'[w], on)
        BY <2>3 DEF RequestsOf, Less
    <2> QED BY <2>1, <2>2, <2>3 DEF Arrived
<1>2. calls' \in Nat
    BY DEF Arrived, RequestsOf
<1> QED BY <1>1, <1>2 DEF RequestsOf, Arrived

\* What is known of requests stays known when one moves on or ends.
LEMMA PutKnows ==
    ASSUME NEW O, NEW K, RequestsOf(O, K), NEW h \in Workers, NEW r, Put(h, r),
           r # NoReq => Requested(r) /\ r.sure \subseteq r.on /\ (r.op \in O \/ r.on \cap K = {}),
           calls' = calls
    PROVE  RequestsOf(O, K)'
<1>1. ASSUME NEW w \in Workers, req'[w] # NoReq
      PROVE  /\ Requested(req'[w]) /\ req'[w].sure \subseteq req'[w].on
             /\ req'[w].op \in O \/ req'[w].on \cap K = {}
    BY <1>1 DEF Put, RequestsOf
<1>2. req' = [w \in Workers |-> req'[w]]
    BY DEF Put
<1> QED BY <1>1, <1>2 DEF RequestsOf

\* A request that has arrived, and one that has moved, field by field.
LEMMA ArrivedIs ==
    ASSUME NEW h, NEW op, NEW on, NEW at, NEW data, Arrived(h, op, on, at, data)
    PROVE  /\ req[h] = NoReq /\ doubt' = doubt \cup Hit(op, on)
           /\ req'[h].op = op /\ req'[h].on = on /\ req'[h].at = at /\ req'[h].data = data
           /\ req'[h].sure = on \ Hit(op, on)
BY DEF Arrived

\* The parts of a request that has moved on.
LEMMA MovedIs ==
    ASSUME NEW r, NEW at, NEW data
    PROVE  /\ Moved(r, at, data).op = r.op /\ Moved(r, at, data).on = r.on
           /\ Moved(r, at, data).at = at /\ Moved(r, at, data).data = data /\ Moved(r, at, data).sure = r.sure
BY DEF Moved

\* The same for one that is picked.
LEMMA MovedOne ==
    ASSUME NEW q, NEW at, NEW data
    PROVE  \E r : /\ r = Moved(q, at, data) /\ r.op = q.op /\ r.on = q.on /\ r.at = at /\ r.data = data
                  /\ r.sure = q.sure
BY MovedIs

----------------------------------------------------------------------------
(***************************************************************************)
(* The worker stops and starts again.                                      *)
(***************************************************************************)

\* What is left of the requests, and in doubt.
Cut == UNION {CutOff(req[w]) : w \in {w \in Workers : req[w] # NoReq}}
\* After a restart the only requests are the two that start up, and what was cut off is in doubt.
LEMMA RestartRequests ==
    ASSUME NEW O, NEW K, RequestsOf(O, K), Restart,
           "restore tokens" \in O \/ TokenObjects \cap K = {}, "start monitors" \in O \/ MonObjects \cap K = {}
    PROVE  /\ RequestsOf(O, K)' /\ calls' = calls /\ menu' = menu /\ doubt' = (doubt \cup Cut) \ MonObjects
           /\ \A w \in Workers : req'[w] # NoReq =>
                \/ /\ req'[w].op = "restore tokens" /\ req'[w].on = TokenObjects
                   /\ req'[w].at = "list" /\ req'[w].data = NoData
                \/ /\ req'[w].op = "start monitors" /\ req'[w].on = MonObjects
                   /\ req'[w].at = "list" /\ req'[w].data = NoData
<1>1. /\ req' = [w \in Workers |->
            CASE w = "tokens" /\ "restore tokens" \in menu -> Boot("restore tokens", TokenObjects, "list")
              [] w = "monitors" /\ "start monitors" \in menu -> Boot("start monitors", MonObjects, "list")
              [] OTHER -> NoReq]
      /\ doubt' = (doubt \cup Cut) \ MonObjects /\ calls' = calls /\ menu' = menu
    BY DEF Restart, Cut
<1>2. ASSUME NEW w \in Workers, req'[w] # NoReq
      PROVE  req'[w] = Boot("restore tokens", TokenObjects, "list") \/ req'[w] = Boot("start monitors", MonObjects, "list")
    BY <1>1, <1>2
<1> DEFINE B(r, op, on) ==
        /\ Requested(r) /\ r.sure = r.on /\ r.op = op /\ r.on = on /\ r.at = "list" /\ r.data = NoData
<1>3. ASSUME NEW op, NEW on, NEW r, r = Boot(op, on, "list") PROVE B(r, op, on)
    <2>1. ASSUME NEW at, r = [op |-> op, on |-> on, at |-> at, data |-> NoData, sure |-> on]
          PROVE  Requested(r) /\ r.sure = r.on /\ r.op = op /\ r.on = on /\ r.at = at /\ r.data = NoData
        BY ONLY <2>1 DEF Requested
    <2>2. r = [op |-> op, on |-> on, at |-> "list", data |-> NoData, sure |-> on]
        BY <1>3 DEF Boot
    <2> QED BY <2>1, <2>2
<1>4. ASSUME NEW w \in Workers, req'[w] # NoReq
      PROVE  /\ Requested(req'[w]) /\ req'[w].sure = req'[w].on
             /\ \/ /\ req'[w].op = "restore tokens" /\ req'[w].on = TokenObjects
                   /\ req'[w].at = "list" /\ req'[w].data = NoData
                \/ /\ req'[w].op = "start monitors" /\ req'[w].on = MonObjects
                   /\ req'[w].at = "list" /\ req'[w].data = NoData
    <2>1. CASE req'[w] = Boot("restore tokens", TokenObjects, "list")
        <3>1. B(req'[w], "restore tokens", TokenObjects)
            <4> HIDE DEF B
            <4> QED BY <1>3, <2>1
        <3> QED BY <3>1
    <2>2. CASE req'[w] = Boot("start monitors", MonObjects, "list")
        <3>1. B(req'[w], "start monitors", MonObjects)
            <4> HIDE DEF B
            <4> QED BY <1>3, <2>2
        <3> QED BY <3>1
    <2> QED BY <1>2, <1>4, <2>1, <2>2
<1>5. req' = [w \in Workers |-> req'[w]]
    BY <1>1
<1>6. calls' \in Nat
    BY <1>1 DEF RequestsOf
<1>7. \A w \in Workers : req'[w] # NoReq =>
        /\ Requested(req'[w]) /\ req'[w].sure \subseteq req'[w].on
        /\ req'[w].op \in O \/ req'[w].on \cap K = {}
    BY <1>4
<1> QED BY <1>1, <1>4, <1>5, <1>6, <1>7 DEF RequestsOf

\* What a request leaves in doubt that is cut off.
LEMMA CutOffIs ==
    ASSUME NEW r, r.op \in Operations
    PROVE  /\ r.op \in {"restore tokens", "start monitors"} \cup MonOps => CutOff(r) = {}
           /\ r.op \in HookOps => CutOff(r) = IF r.at \in {"fill column", "drop column"} THEN {LayoutObject} ELSE {}
           /\ r.op = "talk" => CutOff(r) = IF r.at = "save" THEN r.on ELSE {}
           /\ r.op = "delete project" => CutOff(r) = {ProjectObject, PluginObject} \cup TokenObjects \cup FileObjects
           /\ r.op \in {"create token", "revoke token", "upload file", "remove file", "create project",
                        "switch project", "serve", "change quota", "login", "forget session", "remove hook",
                        "restore hooks"}
                       \cup PluginOps \cup UseOps => CutOff(r) = r.on
BY DEF CutOff, HookOps, MonOps, PluginOps, UseOps

----------------------------------------------------------------------------
(***************************************************************************)
(* The requests of a component, told apart from the lack of one.           *)
(***************************************************************************)
Ours(O, w) == req[w] # NoReq /\ req[w].op \in O
TypedRequests(O, K) == RequestsOf(O, K) /\ \A w \in Workers : Ours(O, w) => Typed(req[w])
Stays(O, w) ==
    /\ Ours(O, w)' <=> Ours(O, w)
    /\ Ours(O, w) => /\ req'[w].op = req[w].op /\ req'[w].on = req[w].on /\ req'[w].at = req[w].at
                     /\ req'[w].data = req[w].data

\* A request that is like another one of the component's is one.
LEMMA LikeStays ==
    ASSUME NEW O, NEW K, TypedRequests(O, K), NEW w \in Workers, req[w] # NoReq, Requested(req'[w]),
           req'[w].op = req[w].op, req'[w].on = req[w].on, req'[w].at = req[w].at, req'[w].data = req[w].data,
           req'[w].sure \subseteq req[w].sure
    PROVE  Stays(O, w) /\ (Ours(O, w)' => Typed(req'[w]))
<1>1. CASE req[w].op \in O
    <2>1. Typed(req[w]) /\ req[w].sure \subseteq req[w].on
        BY <1>1 DEF TypedRequests, RequestsOf, Ours
    <2>2. Typed(req'[w]) /\ req'[w].sure \subseteq req'[w].on
        BY <2>1 DEF Typed
    <2>3. req'[w] # NoReq
        BY <2>2, RequestIsOne
    <2> QED BY <1>1, <2>2, <2>3 DEF Stays, Ours
<1>2. CASE req[w].op \notin O
    BY <1>2 DEF Stays, Ours
<1> QED BY <1>1, <1>2

\* A step aside leaves the component's requests,
LEMMA AsideStays ==
    ASSUME NEW O, NEW K, TypedRequests(O, K), Aside(O, K)
    PROVE  /\ TypedRequests(O, K)'
           /\ \A w \in Workers : Stays(O, w) /\ (Ours(O, w) => req'[w].sure \cap K = req[w].sure \cap K)
<1>1. RequestsOf(O, K)'
    BY AsideKnows DEF TypedRequests
<1>2. ASSUME NEW w \in Workers
      PROVE  /\ Stays(O, w) /\ (Ours(O, w) => req'[w].sure \cap K = req[w].sure \cap K)
             /\ Ours(O, w)' => Typed(req'[w])
    <2>1. CASE Alike(K, req[w], req'[w])
        BY <2>1, LikeStays DEF Alike
    <2>2. CASE Free(O, K, req[w]) /\ Free(O, K, req'[w])
        BY <2>2 DEF Free, Foreign, Stays, Ours
    <2> QED BY <2>1, <2>2 DEF Aside
<1> QED BY <1>1, <1>2 DEF TypedRequests

\* What a request may still be sure of when another one has arrived.
SureOf(w, op, on) ==
    \/ req'[w].sure = req[w].sure /\ (req[w] # NoReq => {req[w].op, op} \notin Conflicts)
    \/ req'[w].sure = req[w].sure \ on /\ {req[w].op, op} \in Conflicts

\* and so does the arrival of another request of the component;
LEMMA ArrivedStays ==
    ASSUME NEW O, NEW K, TypedRequests(O, K), NEW h \in Workers, NEW op, NEW on, NEW at, NEW data,
           Arrived(h, op, on, at, data), op \in O, op \in Operations, on \subseteq Objects, at \in Awaits,
           data \in RequestData
    PROVE  /\ TypedRequests(O, K)'
           /\ ~Ours(O, h) /\ Ours(O, h)'
           /\ req'[h].op = op /\ req'[h].on = on /\ req'[h].at = at /\ req'[h].data = data
           /\ req'[h].sure = on \ Hit(op, on)
           /\ \A w \in Workers \ {h} : Stays(O, w) /\ SureOf(w, op, on)
<1>1. /\ req[h] = NoReq /\ req'[h].op = op /\ req'[h].on = on /\ req'[h].at = at /\ req'[h].data = data
      /\ req'[h].sure = on \ Hit(op, on)
    BY ONLY Arrived(h, op, on, at, data), ArrivedIs
<1>2. Typed(req'[h]) /\ Requested(req'[h]) /\ req'[h].sure \subseteq req'[h].on
    <2>1. Typed(req'[h])
        BY <1>1 DEF Typed
    <2>2. Requested(req'[h]) /\ req'[h].sure \subseteq req'[h].on
        BY DEF Arrived, Requested
    <2> QED BY <2>1, <2>2
<1>3. req'[h] # NoReq
    BY <1>2, RequestIsOne
<1>4. RequestsOf(O, K)'
    BY ArrivedKnows DEF TypedRequests
<1>5. ASSUME NEW w \in Workers \ {h}
      PROVE  Stays(O, w) /\ SureOf(w, op, on) /\ (Ours(O, w)' => Typed(req'[w]))
    <2>1. CASE req'[w] = req[w] /\ (req[w] # NoReq => {req[w].op, op} \notin Conflicts)
        BY <2>1 DEF Stays, SureOf, Ours, TypedRequests
    <2>2. CASE {req[w].op, op} \in Conflicts /\ Less(req[w], req'[w], on)
        <3>1. req[w] # NoReq /\ SureOf(w, op, on)
            BY <2>2 DEF Less, SureOf
        <3> QED BY <2>2, <3>1, LikeStays DEF Less
    <2> QED BY <2>1, <2>2 DEF Arrived
<1>6. ASSUME NEW w \in Workers, Ours(O, w)' PROVE Typed(req'[w])
    BY <1>2, <1>5, <1>6
<1>7. ~Ours(O, h) /\ Ours(O, h)'
    BY <1>1, <1>3 DEF Ours
<1> QED BY <1>1, <1>4, <1>5, <1>6, <1>7 DEF TypedRequests

\* one of them moves on,
LEMMA MovedStays ==
    ASSUME NEW O, NEW K, TypedRequests(O, K), NEW h \in Workers, Ours(O, h), NEW at, NEW data,
           Put(h, Moved(req[h], at, data)), calls' = calls, at \in Awaits, data \in RequestData
    PROVE  /\ TypedRequests(O, K)'
           /\ Ours(O, h)' /\ req'[h] # NoReq /\ req'[h].op = req[h].op /\ req'[h].on = req[h].on /\ req'[h].at = at
           /\ req'[h].data = data /\ req'[h].sure = req[h].sure
           /\ \A w \in Workers \ {h} : req'[w] = req[w]
<1>1. PICK r : /\ r = Moved(req[h], at, data) /\ r.op = req[h].op /\ r.on = req[h].on /\ r.at = at /\ r.data = data
               /\ r.sure = req[h].sure
    BY ONLY MovedOne
<1>2. Requested(r)
    BY <1>1 DEF Moved, Requested
<1>3. Typed(req[h]) /\ req[h].sure \subseteq req[h].on /\ req[h] # NoReq /\ req[h].op \in O
    BY DEF TypedRequests, RequestsOf, Ours
<1>4. Typed(r) /\ r.sure \subseteq r.on
    BY <1>1, <1>3 DEF Typed
<1>5. r # NoReq
    BY <1>2, <1>4, RequestIsOne
<1>6. req'[h] = r /\ \A w \in Workers \ {h} : req'[w] = req[w]
    BY <1>1 DEF Put
<1>7. RequestsOf(O, K)'
    BY <1>1, <1>2, <1>3, <1>4, PutKnows DEF TypedRequests
<1>8. ASSUME NEW w \in Workers, Ours(O, w)' PROVE Typed(req'[w])
    <2>1. CASE w = h
        BY <1>4, <1>6, <2>1
    <2>2. CASE w # h
        <3>1. Ours(O, w) /\ req'[w] = req[w]
            BY <1>6, <1>8, <2>2 DEF Ours
        <3> QED BY <3>1 DEF TypedRequests
    <2> QED BY <2>1, <2>2
<1>9. Ours(O, h)'
    BY <1>1, <1>3, <1>5, <1>6 DEF Ours
<1> QED BY <1>1, <1>5, <1>6, <1>7, <1>8, <1>9 DEF TypedRequests

\* or ends.
LEMMA EndedStays ==
    ASSUME NEW O, NEW K, TypedRequests(O, K), NEW h \in Workers, Put(h, NoReq), calls' = calls
    PROVE  TypedRequests(O, K)' /\ req'[h] = NoReq /\ ~Ours(O, h)' /\ \A w \in Workers \ {h} : req'[w] = req[w]
<1>1. req'[h] = NoReq /\ \A w \in Workers \ {h} : req'[w] = req[w]
    BY DEF Put
<1>2. RequestsOf(O, K)'
    BY PutKnows DEF TypedRequests
<1>3. ASSUME NEW w \in Workers, Ours(O, w)' PROVE Typed(req'[w])
    <2>1. w # h
        BY <1>1, <1>3 DEF Ours
    <2>2. Ours(O, w) /\ req'[w] = req[w]
        BY <1>1, <1>3, <2>1 DEF Ours
    <2> QED BY <2>2 DEF TypedRequests
<1> QED BY <1>1, <1>2, <1>3 DEF TypedRequests, Ours

\* What stays when a request that has moved leaves the others.
LEMMA SameStays ==
    ASSUME NEW O, NEW w, req'[w] = req[w]
    PROVE  Stays(O, w)
BY DEF Stays, Ours

\* After a start of the worker the component has its boots.
LEMMA RestartStays ==
    ASSUME NEW O, NEW K, TypedRequests(O, K), Restart,
           "restore tokens" \in O \/ TokenObjects \cap K = {}, "start monitors" \in O \/ MonObjects \cap K = {}
    PROVE  /\ TypedRequests(O, K)' /\ doubt' = (doubt \cup Cut) \ MonObjects /\ calls' = calls
           /\ \A w \in Workers : Ours(O, w)' =>
                \/ /\ req'[w].op = "restore tokens" /\ req'[w].on = TokenObjects
                   /\ req'[w].at = "list" /\ req'[w].data = NoData
                \/ /\ req'[w].op = "start monitors" /\ req'[w].on = MonObjects
                   /\ req'[w].at = "list" /\ req'[w].data = NoData
<1>1. /\ RequestsOf(O, K)' /\ calls' = calls /\ doubt' = (doubt \cup Cut) \ MonObjects
      /\ \A w \in Workers : req'[w] # NoReq =>
                \/ /\ req'[w].op = "restore tokens" /\ req'[w].on = TokenObjects
                   /\ req'[w].at = "list" /\ req'[w].data = NoData
                \/ /\ req'[w].op = "start monitors" /\ req'[w].on = MonObjects
                   /\ req'[w].at = "list" /\ req'[w].data = NoData
    BY RestartRequests DEF TypedRequests
<1>2. /\ "restore tokens" \in Operations /\ "start monitors" \in Operations /\ "list" \in Awaits
      /\ NoData \in RequestData /\ TokenObjects \subseteq Objects /\ MonObjects \subseteq Objects
    BY DEF Operations, Awaits, RequestData, Objects
<1>3. ASSUME NEW w \in Workers, req'[w] # NoReq PROVE Typed(req'[w])
    BY <1>1, <1>2, <1>3 DEF Typed
<1> QED BY <1>1, <1>3 DEF TypedRequests, Ours

\* At first there are none.
LEMMA NoneOurs ==
    ASSUME NEW O, NEW K, Init
    PROVE  TypedRequests(O, K) /\ doubt = {} /\ \A w \in Workers : ~Ours(O, w) /\ req[w] = NoReq
<1>1. PICK s \in Scenarios : BaseInit(s)
    BY DEF Init
<1>2. req = [w \in Workers |-> NoReq] /\ calls \in Nat /\ doubt = {}
    BY <1>1, ControlAssumption DEF BaseInit
<1> QED BY <1>2 DEF TypedRequests, RequestsOf, Ours

\* A step that changes neither.
LEMMA UnchangedStays ==
    ASSUME NEW O, NEW K, TypedRequests(O, K), UNCHANGED <<req, doubt, calls>>
    PROVE  TypedRequests(O, K)' /\ \A w \in Workers : Stays(O, w) /\ req'[w] = req[w]
BY DEF TypedRequests, RequestsOf, Ours, Stays

\* A request that is cut off leaves in doubt what it must.
LEMMA CutOffDoubts ==
    ASSUME NEW w \in Workers, req[w] # NoReq, NEW o, o \in CutOff(req[w])
    PROVE  o \in Cut
BY DEF Cut

----------------------------------------------------------------------------
(***************************************************************************)
(* The requests that delete a project, for the components they belong to.  *)
(***************************************************************************)

FilesOnly(more) == \A o \in more : \E f : o = FileObject(f)

\* What the steps about files do to the requests.
LEMMA FileDeletionSteps ==
    ASSUME NEW O, NEW K, RequestsOf(O, K), NEW h \in Workers, FileDeletion(h), req[h] # NoReq => DeletionOK(req[h])
    PROVE  /\ req[h] # NoReq /\ req[h].op = "delete project"
           /\ \/ /\ req[h].at \in {"files", "file rows"}
                 /\ \E at, data, more :
                      /\ at \in {"file rows", "plugins"} /\ data \in DeletionData /\ FilesOnly(more)
                      /\ Put(h, Moved(req[h], at, data)) /\ doubt' = doubt \cup more /\ UNCHANGED <<calls, menu>>
              \/ /\ req[h].at = "uploads" /\ Put(h, NoReq) /\ doubt' = doubt \ ({ProjectObject} \cap req[h].sure)
                 /\ UNCHANGED <<calls, menu>>
<1>1. /\ req[h] # NoReq /\ req[h].op = "delete project"
      /\ \/ req[h].at = "uploads" /\ (RemoveUploads(h) \/ RemoveUploadsFails(h))
         \/ req[h].at \in {"files", "file rows"} /\ (DeleteFiles(h) \/ DeleteFileRows(h) \/ KeepFile(h) \/ DeleteFilesFail(h))
    BY DEF FileDeletion, DeleteFiles, DeleteFileRows, KeepFile, DeleteFilesFail, RemoveUploads, RemoveUploadsFails,
           Deleting, At
<1>2. CASE RemoveUploads(h) \/ RemoveUploadsFails(h)
    <2>1. req[h].at = "uploads"
        BY <1>2 DEF RemoveUploads, RemoveUploadsFails, Deleting, At
    <2>2. Put(h, NoReq) /\ doubt' = doubt \ ({ProjectObject} \cap req[h].sure) /\ UNCHANGED <<calls, menu>>
        BY <1>2, EndPuts DEF RemoveUploads, RemoveUploadsFails
    <2> QED BY <1>1, <2>1, <2>2
<1>3. CASE DeleteFiles(h) \/ DeleteFileRows(h) \/ KeepFile(h) \/ DeleteFilesFail(h)
    <2>1. req[h].data \in DeletionData /\ NoData \in DeletionData
        BY <1>1 DEF DeletionOK, DeletionData
    <2>2. PICK at, data, more :
            /\ at \in {"file rows", "plugins"} /\ data \in DeletionData /\ FilesOnly(more)
            /\ (more = {} /\ Go(h, at, data)) \/ Swallow(h, at, data, more)
        <3>1. CASE DeleteFiles(h) \/ DeleteFileRows(h)
            BY <2>1, <3>1 DEF DeleteFiles, DeleteFileRows, GoOn, FilesOnly
        <3>2. CASE KeepFile(h)
            <4>1. PICK f \in disk \cap fileRows : Swallow(h, "file rows", NoData, {FileObject(f)})
                BY <3>2 DEF KeepFile
            <4>2. FilesOnly({FileObject(f)})
                BY DEF FilesOnly
            <4> QED BY <2>1, <4>1, <4>2
        <3>3. CASE DeleteFilesFail(h)
            BY <2>1, <3>3 DEF DeleteFilesFail, FileObjects, FilesOnly
        <3> QED BY <1>3, <3>1, <3>2, <3>3
    <2>3. Put(h, Moved(req[h], at, data)) /\ doubt' = doubt \cup more /\ UNCHANGED <<calls, menu>>
        <3>1. CASE more = {} /\ Go(h, at, data)
            BY <1>1, <3>1, GoPuts
        <3>2. CASE Swallow(h, at, data, more)
            BY <1>1, <3>2, GoPuts
        <3> QED BY <2>2, <3>1, <3>2
    <2>4. req[h].at \in {"files", "file rows"}
        BY <1>3 DEF DeleteFiles, DeleteFileRows, KeepFile, DeleteFilesFail, Deleting, At
    <2> QED BY <1>1, <2>2, <2>3, <2>4
<1> QED BY <1>1, <1>2, <1>3

\* A deletion moves on, or ends.
DeletionGoes(h, at, data, more) ==
    /\ req[h] # NoReq /\ req[h].op = "delete project"
    /\ at \in {"files", "file rows"} \cup Later /\ data \in DeletionData /\ (at = "keys" => data # NoData)
    /\ Put(h, Moved(req[h], at, data)) /\ doubt' = doubt \cup more /\ UNCHANGED <<calls, menu>>
DeletionEnds(h) ==
    /\ req[h] # NoReq /\ req[h].op = "delete project" /\ Put(h, NoReq) /\ UNCHANGED <<calls, menu>>
    /\ \/ req[h].at = "find" /\ doubt' = doubt
       \/ /\ req[h].at \in {"schema", "row"}
          /\ {ProjectObject, PluginObject} \cup TokenObjects \cup doubt \subseteq doubt'
       \/ req[h].at = "uploads" /\ doubt' = doubt \ ({ProjectObject} \cap req[h].sure)

\* Every step of a deletion: the schema and the row are dropped in one each, and the others
\* leave the project alone.
LEMMA DeletionIs ==
    ASSUME NEW O, NEW K, RequestsOf(O, K), NEW h \in Workers, Deletion(h), req[h] # NoReq => DeletionOK(req[h])
    PROVE  \/ DropSchema(h) /\ req[h].at = "schema" /\ DeletionGoes(h, "row", NoData, {})
           \/ DeleteRow(h) /\ req[h].at = "row" /\ DeletionGoes(h, "uploads", req[h].data, {})
           \/ /\ UNCHANGED projectVars
              /\ \/ Arrived(h, "delete project", Deleted, "find", NoData)
                 \/ \E at, data, more :
                       /\ DeletionGoes(h, at, data, more) /\ at \notin {"row", "uploads"}
                       /\ req[h].at \notin {"schema", "row", "uploads"}
                       /\ FilesOnly(more) \/ more \subseteq {PluginObject}
                 \/ DeletionEnds(h)
<1>1. CASE DropSchema(h)
    <2>1. req[h] # NoReq /\ req[h].op = "delete project" /\ req[h].at = "schema" /\ Go(h, "row", NoData)
        BY <1>1 DEF DropSchema, Deleting, At
    <2>2. Put(h, Moved(req[h], "row", NoData)) /\ doubt' = doubt \cup {} /\ UNCHANGED <<calls, menu>>
        BY <2>1, GoPuts
    <2> QED BY <1>1, <2>1, <2>2 DEF DeletionGoes, Later, DeletionData
<1>2. CASE DeleteRow(h)
    <2>1. /\ req[h] # NoReq /\ req[h].op = "delete project" /\ req[h].at = "row" /\ Go(h, "uploads", req[h].data)
          /\ req[h].data \in DeletionData
        BY <1>2 DEF DeleteRow, Deleting, At, GoOn, DeletionOK
    <2>2. Put(h, Moved(req[h], "uploads", req[h].data)) /\ doubt' = doubt \cup {} /\ UNCHANGED <<calls, menu>>
        BY <2>1, GoPuts
    <2> QED BY <1>2, <2>1, <2>2 DEF DeletionGoes, Later
<1>3. CASE FileDeletion(h) /\ UNCHANGED projectVars
    <2>1. /\ req[h] # NoReq /\ req[h].op = "delete project"
          /\ \/ /\ req[h].at \in {"files", "file rows"}
                /\ \E at, data, more :
                     /\ at \in {"file rows", "plugins"} /\ data \in DeletionData /\ FilesOnly(more)
                     /\ Put(h, Moved(req[h], at, data)) /\ doubt' = doubt \cup more /\ UNCHANGED <<calls, menu>>
             \/ /\ req[h].at = "uploads" /\ Put(h, NoReq) /\ doubt' = doubt \ ({ProjectObject} \cap req[h].sure)
                /\ UNCHANGED <<calls, menu>>
        BY <1>3, FileDeletionSteps
    <2> QED BY <1>3, <2>1 DEF DeletionGoes, DeletionEnds, Later
<1>4. CASE RowDeletion(h) /\ ~DeleteRow(h)
    <2>1. UNCHANGED projectVars /\ (req[h] # NoReq /\ req[h].at \in {"schema", "row"} => DeleteFails(h))
        BY <1>4 DEF RowDeletion, DeleteProject, FindProject, DeletePlugins, DeleteRawLogs, DeleteHooks, DeleteTokenRows,
                    PluckHashes, DeleteKey, DeleteStepFails, DeleteKeysFail, DeleteFails, projectVars, Deleting, At,
                    Begin, Called, Arrive
    <2>2. LaterStep(h)
        BY <1>4, DeletionSteps
    <2>3. DeleteFails(h) => req'[h] = NoReq
        BY EndPuts DEF DeleteFails, Put
    <2>4. ASSUME NEW at, NEW data, NEW more,
                 at \in Later, data \in DeletionData, more \subseteq {PluginObject},
                 req[h] # NoReq /\ req[h].op = "delete project" /\ req[h].at \in Later \ {"uploads"},
                 at \in Followed(req[h].at) /\ (at = "keys" => data # NoData),
                 Put(h, Moved(req[h], at, data)) /\ doubt' = doubt \cup more /\ UNCHANGED <<calls, menu>>
          PROVE  /\ DeletionGoes(h, at, data, more) /\ at \notin {"row", "uploads"}
                 /\ req[h].at \notin {"schema", "row", "uploads"}
        <3>1. DeletionGoes(h, at, data, more)
            BY <2>4 DEF DeletionGoes
        <3>2. req'[h] # NoReq
            <4>1. PICK r : /\ r = Moved(req[h], at, data) /\ r.op = req[h].op /\ r.on = req[h].on /\ r.at = at /\ r.data = data
                           /\ r.sure = req[h].sure
                BY ONLY MovedOne
            <4>2. Requested(r) /\ r.sure \subseteq r.on
                BY <2>4, <4>1 DEF Moved, Requested, RequestsOf
            <4>3. DeletionOK(r)
                BY <2>4, <4>1 DEF DeletionOK
            <4>4. r # NoReq
                BY <2>4, <4>1, <4>2, <4>3, DeletionIsOne
            <4> QED BY <2>4, <4>1, <4>4 DEF Put
        <3>3. req[h].at \in {"plugins", "raw logs", "hooks", "token rows", "pluck", "keys"}
            BY <1>4, <2>4, <2>1, <2>3, <3>2 DEF Later
        <3>4. at \notin {"row", "uploads"}
            BY <2>4, <3>3, FollowedIs
        <3> QED BY <3>1, <3>3, <3>4
    <2>5. CASE At(h, "delete project", "find") /\ Put(h, Moved(req[h], "files", req[h].data)) /\ UNCHANGED <<doubt, calls, menu>>
        <3>1. DeletionGoes(h, "files", req[h].data, {})
            BY <2>5 DEF DeletionGoes, DeletionOK, At
        <3>2. req[h].at = "find" /\ FilesOnly({})
            BY <2>5 DEF At, FilesOnly
        <3> QED BY <2>1, <3>1, <3>2
    <2>6. CASE \/ At(h, "delete project", "find") /\ Put(h, NoReq) /\ UNCHANGED <<doubt, calls, menu>>
               \/ \E more \in SUBSET ({ProjectObject, PluginObject} \cup TokenObjects) :
                    /\ At(h, "delete project", "schema") \/ At(h, "delete project", "row")
                    /\ {ProjectObject, PluginObject} \cup TokenObjects \subseteq more
                    /\ Put(h, NoReq) /\ doubt' = doubt \cup more /\ UNCHANGED <<calls, menu>>
        <3>1. DeletionEnds(h)
            BY <2>6 DEF DeletionEnds, At
        <3> QED BY <2>1, <3>1
    <2>7. CASE \E at \in Later, data \in DeletionData, more \in SUBSET {PluginObject} :
                /\ req[h] # NoReq /\ req[h].op = "delete project" /\ req[h].at \in Later \ {"uploads"}
                /\ at \in Followed(req[h].at) /\ (at = "keys" => data # NoData)
                /\ Put(h, Moved(req[h], at, data)) /\ doubt' = doubt \cup more /\ UNCHANGED <<calls, menu>>
        BY <2>1, <2>4, <2>7
    <2> QED BY <2>1, <2>2, <2>5, <2>6, <2>7 DEF LaterStep
<1> QED BY <1>1, <1>2, <1>3, <1>4 DEF Deletion

\* A deletion that moves on stays one.
LEMMA DeletionMoves ==
    ASSUME NEW O, NEW K, TypedRequests(O, K), "delete project" \in O, NEW h \in Workers, NEW at, NEW data, NEW more,
           DeletionGoes(h, at, data, more), DeletionOK(req[h])
    PROVE  /\ TypedRequests(O, K)'
           /\ Ours(O, h)' /\ req'[h] # NoReq /\ req'[h].op = "delete project" /\ req'[h].on = req[h].on /\ req'[h].at = at
           /\ req'[h].data = data /\ req'[h].sure = req[h].sure /\ DeletionOK(req'[h])
           /\ \A w \in Workers \ {h} : req'[w] = req[w]
<1>1. at \in Awaits /\ data \in RequestData
    BY DEF DeletionGoes, Later, Awaits, DeletionData, RequestData
<1>2. Ours(O, h) /\ Put(h, Moved(req[h], at, data)) /\ calls' = calls /\ req[h].op = "delete project"
    BY DEF DeletionGoes, Ours
<1>3. /\ TypedRequests(O, K)'
      /\ Ours(O, h)' /\ req'[h] # NoReq /\ req'[h].op = req[h].op /\ req'[h].on = req[h].on /\ req'[h].at = at
      /\ req'[h].data = data /\ req'[h].sure = req[h].sure
      /\ \A w \in Workers \ {h} : req'[w] = req[w]
    BY ONLY TypedRequests(O, K), h \in Workers, <1>1, <1>2, MovedStays
<1>4. DeletionOK(req'[h])
    <2>1. req[h].on = Deleted /\ at \in {"find", "files", "file rows"} \cup Later /\ data \in DeletionData
          /\ (at = "keys" => data # NoData)
        BY <1>2 DEF DeletionOK, DeletionGoes
    <2> QED BY <1>3, <2>1 DEF DeletionOK
<1> QED BY <1>2, <1>3, <1>4

\* One that arrives is one,
LEMMA DeletionArrives ==
    ASSUME NEW O, NEW K, TypedRequests(O, K), "delete project" \in O, NEW h \in Workers,
           Arrived(h, "delete project", Deleted, "find", NoData)
    PROVE  /\ TypedRequests(O, K)'
           /\ ~Ours(O, h) /\ Ours(O, h)' /\ req'[h].op = "delete project" /\ req'[h].on = Deleted /\ req'[h].at = "find"
           /\ req'[h].sure = Deleted \ Hit("delete project", Deleted) /\ DeletionOK(req'[h])
           /\ \A w \in Workers \ {h} : Stays(O, w) /\ SureOf(w, "delete project", Deleted)
<1>1. PICK o, on, at, data : o = "delete project" /\ on = Deleted /\ at = "find" /\ data = NoData
    OBVIOUS
<1>2. /\ o \in O /\ o \in Operations /\ on \subseteq Objects /\ at \in Awaits /\ data \in RequestData
    BY <1>1 DEF Operations, Objects, Deleted, Awaits, RequestData
<1>3. Arrived(h, o, on, at, data)
    BY <1>1
<1>4. /\ TypedRequests(O, K)'
      /\ ~Ours(O, h) /\ Ours(O, h)'
      /\ req'[h].op = o /\ req'[h].on = on /\ req'[h].at = at /\ req'[h].data = data
      /\ req'[h].sure = on \ Hit(o, on)
      /\ \A w \in Workers \ {h} : Stays(O, w) /\ SureOf(w, o, on)
    BY ONLY TypedRequests(O, K), h \in Workers, <1>2, <1>3, ArrivedStays
<1>5. DeletionOK(req'[h])
    BY <1>1, <1>4 DEF DeletionOK, DeletionData
<1> QED BY <1>1, <1>4, <1>5

\* and the others stay what they are.
LEMMA DeletionStays ==
    ASSUME NEW O, NEW w, Stays(O, w), "delete project" \in O, req[w] # NoReq => DeletionOK(req[w])
    PROVE  req'[w] # NoReq => DeletionOK(req'[w])
BY DEF Stays, Ours, DeletionOK

\* What Redis loses makes the requests less sure of it, and leaves in doubt what they work on.
LEMMA LostStays ==
    ASSUME NEW O, NEW K, TypedRequests(O, K), RedisLost
    PROVE  /\ TypedRequests(O, K)'
           /\ \A w \in Workers : /\ Stays(O, w)
                                 /\ req[w] # NoReq => req'[w].sure = req[w].sure \ (TokenObjects \cup {SwitchObject})
           /\ \A o \in doubt : o \in doubt'
           /\ \A o \in doubt' : o \in doubt \/ o \in TokenObjects \cup {SwitchObject}
           /\ \A w \in Handlers : (req[w] # NoReq /\ req[w].op # "delete project") =>
                \A o \in req[w].on : o \in TokenObjects \cup {SwitchObject} => o \in doubt'
<1> DEFINE gone == TokenObjects \cup {SwitchObject}
<1>1. /\ req' = [w \in Workers |-> IF req[w] = NoReq THEN NoReq ELSE [req[w] EXCEPT !.sure = @ \ gone]]
      /\ doubt' = doubt \cup UNION {req[w].on \cap gone : w \in {w \in Handlers : req[w] # NoReq /\ req[w].op # "delete project"}}
      /\ calls' = calls
    BY DEF RedisLost
<1> HIDE DEF gone
<1>2. ASSUME NEW w \in Workers, req[w] # NoReq
      PROVE  /\ Requested(req'[w]) /\ req'[w].op = req[w].op /\ req'[w].on = req[w].on /\ req'[w].at = req[w].at
             /\ req'[w].data = req[w].data /\ req'[w].sure = req[w].sure \ gone
    <2>1. Requested(req[w])
        BY <1>2 DEF TypedRequests, RequestsOf
    <2>2. req'[w] = [req[w] EXCEPT !.sure = @ \ gone]
        BY <1>1, <1>2
    <2>3. req'[w] = [op |-> req[w].op, on |-> req[w].on, at |-> req[w].at, data |-> req[w].data,
                     sure |-> req[w].sure \ gone]
        BY <2>1, <2>2, SureShrinks
    <2> QED BY <2>3 DEF Requested
<1>3. ASSUME NEW w \in Workers, req[w] = NoReq PROVE req'[w] = NoReq
    BY <1>1, <1>3
<1>4. ASSUME NEW w \in Workers PROVE Stays(O, w) /\ (Ours(O, w)' => Typed(req'[w]))
    <2>1. CASE req[w] = NoReq
        BY <1>3, <2>1 DEF Stays, Ours
    <2>2. CASE req[w] # NoReq
        BY <1>2, <2>2, LikeStays
    <2> QED BY <2>1, <2>2
<1>5. RequestsOf(O, K)'
    <2>1. req' = [w \in Workers |-> req'[w]] /\ calls' \in Nat
        BY <1>1 DEF TypedRequests, RequestsOf
    <2>2. ASSUME NEW w \in Workers, req'[w] # NoReq
          PROVE  Requested(req'[w]) /\ req'[w].sure \subseteq req'[w].on /\ (req'[w].op \in O \/ req'[w].on \cap K = {})
        <3>1. req[w] # NoReq
            BY <1>3, <2>2
        <3> QED BY <1>2, <3>1 DEF TypedRequests, RequestsOf
    <2> QED BY <2>1, <2>2 DEF RequestsOf
<1>6. TypedRequests(O, K)'
    BY <1>4, <1>5 DEF TypedRequests
<1>7. \A w \in Workers : req[w] # NoReq => req'[w].sure = req[w].sure \ gone
    BY <1>2
<1>8. /\ \A o \in doubt : o \in doubt'
      /\ \A o \in doubt' : o \in doubt \/ o \in gone
    BY <1>1
<1>9. ASSUME NEW w \in Handlers, req[w] # NoReq, req[w].op # "delete project", NEW o \in req[w].on, o \in gone
      PROVE  o \in doubt'
    <2>1. o \in req[w].on \cap gone /\ w \in {x \in Handlers : req[x] # NoReq /\ req[x].op # "delete project"}
        BY <1>9
    <2> QED BY <1>1, <2>1
<1> QED BY <1>4, <1>6, <1>7, <1>8, <1>9 DEF gone

\* What stays shows in the fields.
LEMMA StaysIs ==
    ASSUME NEW O, NEW w, Stays(O, w), NEW op \in O
    PROVE  /\ (req[w] # NoReq /\ req[w].op = op) <=> (req'[w] # NoReq /\ req'[w].op = op)
           /\ (req[w] # NoReq /\ req[w].op = op) => req'[w].on = req[w].on /\ req'[w].at = req[w].at /\ req'[w].data = req[w].data
BY DEF Stays, Ours

\* What some operations do not conflict with: revocations with one another, restores, and
\* the deletion of the project; restores and creations of the project with one another.
LEMMA ConflictsAre ==
    ASSUME NEW c \in Conflicts
    PROVE  /\ "revoke token" \in c => "create token" \in c \/ "restore tokens" \in c
           /\ "restore tokens" \in c => "create token" \in c \/ "revoke token" \in c
           /\ "create project" \in c => "delete project" \in c \/ "enable plugin" \in c
           /\ "disable plugin" \in c => "delete project" \notin c
<1>1. \/ c = {"create token"} \/ c = {"create token", "revoke token"}
      \/ c = {"create token", "restore tokens"} \/ c = {"revoke token", "restore tokens"}
      \/ c = {"create token", "delete project"}
      \/ c = {"create project", "delete project"} \/ c = {"delete project"}
      \/ c = {"switch project"}
      \/ c = {"change monitor"} \/ c = {"change monitor", "remove monitor"} \/ c = {"add monitor", "change monitor"}
      \/ c = {"add monitor", "remove monitor"} \/ c = {"start monitors", "change monitor"}
      \/ c = {"start monitors", "remove monitor"}
      \/ c = {"talk"} \/ c = {"talk", "forget session"} \/ c = {"talk", "disable plugin"}
      \/ c = {"enable plugin"} \/ c = {"disable plugin"} \/ c = {"enable plugin", "disable plugin"}
      \/ c = {"upload file", "delete project"}
      \/ c = {"enable plugin", "delete project"} \/ c = {"enable plugin", "create project"}
      \/ c = {"talk", "delete project"}
      \/ c = {"login"}
    BY Zenon DEF Conflicts
<1> QED BY <1>1

\* The pairs that are used of it.
LEMMA ConflictFree ==
    /\ {"revoke token", "revoke token"} \notin Conflicts /\ {"restore tokens", "restore tokens"} \notin Conflicts
    /\ {"revoke token", "delete project"} \notin Conflicts /\ {"restore tokens", "delete project"} \notin Conflicts
    /\ {"delete project", "revoke token"} \notin Conflicts /\ {"delete project", "restore tokens"} \notin Conflicts
    /\ {"create project", "create project"} \notin Conflicts
<1>1. \A c \in Conflicts : /\ "revoke token" \in c => "create token" \in c \/ "restore tokens" \in c
                           /\ "restore tokens" \in c => "create token" \in c \/ "revoke token" \in c
                           /\ "create project" \in c => "delete project" \in c \/ "enable plugin" \in c
    BY ConflictsAre
<1> QED BY <1>1

----------------------------------------------------------------------------
(***************************************************************************)
(* Files.  Nobody in doubt, the bytes of a file lie on disk without its    *)
(* row only between the two steps of its upload, and the row without the   *)
(* bytes only between the two of a removal or of the project's deletion.   *)
(***************************************************************************)
FileWork == FileOps \cup {"delete project"}
FileRequest(r) ==
    /\ r.op = "upload file" =>
        r.data \in [f : Files] /\ r.on = {FileObject(r.data.f)} /\ r.at \in {"write", "insert"}
    /\ r.op = "remove file" =>
        /\ r.data \in [f : Files, unlinked : BOOLEAN] /\ r.on = {FileObject(r.data.f)}
        /\ r.at \in {"find", "unlink", "row"} /\ (r.at # "row" => ~r.data.unlinked)
FileRequests ==
    /\ RequestsOf(FileWork, FileObjects)
    /\ \A w \in Workers : req[w] # NoReq => FileRequest(req[w]) /\ DeletionOK(req[w])

Uploading(w, f) == req[w] # NoReq /\ req[w].op = "upload file" /\ req[w].data.f = f
Removing(w, f) == req[w] # NoReq /\ req[w].op = "remove file" /\ req[w].data.f = f
Removes(w) == req[w] # NoReq /\ req[w].op = "delete project"
Past(w, f) == Removing(w, f) /\ req[w].at # "find"
ForFile(w, f) == FileObject(f) \in req[w].sure
FileInDoubt(f) == FileObject(f) \in doubt

\* An upload has its file to itself, but for deletions of the project, which leave it in doubt.
UploadOK(w, f) ==
    Uploading(w, f) =>
        /\ f \notin fileRows /\ (req[w].at = "write" => f \notin disk)
        /\ \A x \in Workers : x # w => ~Uploading(x, f) /\ ~Past(x, f)
        /\ IF ForFile(w, f) THEN /\ \A x \in Workers : ~Removes(x)
                                 /\ req[w].at = "insert" => f \in disk
           ELSE FileInDoubt(f)
\* A removal has unlinked its file, or left it in doubt.
RemovalOK(w, f) ==
    (Removing(w, f) /\ req[w].at = "row") => f \notin disk \/ (FileInDoubt(f) /\ ~req[w].data.unlinked)
\* A deletion has unlinked the files it has not left in doubt, and then dropped their rows.
ErasureOK(w, f) ==
    (Removes(w) /\ req[w].at \notin {"find", "files"}) =>
        FileInDoubt(f) \/ (f \notin disk /\ (req[w].at = "file rows" \/ f \notin fileRows))
\* A file that is in one place only has a request between its two steps.
FileKept(f) ==
    ~FileInDoubt(f) =>
        /\ (f \in disk /\ f \notin fileRows) => \E w \in Workers : Uploading(w, f) /\ req[w].at = "insert"
        /\ (f \in fileRows /\ f \notin disk) =>
              \E w \in Workers : (Removing(w, f) \/ Removes(w)) /\ req[w].at \in {"row", "file rows"}
FileOK(f) == FileKept(f) /\ \A w \in Workers : UploadOK(w, f) /\ RemovalOK(w, f) /\ ErasureOK(w, f)
FilesInv == FileRequests /\ \A f \in Files : FileOK(f)

\* A request about a file, or one that deletes the project, is not NoReq.
LEMMA FileIsOne ==
    ASSUME NEW r, Requested(r), r.op \in FileWork, FileRequest(r), DeletionOK(r), r.sure \subseteq r.on
    PROVE  r # NoReq
<1>1. CASE r.op \in FileOps
    <2>1. r.on \subseteq Objects
        BY <1>1 DEF FileRequest, FileOps, FileObjects, Objects
    <2>2. r.data \in RequestData
        BY <1>1 DEF FileRequest, FileOps, RequestData
    <2>3. r.at \in Awaits /\ r.op \in Operations
        BY <1>1 DEF FileRequest, FileOps, Awaits, Operations
    <2> QED BY <2>1, <2>2, <2>3, RequestIsOne DEF Typed
<1>2. CASE r.op = "delete project"
    BY <1>2, DeletionIsOne
<1> QED BY <1>1, <1>2 DEF FileWork

\* What a step does with a file it is not about.
SameFile(f) ==
    /\ \A w \in Workers :
        /\ Uploading(w, f)' <=> Uploading(w, f)
        /\ Removing(w, f)' <=> Removing(w, f)
        /\ Removes(w)' <=> Removes(w)
        /\ (Uploading(w, f) \/ Removing(w, f) \/ Removes(w)) =>
            req'[w].at = req[w].at /\ req'[w].data = req[w].data
        /\ Uploading(w, f) => (ForFile(w, f)' <=> ForFile(w, f))
    /\ FileInDoubt(f)' <=> FileInDoubt(f)
    /\ (f \in disk)' <=> f \in disk
    /\ (f \in fileRows)' <=> f \in fileRows
\* A step that leaves a file, its requests and its doubt alone keeps what is known of the file.
LEMMA SameFileKeeps ==
    ASSUME NEW f \in Files, FileOK(f), SameFile(f)
    PROVE  FileOK(f)'
<1>1. FileKept(f)'
    BY DEF SameFile, FileOK, FileKept
<1>2. ASSUME NEW w \in Workers PROVE UploadOK(w, f)'
    BY DEF SameFile, FileOK, UploadOK, Past
<1>3. ASSUME NEW w \in Workers PROVE RemovalOK(w, f)' /\ ErasureOK(w, f)'
    BY DEF SameFile, FileOK, RemovalOK, ErasureOK
<1> QED BY <1>1, <1>2, <1>3 DEF FileOK

\* A step of another component.
LEMMA FilesAside ==
    ASSUME FilesInv, Aside(FileWork, FileObjects), UNCHANGED fileVars
    PROVE  FilesInv'
<1>1. RequestsOf(FileWork, FileObjects)'
    BY AsideKnows DEF FilesInv, FileRequests
<1>2. ASSUME NEW w \in Workers, req'[w] # NoReq PROVE FileRequest(req'[w]) /\ DeletionOK(req'[w])
    <2>1. CASE Alike(FileObjects, req[w], req'[w])
        BY <1>2, <2>1 DEF FilesInv, FileRequests, Alike, FileRequest, DeletionOK
    <2>2. CASE Free(FileWork, FileObjects, req'[w])
        BY <1>2, <2>2 DEF Free, Foreign, FileRequest, DeletionOK, FileWork, FileOps
    <2> QED BY <2>1, <2>2 DEF Aside
<1>3. ASSUME NEW f \in Files PROVE FileOK(f)'
    <2>1. FileObject(f) \in FileObjects
        BY DEF FileObjects
    <2>2. ASSUME NEW w \in Workers
          PROVE  /\ Uploading(w, f)' <=> Uploading(w, f)
                 /\ Removing(w, f)' <=> Removing(w, f)
                 /\ Removes(w)' <=> Removes(w)
                 /\ (Uploading(w, f) \/ Removing(w, f) \/ Removes(w)) =>
                     req'[w].at = req[w].at /\ req'[w].data = req[w].data /\ (ForFile(w, f)' <=> ForFile(w, f))
        <3>1. CASE Alike(FileObjects, req[w], req'[w])
            <4>1. req[w].op \in FileWork => req'[w] # NoReq
                <5> SUFFICES ASSUME req[w].op \in FileWork PROVE req'[w] # NoReq
                    OBVIOUS
                <5>1. FileRequest(req[w]) /\ DeletionOK(req[w]) /\ req[w].sure \subseteq req[w].on
                    BY <3>1 DEF FilesInv, FileRequests, RequestsOf, Alike
                <5>2. FileRequest(req'[w]) /\ DeletionOK(req'[w]) /\ req'[w].sure \subseteq req'[w].on
                    BY <3>1, <5>1 DEF Alike, FileRequest, DeletionOK
                <5> QED BY <3>1, <5>2, FileIsOne DEF Alike
            <4>2. /\ req[w] # NoReq /\ req'[w].op = req[w].op /\ req'[w].at = req[w].at /\ req'[w].data = req[w].data
                  /\ ForFile(w, f)' <=> ForFile(w, f)
                BY <2>1, <3>1 DEF Alike, ForFile
            <4>3. "upload file" \in FileWork /\ "remove file" \in FileWork /\ "delete project" \in FileWork
                BY DEF FileWork, FileOps
            <4> QED BY <4>1, <4>2, <4>3 DEF Uploading, Removing, Removes
        <3>2. CASE Free(FileWork, FileObjects, req[w]) /\ Free(FileWork, FileObjects, req'[w])
            BY <3>2 DEF Free, Foreign, FileWork, FileOps, Uploading, Removing, Removes
        <3> QED BY <3>1, <3>2 DEF Aside
    <2>3. FileInDoubt(f)' <=> FileInDoubt(f)
        BY <2>1 DEF Aside, FileInDoubt
    <2>4. SameFile(f)
        BY <2>2, <2>3 DEF SameFile, fileVars
    <2> QED BY <2>4, SameFileKeeps DEF FilesInv
<1> QED BY <1>1, <1>2, <1>3 DEF FilesInv, FileRequests

\* What a step makes of the requests about files, but for their objects they are sure of.
Likely(w, f) ==
    /\ Uploading(w, f)' <=> Uploading(w, f)
    /\ Removing(w, f)' <=> Removing(w, f)
    /\ Removes(w)' <=> Removes(w)
    /\ (Uploading(w, f) \/ Removing(w, f) \/ Removes(w)) => req'[w].at = req[w].at /\ req'[w].data = req[w].data

\* A request about files has arrived.
LEMMA FileArrives ==
    ASSUME FileRequests, NEW h \in Workers, NEW op \in FileWork, NEW on, NEW at, NEW data,
           Arrived(h, op, on, at, data), FileRequest(req'[h]), DeletionOK(req'[h])
    PROVE  /\ FileRequests'
           /\ req'[h] # NoReq
           /\ \A w \in Workers \ {h}, f \in Files : Likely(w, f)
           /\ \A w \in Workers \ {h}, f \in Files :
                (Uploading(w, f) /\ {"upload file", op} \notin Conflicts) => req'[w].sure = req[w].sure
           /\ \A w \in Workers \ {h}, f \in Files :
                Uploading(w, f) => req'[w].sure = req[w].sure \/ req'[w].sure = req[w].sure \ on
<1>1. RequestsOf(FileWork, FileObjects)'
    BY ArrivedKnows DEF FileRequests
<1>2. ASSUME NEW w \in Workers, req'[w] # NoReq PROVE FileRequest(req'[w]) /\ DeletionOK(req'[w])
    <2>1. CASE w # h /\ req'[w] = req[w]
        BY <1>2, <2>1 DEF FileRequests
    <2>2. CASE w # h /\ Less(req[w], req'[w], on)
        BY <2>2 DEF FileRequests, Less, FileRequest, DeletionOK
    <2> QED BY <2>1, <2>2 DEF Arrived
<1>3. req'[h] # NoReq
    <2>1. Requested(req'[h]) /\ req'[h].op \in FileWork /\ req'[h].sure \subseteq req'[h].on
        BY DEF Arrived, Requested
    <2> QED BY <2>1, FileIsOne
<1>4. ASSUME NEW w \in Workers \ {h}, Less(req[w], req'[w], on), req[w].op \in FileWork
      PROVE  req'[w] # NoReq
    <2>1. FileRequest(req[w]) /\ DeletionOK(req[w]) /\ req[w].sure \subseteq req[w].on
        BY <1>4 DEF FileRequests, RequestsOf, Less
    <2>2. FileRequest(req'[w]) /\ DeletionOK(req'[w]) /\ req'[w].sure \subseteq req'[w].on
        BY <1>4, <2>1 DEF Less, FileRequest, DeletionOK
    <2> QED BY <1>4, <2>2, FileIsOne DEF Less
<1>5. ASSUME NEW w \in Workers \ {h}, NEW f \in Files PROVE Likely(w, f)
    <2>1. CASE req'[w] = req[w]
        BY <2>1 DEF Likely, Uploading, Removing, Removes
    <2>2. CASE Less(req[w], req'[w], on)
        <3>1. "upload file" \in FileWork /\ "remove file" \in FileWork /\ "delete project" \in FileWork
            BY DEF FileWork, FileOps
        <3>2. req[w] # NoReq /\ req'[w].op = req[w].op /\ req'[w].at = req[w].at /\ req'[w].data = req[w].data
            BY <2>2 DEF Less
        <3> QED BY <1>4, <2>2, <3>1, <3>2 DEF Likely, Uploading, Removing, Removes
    <2> QED BY <2>1, <2>2 DEF Arrived
<1>6. ASSUME NEW w \in Workers \ {h}, NEW f \in Files, Uploading(w, f)
      PROVE  /\ {"upload file", op} \notin Conflicts => req'[w].sure = req[w].sure
             /\ req'[w].sure = req[w].sure \/ req'[w].sure = req[w].sure \ on
    BY <1>6 DEF Arrived, Less, Uploading
<1> QED BY <1>1, <1>2, <1>3, <1>5, <1>6 DEF FileRequests

\* One has moved on, or ended.
LEMMA FilePuts ==
    ASSUME FileRequests, NEW h \in Workers, req[h] # NoReq, NEW r, Put(h, r), calls' = calls,
           r = NoReq \/ (\E at, data : r = Moved(req[h], at, data) /\ FileRequest(r) /\ DeletionOK(r))
    PROVE  /\ FileRequests'
           /\ req'[h] = r /\ \A w \in Workers \ {h} : req'[w] = req[w]
           /\ (req[h].op \in FileWork /\ \E at, data : r = Moved(req[h], at, data) /\ FileRequest(r) /\ DeletionOK(r)) => r # NoReq
<1>1. Requested(req[h]) /\ req[h].sure \subseteq req[h].on /\ (req[h].op \in FileWork \/ req[h].on \cap FileObjects = {})
    BY DEF FileRequests, RequestsOf
<1>2. ASSUME NEW at, NEW data, r = Moved(req[h], at, data)
      PROVE  Requested(r) /\ r.sure \subseteq r.on /\ (r.op \in FileWork \/ r.on \cap FileObjects = {})
             /\ r.op = req[h].op
    BY <1>1, <1>2 DEF Moved, Requested
<1>3. RequestsOf(FileWork, FileObjects)'
    BY <1>2, PutKnows DEF FileRequests
<1>4. req'[h] = r /\ \A w \in Workers \ {h} : req'[w] = req[w]
    BY DEF Put
<1>5. ASSUME NEW w \in Workers, req'[w] # NoReq PROVE FileRequest(req'[w]) /\ DeletionOK(req'[w])
    BY <1>4, <1>5 DEF FileRequests
<1>6. ASSUME req[h].op \in FileWork, NEW at, NEW data, r = Moved(req[h], at, data), FileRequest(r), DeletionOK(r)
      PROVE  r # NoReq
    <2>1. r.op \in FileWork /\ Requested(r) /\ r.sure \subseteq r.on
        BY <1>2, <1>6
    <2> QED BY <1>6, <2>1, FileIsOne
<1> QED BY <1>3, <1>4, <1>5, <1>6 DEF FileRequests

----------------------------------------------------------------------------
\* An upload begins, of a name that nobody is at work on.
LEMMA UploadKeeps ==
    ASSUME FilesInv, NEW h \in Workers, Upload(h)
    PROVE  FilesInv'
<1>1. PICK g \in Files :
        /\ g \notin disk /\ g \notin fileRows /\ Idle(FileObject(g)) /\ UNCHANGED fileVars
        /\ Called(h, "upload file", {FileObject(g)}, "write", [f |-> g])
    BY DEF Upload, BeginIn
<1>2. Arrived(h, "upload file", {FileObject(g)}, "write", [f |-> g])
    BY <1>1, CalledArrives DEF FilesInv, FileRequests
<1>3. FileRequest(req'[h]) /\ DeletionOK(req'[h]) /\ "upload file" \in FileWork
    <2>1. /\ req'[h].op = "upload file" /\ req'[h].on = {FileObject(g)} /\ req'[h].at = "write"
          /\ req'[h].data = [f |-> g]
        BY <1>2, ArrivedIs
    <2>2. PICK d : d = [f |-> g]
        OBVIOUS
    <2>3. d.f = g /\ d \in [f : Files]
        BY <2>2
    <2>4. req'[h].data.f = g /\ req'[h].data \in [f : Files]
        BY <2>1, <2>2, <2>3
    <2> QED BY <2>1, <2>4 DEF FileRequest, DeletionOK, FileWork, FileOps
<1>4. /\ FileRequests' /\ req'[h] # NoReq
      /\ \A w \in Workers \ {h}, f \in Files : Likely(w, f)
      /\ \A w \in Workers \ {h}, f \in Files :
           Uploading(w, f) => req'[w].sure = req[w].sure \/ req'[w].sure = req[w].sure \ {FileObject(g)}
    BY <1>2, <1>3, FileArrives DEF FilesInv
<1>5. \A w \in Workers : ~Uploading(w, g) /\ ~Removing(w, g) /\ ~Removes(w)
    <2>1. ASSUME NEW w \in Workers, req[w] # NoReq PROVE FileObject(g) \notin req[w].on
        BY <1>1, <2>1 DEF Idle, Busy
    <2>2. FileObject(g) \in Deleted
        BY DEF Deleted, FileObjects
    <2> QED BY <2>1, <2>2 DEF FilesInv, FileRequests, FileRequest, DeletionOK, Uploading, Removing, Removes
<1>6. Hit("upload file", {FileObject(g)}) = {}
    BY <1>1 DEF Hit, Disturbed, Idle
<1>7. /\ req'[h].op = "upload file" /\ req'[h].data.f = g /\ req'[h].at = "write"
      /\ req'[h].sure = {FileObject(g)} /\ doubt' = doubt /\ req[h] = NoReq
    <2>1. /\ req'[h].op = "upload file" /\ req'[h].data = [f |-> g] /\ req'[h].at = "write" /\ req[h] = NoReq
          /\ req'[h].sure = {FileObject(g)} \ Hit("upload file", {FileObject(g)})
          /\ doubt' = doubt \cup Hit("upload file", {FileObject(g)})
        BY <1>2, ArrivedIs
    <2>2. PICK d : d = [f |-> g] /\ req'[h].data = d
        BY <2>1
    <2>3. d.f = g
        BY <2>2
    <2> QED BY <1>6, <2>1, <2>2, <2>3
<1>8. FileOK(g)'
    <2>1. \A w \in Workers \ {h} : ~Uploading(w, g)' /\ ~Removing(w, g)' /\ ~Removes(w)'
        BY <1>4, <1>5 DEF Likely
    <2>2. ~Removing(h, g)' /\ ~Removes(h)'
        BY <1>7 DEF Removing, Removes
    <2>3. FileKept(g)'
        BY <1>1 DEF FileKept, fileVars
    <2>4. UploadOK(h, g)'
        BY <1>1, <1>7, <2>1, <2>2 DEF UploadOK, Past, ForFile, fileVars
    <2> QED BY <2>1, <2>2, <2>3, <2>4 DEF FileOK, UploadOK, RemovalOK, ErasureOK
<1>9. ASSUME NEW f \in Files, f # g PROVE FileOK(f)'
    <2>1. FileObject(f) # FileObject(g)
        BY <1>9 DEF FileObject
    <2>2. ASSUME NEW w \in Workers \ {h}
          PROVE  /\ Uploading(w, f)' <=> Uploading(w, f)
                 /\ Removing(w, f)' <=> Removing(w, f)
                 /\ Removes(w)' <=> Removes(w)
                 /\ (Uploading(w, f) \/ Removing(w, f) \/ Removes(w)) => req'[w].at = req[w].at /\ req'[w].data = req[w].data
                 /\ Uploading(w, f) => (ForFile(w, f)' <=> ForFile(w, f))
        BY <1>4, <2>1 DEF Likely, ForFile
    <2>3. ~Uploading(h, f) /\ ~Removing(h, f) /\ ~Removes(h) /\ ~Uploading(h, f)' /\ ~Removing(h, f)' /\ ~Removes(h)'
        BY <1>7, <1>9 DEF Uploading, Removing, Removes
    <2>4. SameFile(f)
        BY <1>1, <1>7, <2>2, <2>3 DEF SameFile, FileInDoubt, fileVars
    <2> QED BY <2>4, SameFileKeeps DEF FilesInv
<1> QED BY <1>4, <1>8, <1>9 DEF FilesInv

\* A request about files moves on,
LEMMA FileMoves ==
    ASSUME FileRequests, NEW h \in Workers, req[h] # NoReq, req[h].op \in FileWork, NEW at, NEW data,
           Put(h, Moved(req[h], at, data)), calls' = calls,
           FileRequest(Moved(req[h], at, data)), DeletionOK(Moved(req[h], at, data))
    PROVE  /\ FileRequests'
           /\ req'[h] # NoReq /\ req'[h].op = req[h].op /\ req'[h].at = at /\ req'[h].data = data
           /\ req'[h].sure = req[h].sure
           /\ \A w \in Workers \ {h} : req'[w] = req[w]
<1>1. PICK r : r = Moved(req[h], at, data)
    OBVIOUS
<1>2. FileRequests' /\ r # NoReq /\ req'[h] = r /\ \A w \in Workers \ {h} : req'[w] = req[w]
    BY <1>1, FilePuts
<1>3. r.op = req[h].op /\ r.at = at /\ r.data = data /\ r.sure = req[h].sure
    BY <1>1, MovedIs
<1> QED BY <1>2, <1>3

\* or ends.
LEMMA FileEnds ==
    ASSUME FileRequests, NEW h \in Workers, req[h] # NoReq, Put(h, NoReq), calls' = calls
    PROVE  FileRequests' /\ req'[h] = NoReq /\ \A w \in Workers \ {h} : req'[w] = req[w]
BY FilePuts

\* It leaves other files alone.
LEMMA OtherFile ==
    ASSUME NEW f \in Files, FileOK(f), NEW h \in Workers,
           \A w \in Workers \ {h} : req'[w] = req[w],
           req[h] # NoReq, req[h].op \in FileOps, req[h].data.f # f,
           req'[h] # NoReq => req'[h].op = req[h].op /\ req'[h].data.f = req[h].data.f,
           FileInDoubt(f)' <=> FileInDoubt(f),
           (f \in disk)' <=> f \in disk, (f \in fileRows)' <=> f \in fileRows
    PROVE  FileOK(f)'
<1>1. ~Uploading(h, f) /\ ~Removing(h, f) /\ ~Removes(h) /\ ~Uploading(h, f)' /\ ~Removing(h, f)' /\ ~Removes(h)'
    BY DEF Uploading, Removing, Removes, FileOps
<1>2. ASSUME NEW w \in Workers \ {h}
      PROVE  /\ Uploading(w, f)' <=> Uploading(w, f)
             /\ Removing(w, f)' <=> Removing(w, f)
             /\ Removes(w)' <=> Removes(w)
             /\ (Uploading(w, f) \/ Removing(w, f) \/ Removes(w)) => req'[w].at = req[w].at /\ req'[w].data = req[w].data
             /\ Uploading(w, f) => (ForFile(w, f)' <=> ForFile(w, f))
    <2>1. req'[w] = req[w]
        OBVIOUS
    <2> QED BY <2>1 DEF Uploading, Removing, Removes, ForFile
<1>3. SameFile(f)
    BY <1>1, <1>2 DEF SameFile
<1> QED BY <1>3, SameFileKeeps

\* Other requests are about a file as before.
OthersStay(h, f) ==
    \A w \in Workers \ {h} :
        /\ Uploading(w, f)' <=> Uploading(w, f)
        /\ Removing(w, f)' <=> Removing(w, f)
        /\ Removes(w)' <=> Removes(w)
        /\ Past(w, f)' <=> Past(w, f)
        /\ ForFile(w, f)' <=> ForFile(w, f)
        /\ req'[w] = req[w]
\* A step of one request leaves the others' part in every file alone.
LEMMA TheyStay ==
    ASSUME NEW h, \A w \in Workers \ {h} : req'[w] = req[w]
    PROVE  \A f : OthersStay(h, f)
BY DEF OthersStay, Uploading, Removing, Removes, Past, ForFile

----------------------------------------------------------------------------
\* An upload goes on.
LEMMA WriteKeeps ==
    ASSUME FilesInv, NEW h \in Workers, WriteFile(h)
    PROVE  FilesInv'
<1>1. /\ req[h] # NoReq /\ req[h].op = "upload file" /\ req[h].at = "write"
      /\ Go(h, "insert", req[h].data) /\ disk' = disk \cup {req[h].data.f} /\ fileRows' = fileRows
    BY DEF WriteFile, At, GoOn
<1>2. Put(h, Moved(req[h], "insert", req[h].data)) /\ UNCHANGED <<doubt, calls, menu>>
    BY <1>1, GoPuts DEF FilesInv, FileRequests
<1>3. PICK g \in Files : g = req[h].data.f
    BY <1>1 DEF FilesInv, FileRequests, FileRequest
<1>4. /\ FileRequest(Moved(req[h], "insert", req[h].data)) /\ DeletionOK(Moved(req[h], "insert", req[h].data))
      /\ req[h].op \in FileWork /\ req[h].op \in FileOps
    <2>1. FileRequest(req[h])
        BY <1>1 DEF FilesInv, FileRequests
    <2>2. PICK r : /\ r = Moved(req[h], "insert", req[h].data) /\ r.op = req[h].op /\ r.on = req[h].on
                   /\ r.at = "insert" /\ r.data = req[h].data
        BY MovedIs
    <2>3. FileRequest(r) /\ DeletionOK(r)
        BY <1>1, <2>1, <2>2 DEF FileRequest, DeletionOK
    <2> QED BY <1>1, <2>2, <2>3 DEF FileWork, FileOps
<1>5. /\ FileRequests' /\ req'[h] # NoReq /\ req'[h].op = "upload file" /\ req'[h].at = "insert"
      /\ req'[h].data = req[h].data /\ req'[h].sure = req[h].sure
      /\ \A w \in Workers \ {h} : req'[w] = req[w]
    BY <1>1, <1>2, <1>4, FileMoves DEF FilesInv
<1>6. FileOK(g)'
    <2>1. /\ Uploading(h, g) /\ Uploading(h, g)' /\ ~Removing(h, g)' /\ ~Removes(h)'
          /\ ForFile(h, g)' <=> ForFile(h, g)
        BY <1>1, <1>3, <1>5 DEF Uploading, Removing, Removes, ForFile
    <2>2. UploadOK(h, g) /\ (FileInDoubt(g)' <=> FileInDoubt(g))
        BY <1>2 DEF FilesInv, FileOK, FileInDoubt
    <2>3. OthersStay(h, g)
        BY <1>5, TheyStay
    <2>4. UploadOK(h, g)'
        <3>1. \A x \in Workers : x # h => ~Uploading(x, g)' /\ ~Past(x, g)'
            BY <2>1, <2>2, <2>3 DEF UploadOK, OthersStay
        <3>2. ForFile(h, g)' => \A x \in Workers : ~Removes(x)'
            BY <2>1, <2>2, <2>3 DEF UploadOK, OthersStay
        <3>3. ~ForFile(h, g)' => FileInDoubt(g)'
            BY <2>1, <2>2 DEF UploadOK
        <3>4. g \notin fileRows' /\ g \in disk' /\ req'[h].at # "write"
            BY <1>1, <1>3, <1>5, <2>1, <2>2 DEF UploadOK
        <3> QED BY <3>1, <3>2, <3>3, <3>4 DEF UploadOK
    <2>5. FileKept(g)'
        BY <1>1, <1>3, <1>5, <2>1, <2>2 DEF FileKept, UploadOK
    <2>6. ASSUME NEW w \in Workers \ {h} PROVE UploadOK(w, g)' /\ RemovalOK(w, g)' /\ ErasureOK(w, g)'
        <3>1. ~Uploading(w, g)' /\ ~Past(w, g)'
            BY <2>1, <2>2, <2>3 DEF UploadOK, OthersStay
        <3>2. Removes(w)' => FileInDoubt(g)'
            BY <2>1, <2>2, <2>3 DEF UploadOK, OthersStay
        <3> QED BY <3>1, <3>2 DEF UploadOK, RemovalOK, ErasureOK, Past
    <2> QED BY <2>1, <2>4, <2>5, <2>6 DEF FileOK, RemovalOK, ErasureOK
<1>7. ASSUME NEW f \in Files, f # g PROVE FileOK(f)'
    <2>1. FileInDoubt(f)' <=> FileInDoubt(f)
        BY <1>2 DEF FileInDoubt
    <2>2. (f \in disk)' <=> f \in disk
        BY <1>1, <1>3, <1>7
    <2> QED BY <1>1, <1>3, <1>4, <1>5, <1>7, <2>1, <2>2, OtherFile DEF FilesInv
<1> QED BY <1>5, <1>6, <1>7 DEF FilesInv

\* It ends, with the row or with a failure.
LEMMA UploadEnds ==
    ASSUME FilesInv, NEW h \in Workers, InsertFile(h) \/ UploadFails(h)
    PROVE  FilesInv'
<1>1. req[h] # NoReq /\ req[h].op = "upload file"
    BY DEF InsertFile, UploadFails, At
<1>2. PICK g \in Files : g = req[h].data.f
    BY <1>1 DEF FilesInv, FileRequests, FileRequest
<1>3. /\ Put(h, NoReq) /\ calls' = calls
      /\ \/ /\ req[h].at = "insert" /\ fileRows' = fileRows \cup {g} /\ disk' = disk
            /\ doubt' = doubt \ ({FileObject(g)} \cap req[h].sure)
         \/ /\ doubt' = doubt \cup {FileObject(g)}
            /\ disk' \in {disk, disk \cup {g}} /\ fileRows' \in {fileRows, fileRows \cup {g}}
    BY <1>2, EndPuts DEF FilesInv, FileRequests, InsertFile, UploadFails, At
<1>4. FileRequests' /\ req'[h] = NoReq /\ \A w \in Workers \ {h} : req'[w] = req[w]
    BY <1>1, <1>3, FileEnds DEF FilesInv
<1>5. FileOK(g)'
    <2>1. Uploading(h, g) /\ ~Uploading(h, g)' /\ ~Removing(h, g)' /\ ~Removes(h)'
        BY <1>1, <1>2, <1>4 DEF Uploading, Removing, Removes
    <2>2. UploadOK(h, g)
        BY DEF FilesInv, FileOK
    <2>3. OthersStay(h, g)
        BY <1>4, TheyStay
    <2>4. CASE FileInDoubt(g)'
        <3>1. ASSUME NEW w \in Workers \ {h}
              PROVE  UploadOK(w, g)' /\ RemovalOK(w, g)' /\ ErasureOK(w, g)'
            BY <2>1, <2>2, <2>3, <2>4 DEF UploadOK, RemovalOK, ErasureOK, OthersStay, Past
        <3> QED BY <2>1, <2>4, <3>1 DEF FileOK, FileKept, UploadOK, RemovalOK, ErasureOK
    <2>5. CASE ~FileInDoubt(g)'
        <3>1. /\ req[h].at = "insert" /\ fileRows' = fileRows \cup {g} /\ disk' = disk /\ ForFile(h, g)
            BY <1>3, <2>1, <2>2, <2>5 DEF FileInDoubt, ForFile, UploadOK
        <3>2. g \in disk /\ \A x \in Workers : ~Removes(x)
            BY <2>1, <2>2, <3>1 DEF UploadOK
        <3>3. ASSUME NEW w \in Workers \ {h}
              PROVE  UploadOK(w, g)' /\ RemovalOK(w, g)' /\ ErasureOK(w, g)'
            BY <2>1, <2>2, <2>3, <3>2 DEF UploadOK, RemovalOK, ErasureOK, OthersStay, Past
        <3> QED BY <2>1, <3>1, <3>2, <3>3 DEF FileOK, FileKept, UploadOK, RemovalOK, ErasureOK
    <2> QED BY <2>4, <2>5
<1>6. ASSUME NEW f \in Files, f # g PROVE FileOK(f)'
    <2>1. FileInDoubt(f)' <=> FileInDoubt(f)
        BY <1>3, <1>6 DEF FileInDoubt, FileObject
    <2>2. ((f \in disk)' <=> f \in disk) /\ ((f \in fileRows)' <=> f \in fileRows)
        BY <1>3, <1>6
    <2>3. req[h].op \in FileOps
        BY <1>1 DEF FileOps
    <2> QED BY <1>1, <1>2, <1>4, <1>6, <2>1, <2>2, <2>3, OtherFile DEF FilesInv
<1> QED BY <1>4, <1>5, <1>6 DEF FilesInv

----------------------------------------------------------------------------
\* Removals conflict with nothing.
LEMMA RemovalsMeetNone ==
    ASSUME NEW a, NEW b, {a, b} \in Conflicts
    PROVE  b # "remove file"
BY DEF Conflicts

\* A removal begins.
LEMMA RemoveKeeps ==
    ASSUME FilesInv, NEW h \in Workers, RemoveFile(h)
    PROVE  FilesInv'
<1>1. PICK g, data :
        /\ g \in Files
        /\ data = [f |-> g, unlinked |-> FALSE] /\ UNCHANGED fileVars
        /\ Called(h, "remove file", {FileObject(g)}, "find", data)
    BY DEF RemoveFile, BeginIn
<1>2. Arrived(h, "remove file", {FileObject(g)}, "find", data)
    BY <1>1, CalledArrives DEF FilesInv, FileRequests
<1>3. /\ req[h] = NoReq /\ req'[h].op = "remove file" /\ req'[h].on = {FileObject(g)} /\ req'[h].at = "find"
      /\ req'[h].data = data /\ doubt' = doubt \cup Hit("remove file", {FileObject(g)})
    BY <1>2, ArrivedIs
<1>4. data \in [f : Files, unlinked : BOOLEAN] /\ ~data.unlinked /\ data.f = g
    BY <1>1
<1>5. FileRequest(req'[h]) /\ DeletionOK(req'[h]) /\ "remove file" \in FileWork
    BY <1>3, <1>4 DEF FileRequest, DeletionOK, FileWork, FileOps
<1>6. \A op : {op, "remove file"} \notin Conflicts /\ {"upload file", "remove file"} \notin Conflicts
    BY RemovalsMeetNone
<1>7. doubt' = doubt
    <2>1. Hit("remove file", {FileObject(g)}) = {}
        BY <1>6 DEF Hit, Disturbed
    <2> QED BY <1>3, <2>1
<1>8. /\ FileRequests' /\ req'[h] # NoReq
      /\ \A w \in Workers \ {h}, f \in Files : Likely(w, f)
      /\ \A w \in Workers \ {h}, f \in Files : Uploading(w, f) => req'[w].sure = req[w].sure
    <2>1. FileRequests
        BY DEF FilesInv
    <2>2. PICK op, on, at : op = "remove file" /\ on = {FileObject(g)} /\ at = "find"
        OBVIOUS
    <2>3. op \in FileWork /\ Arrived(h, op, on, at, data) /\ {"upload file", op} \notin Conflicts
        BY <1>2, <1>5, <1>6, <2>2
    <2>4. FileRequest(req'[h]) /\ DeletionOK(req'[h])
        BY <1>5
    <2>5. /\ FileRequests' /\ req'[h] # NoReq
          /\ \A w \in Workers \ {h}, f \in Files : Likely(w, f)
          /\ \A w \in Workers \ {h}, f \in Files :
                (Uploading(w, f) /\ {"upload file", op} \notin Conflicts) => req'[w].sure = req[w].sure
        BY ONLY h \in Workers, <2>1, <2>3, <2>4, FileArrives
    <2> QED BY ONLY <2>3, <2>5
<1>9. ASSUME NEW f \in Files PROVE FileOK(f)'
    <2>1. /\ ~Uploading(h, f) /\ ~Removing(h, f) /\ ~Removes(h)
          /\ ~Uploading(h, f)' /\ ~Past(h, f)' /\ ~Removes(h)' /\ req'[h].at = "find"
        BY <1>3 DEF Uploading, Removing, Removes, Past
    <2>2. ASSUME NEW w \in Workers \ {h}
          PROVE  /\ Uploading(w, f)' <=> Uploading(w, f)
                 /\ Removing(w, f)' <=> Removing(w, f)
                 /\ Removes(w)' <=> Removes(w)
                 /\ Past(w, f)' <=> Past(w, f)
                 /\ (Uploading(w, f) \/ Removing(w, f) \/ Removes(w)) => req'[w].at = req[w].at /\ req'[w].data = req[w].data
                 /\ Uploading(w, f) => (ForFile(w, f)' <=> ForFile(w, f))
        BY <1>8 DEF Likely, ForFile, Past
    <2>3. FileOK(f) /\ (FileInDoubt(f)' <=> FileInDoubt(f)) /\ disk' = disk /\ fileRows' = fileRows
        BY <1>1, <1>7 DEF FilesInv, FileInDoubt, fileVars
    <2>4. FileKept(f)'
        BY <2>1, <2>2, <2>3 DEF FileOK, FileKept
    <2>5. ASSUME NEW w \in Workers \ {h} PROVE UploadOK(w, f)' /\ RemovalOK(w, f)' /\ ErasureOK(w, f)'
        BY <2>1, <2>2, <2>3 DEF FileOK, UploadOK, RemovalOK, ErasureOK
    <2>6. UploadOK(h, f)' /\ RemovalOK(h, f)' /\ ErasureOK(h, f)'
        BY <2>1 DEF UploadOK, RemovalOK, ErasureOK
    <2> QED BY <2>4, <2>5, <2>6 DEF FileOK
<1> QED BY <1>8, <1>9 DEF FilesInv

\* It goes on: its file is looked for, and unlinked or not.
LEMMA UnlinkKeeps ==
    ASSUME FilesInv, NEW h \in Workers, (FindFile(h) /\ req'[h] # NoReq) \/ Unlink(h) \/ UnlinkFails(h)
    PROVE  FilesInv'
<1>1. req[h] # NoReq /\ req[h].op = "remove file" /\ FileRequest(req[h])
    BY DEF FindFile, Unlink, UnlinkFails, At, FilesInv, FileRequests
<1>2. PICK g \in Files : g = req[h].data.f
    BY <1>1 DEF FileRequest
<1>3. PICK at \in {"unlink", "row"}, data \in [f : Files, unlinked : BOOLEAN] :
        /\ Put(h, Moved(req[h], at, data)) /\ data.f = g /\ calls' = calls
        /\ (at # "row" => ~data.unlinked) /\ fileRows' = fileRows
        /\ \/ /\ req[h].at = "find" /\ at = "unlink" /\ disk' = disk /\ doubt' = doubt /\ g \in fileRows
           \/ /\ req[h].at = "unlink" /\ at = "row" /\ disk' = disk \ {g} /\ doubt' = doubt
           \/ /\ req[h].at = "unlink" /\ at = "row" /\ disk' = disk /\ doubt' = doubt \cup {FileObject(g)}
              /\ ~data.unlinked
    <2>1. CASE FindFile(h) /\ req'[h] # NoReq
        <3>1. CASE g \in fileRows
            <4>1. Go(h, "unlink", req[h].data) /\ At(h, "remove file", "find") /\ UNCHANGED fileVars
                BY <1>2, <2>1, <3>1 DEF FindFile, GoOn
            <4>2. Put(h, Moved(req[h], "unlink", req[h].data)) /\ UNCHANGED <<doubt, calls, menu>>
                BY <1>1, <4>1, GoPuts DEF FilesInv, FileRequests
            <4> QED BY <1>1, <1>2, <3>1, <4>1, <4>2 DEF At, FileRequest, fileVars
        <3>2. CASE g \notin fileRows
            <4>1. Finish(h, {})
                BY <1>2, <2>1, <3>2 DEF FindFile
            <4>2. Put(h, NoReq)
                BY <4>1, EndPuts DEF FilesInv, FileRequests
            <4> QED BY <2>1, <4>2 DEF Put
        <3> QED BY <3>1, <3>2
    <2>2. CASE Unlink(h)
        <3>1. PICK data : data = [req[h].data EXCEPT !.unlinked = TRUE]
            OBVIOUS
        <3>2. data \in [f : Files, unlinked : BOOLEAN] /\ data.f = g
            BY <1>1, <1>2, <3>1 DEF FileRequest
        <3>3. Go(h, "row", data) /\ At(h, "remove file", "unlink") /\ disk' = disk \ {g} /\ fileRows' = fileRows
            BY <1>2, <2>2, <3>1 DEF Unlink
        <3>4. Put(h, Moved(req[h], "row", data)) /\ UNCHANGED <<doubt, calls, menu>>
            BY <1>1, <3>3, GoPuts DEF FilesInv, FileRequests
        <3> QED BY <1>1, <3>2, <3>3, <3>4 DEF At
    <2>3. CASE UnlinkFails(h)
        <3>1. Swallow(h, "row", req[h].data, {FileObject(g)}) /\ At(h, "remove file", "unlink") /\ UNCHANGED fileVars
            BY <1>2, <2>3 DEF UnlinkFails
        <3>2. /\ Put(h, Moved(req[h], "row", req[h].data)) /\ doubt' = doubt \cup {FileObject(g)}
              /\ UNCHANGED <<calls, menu>>
            BY <1>1, <3>1, GoPuts DEF FilesInv, FileRequests
        <3> QED BY <1>1, <1>2, <3>1, <3>2 DEF At, FileRequest, fileVars
    <2> QED BY <2>1, <2>2, <2>3
<1>4. /\ FileRequest(Moved(req[h], at, data)) /\ DeletionOK(Moved(req[h], at, data))
      /\ req[h].op \in FileWork /\ req[h].op \in FileOps
    <2>1. PICK r : /\ r = Moved(req[h], at, data) /\ r.op = req[h].op /\ r.on = req[h].on
                   /\ r.at = at /\ r.data = data
        BY MovedIs
    <2>2. FileRequest(r) /\ DeletionOK(r)
        BY <1>1, <1>2, <1>3, <2>1 DEF FileRequest, DeletionOK
    <2> QED BY <1>1, <2>1, <2>2 DEF FileWork, FileOps
<1>5. /\ FileRequests' /\ req'[h] # NoReq /\ req'[h].op = "remove file" /\ req'[h].at = at
      /\ req'[h].data = data /\ \A w \in Workers \ {h} : req'[w] = req[w]
    BY <1>1, <1>3, <1>4, FileMoves DEF FilesInv
<1>6. FileOK(g)'
    <2>1. /\ Removing(h, g) /\ Removing(h, g)' /\ ~Uploading(h, g) /\ ~Uploading(h, g)' /\ ~Removes(h) /\ ~Removes(h)'
          /\ Past(h, g) <=> req[h].at # "find"
        BY <1>1, <1>2, <1>3, <1>5 DEF Uploading, Removing, Removes, Past
    <2>2. FileOK(g)
        BY DEF FilesInv
    <2>3. OthersStay(h, g)
        BY <1>5, TheyStay
    <2>4. \A w \in Workers : ~Uploading(w, g)
        BY <1>3, <2>1, <2>2 DEF FileOK, UploadOK
    <2>5. FileInDoubt(g) => FileInDoubt(g)'
        BY <1>3 DEF FileInDoubt
    <2>6. \A w \in Workers : ~Uploading(w, g)'
        BY <2>1, <2>3, <2>4 DEF OthersStay
    <2>7. RemovalOK(h, g)' /\ ErasureOK(h, g)'
        BY <1>3, <1>5, <2>1 DEF RemovalOK, ErasureOK, FileInDoubt
    <2>8. ASSUME NEW w \in Workers \ {h} PROVE RemovalOK(w, g)' /\ ErasureOK(w, g)'
        <3>1. RemovalOK(w, g) /\ ErasureOK(w, g)
            BY <2>2 DEF FileOK
        <3>2. /\ Removing(w, g)' <=> Removing(w, g)
              /\ Removes(w)' <=> Removes(w)
              /\ req'[w] = req[w]
            BY <2>3 DEF OthersStay
        <3>3. g \in disk' => g \in disk
            BY <1>3
        <3> QED BY <1>3, <2>5, <3>1, <3>2, <3>3 DEF RemovalOK, ErasureOK
    <2>9. FileKept(g)'
        <3> SUFFICES ASSUME ~FileInDoubt(g)'
                     PROVE  /\ (g \in disk /\ g \notin fileRows)' => FALSE
                            /\ (g \in fileRows /\ g \notin disk)' =>
                                \E w \in Workers : (Removing(w, g)' \/ Removes(w)') /\ req'[w].at \in {"row", "file rows"}
            BY DEF FileKept
        <3>1. ~FileInDoubt(g)
            BY <2>5
        <3>2. ~(g \in disk /\ g \notin fileRows)
            BY <2>2, <2>4, <3>1 DEF FileOK, FileKept
        <3>3. CASE at = "row"
            BY <1>3, <1>5, <2>1, <3>2, <3>3
        <3>4. CASE at = "unlink"
            <4>1. disk' = disk /\ fileRows' = fileRows /\ req[h].at = "find"
                BY <1>3, <3>4
            <4>2. ASSUME g \in fileRows, g \notin disk
                  PROVE  \E w \in Workers \ {h} : (Removing(w, g) \/ Removes(w)) /\ req[w].at \in {"row", "file rows"}
                BY <2>2, <3>1, <4>1, <4>2 DEF FileOK, FileKept
            <4> QED BY <2>3, <3>2, <4>1, <4>2 DEF OthersStay
        <3> QED BY <3>3, <3>4
    <2> QED BY <2>6, <2>7, <2>8, <2>9 DEF FileOK, UploadOK
<1>7. ASSUME NEW f \in Files, f # g PROVE FileOK(f)'
    <2>1. FileInDoubt(f)' <=> FileInDoubt(f)
        BY <1>3, <1>7 DEF FileInDoubt, FileObject
    <2>2. ((f \in disk)' <=> f \in disk) /\ ((f \in fileRows)' <=> f \in fileRows)
        BY <1>3, <1>7
    <2> QED BY <1>1, <1>2, <1>3, <1>4, <1>5, <1>7, <2>1, <2>2, OtherFile DEF FilesInv
<1> QED BY <1>5, <1>6, <1>7 DEF FilesInv

\* It ends, with the row's removal, with a failure, or having found nothing.
LEMMA RemovalEnds ==
    ASSUME FilesInv, NEW h \in Workers, FindFile(h) \/ DeleteFile(h) \/ RemoveFileFails(h), req'[h] = NoReq
    PROVE  FilesInv'
<1>1. req[h] # NoReq /\ req[h].op = "remove file" /\ FileRequest(req[h])
    BY DEF FindFile, DeleteFile, RemoveFileFails, At, FilesInv, FileRequests
<1>2. PICK g \in Files : g = req[h].data.f
    BY <1>1 DEF FileRequest
<1>3. /\ Put(h, NoReq) /\ calls' = calls /\ disk' = disk
      /\ \/ req[h].at = "find" /\ fileRows' = fileRows /\ doubt' = doubt
         \/ /\ req[h].at = "row" /\ fileRows' = fileRows \ {g} /\ req[h].data.unlinked
            /\ doubt' = doubt \ ({FileObject(g)} \cap req[h].sure)
         \/ req[h].at = "row" /\ fileRows' = fileRows \ {g} /\ ~req[h].data.unlinked /\ doubt' = doubt
         \/ /\ req[h].at = "row" /\ fileRows' \in {fileRows, fileRows \ {g}}
            /\ doubt' = doubt \cup {FileObject(g)}
    <2>1. CASE FindFile(h)
        <3>1. g \notin fileRows
            <4> SUFFICES ASSUME g \in fileRows PROVE FALSE
                OBVIOUS
            <4>1. Go(h, "unlink", req[h].data)
                BY <1>2, <2>1 DEF FindFile, GoOn
            <4>2. Put(h, Moved(req[h], "unlink", req[h].data)) /\ calls' = calls
                BY <1>1, <4>1, GoPuts DEF FilesInv, FileRequests
            <4>3. PICK r : /\ r = Moved(req[h], "unlink", req[h].data) /\ r.op = req[h].op /\ r.on = req[h].on
                           /\ r.at = "unlink" /\ r.data = req[h].data
                BY MovedIs
            <4>4. req[h].at = "find"
                BY <2>1 DEF FindFile, At
            <4>5. FileRequest(r) /\ DeletionOK(r)
                BY <1>1, <4>3, <4>4 DEF FileRequest, DeletionOK
            <4>6. req[h].op \in FileWork
                BY <1>1 DEF FileWork, FileOps
            <4>7. req'[h] # NoReq
                BY <1>1, <4>2, <4>3, <4>5, <4>6, FileMoves DEF FilesInv
            <4> QED BY <4>7
        <3>2. Finish(h, {}) /\ At(h, "remove file", "find") /\ UNCHANGED fileVars
            BY <1>2, <2>1, <3>1 DEF FindFile
        <3>3. Put(h, NoReq) /\ doubt' = doubt \ ({} \cap req[h].sure) /\ UNCHANGED <<calls, menu>>
            BY <3>2, EndPuts DEF FilesInv, FileRequests
        <3> QED BY <3>2, <3>3 DEF At, fileVars
    <2>2. CASE DeleteFile(h)
        <3>1. /\ Finish(h, IF req[h].data.unlinked THEN {FileObject(g)} ELSE {}) /\ At(h, "remove file", "row")
              /\ fileRows' = fileRows \ {g} /\ disk' = disk
            BY <1>2, <2>2 DEF DeleteFile
        <3>2. /\ Put(h, NoReq) /\ UNCHANGED <<calls, menu>>
              /\ doubt' = doubt \ ((IF req[h].data.unlinked THEN {FileObject(g)} ELSE {}) \cap req[h].sure)
            BY <3>1, EndPuts DEF FilesInv, FileRequests
        <3> QED BY <3>1, <3>2 DEF At
    <2>3. CASE RemoveFileFails(h)
        <3>1. /\ Fail(h, IF req[h].at = "row" THEN {FileObject(g)} ELSE {}) /\ disk' = disk
              /\ req[h].at = "find" \/ req[h].at = "row"
              /\ fileRows' \in {fileRows, IF req[h].at = "row" THEN fileRows \ {g} ELSE fileRows}
            BY <1>2, <2>3 DEF RemoveFileFails, At
        <3>2. /\ Put(h, NoReq) /\ UNCHANGED <<calls, menu>>
              /\ doubt' = doubt \cup (IF req[h].at = "row" THEN {FileObject(g)} ELSE {})
            BY <3>1, EndPuts DEF FilesInv, FileRequests
        <3> QED BY <3>1, <3>2
    <2> QED BY <2>1, <2>2, <2>3
<1>4. FileRequests' /\ req'[h] = NoReq /\ \A w \in Workers \ {h} : req'[w] = req[w]
    BY <1>1, <1>3, FileEnds DEF FilesInv
<1>5. FileOK(g)'
    <2>1. /\ Removing(h, g) /\ ~Removing(h, g)' /\ ~Uploading(h, g) /\ ~Uploading(h, g)' /\ ~Removes(h) /\ ~Removes(h)'
          /\ Past(h, g) <=> req[h].at # "find"
        BY <1>1, <1>2, <1>4 DEF Uploading, Removing, Removes, Past
    <2>2. FileOK(g)
        BY DEF FilesInv
    <2>3. OthersStay(h, g)
        BY <1>4, TheyStay
    <2>4. CASE req[h].at = "find"
        <3>1. disk' = disk /\ fileRows' = fileRows /\ (FileInDoubt(g)' <=> FileInDoubt(g))
            BY <1>3, <2>4 DEF FileInDoubt
        <3>2. FileKept(g)'
            BY <2>1, <2>2, <2>3, <2>4, <3>1 DEF FileOK, FileKept, OthersStay
        <3>3. ~Past(h, g)'
            BY <2>1 DEF Past
        <3>4. ASSUME NEW w \in Workers \ {h} PROVE UploadOK(w, g)' /\ RemovalOK(w, g)' /\ ErasureOK(w, g)'
            BY <2>1, <2>2, <2>3, <3>1, <3>3 DEF FileOK, UploadOK, RemovalOK, ErasureOK, OthersStay
        <3> QED BY <2>1, <3>2, <3>4 DEF FileOK, UploadOK, RemovalOK, ErasureOK
    <2>5. CASE req[h].at = "row"
        <3>1. \A w \in Workers : ~Uploading(w, g)
            BY <2>1, <2>2, <2>5 DEF FileOK, UploadOK
        <3>2. \A w \in Workers : ~Uploading(w, g)'
            BY <2>1, <2>3, <3>1 DEF OthersStay
        <3>3. g \notin disk \/ (FileInDoubt(g) /\ ~req[h].data.unlinked)
            BY <2>1, <2>2, <2>5 DEF FileOK, RemovalOK
        <3>4. g \notin disk' \/ FileInDoubt(g)'
            BY <1>3, <2>5, <3>3 DEF FileInDoubt
        <3>5. FileInDoubt(g)' \/ g \notin fileRows'
            BY <1>3, <2>5 DEF FileInDoubt
        <3>6. FileInDoubt(g) => FileInDoubt(g)' \/ (g \notin disk' /\ g \notin fileRows')
            BY <1>3, <2>5, <3>3 DEF FileInDoubt
        <3>7. FileKept(g)'
            BY <3>4, <3>5 DEF FileKept
        <3>8. ASSUME NEW w \in Workers \ {h} PROVE RemovalOK(w, g)' /\ ErasureOK(w, g)'
            BY <1>3, <2>2, <2>3, <3>3, <3>4, <3>5, <3>6 DEF FileOK, RemovalOK, ErasureOK, OthersStay
        <3> QED BY <2>1, <3>2, <3>7, <3>8 DEF FileOK, UploadOK, RemovalOK, ErasureOK
    <2> QED BY <1>3, <2>4, <2>5
<1>6. ASSUME NEW f \in Files, f # g PROVE FileOK(f)'
    <2>1. FileInDoubt(f)' <=> FileInDoubt(f)
        BY <1>3, <1>6 DEF FileInDoubt, FileObject
    <2>2. ((f \in disk)' <=> f \in disk) /\ ((f \in fileRows)' <=> f \in fileRows)
        BY <1>3, <1>6
    <2>3. req[h].op \in FileOps
        BY <1>1 DEF FileOps
    <2> QED BY <1>1, <1>2, <1>4, <1>6, <2>1, <2>2, <2>3, OtherFile DEF FilesInv
<1> QED BY <1>4, <1>5, <1>6 DEF FilesInv

----------------------------------------------------------------------------
\* A deletion begins: uploads that are under way are in doubt.
LEMMA ErasureBegins ==
    ASSUME FilesInv, NEW h \in Workers, Arrived(h, "delete project", Deleted, "find", NoData), UNCHANGED fileVars
    PROVE  FilesInv'
<1>1. /\ req[h] = NoReq /\ req'[h].op = "delete project" /\ req'[h].on = Deleted /\ req'[h].at = "find"
      /\ req'[h].data = NoData /\ doubt' = doubt \cup Hit("delete project", Deleted)
    BY ArrivedIs
<1>2. FileRequest(req'[h]) /\ DeletionOK(req'[h]) /\ "delete project" \in FileWork
    BY <1>1 DEF FileRequest, DeletionOK, DeletionData, FileWork
<1>3. /\ FileRequests' /\ req'[h] # NoReq
      /\ \A w \in Workers \ {h}, f \in Files : Likely(w, f)
    BY <1>2, FileArrives DEF FilesInv
<1>4. ASSUME NEW f \in Files PROVE FileOK(f)'
    <2>1. ~Uploading(h, f) /\ ~Removing(h, f) /\ ~Removes(h) /\ ~Uploading(h, f)' /\ ~Removing(h, f)' /\ req'[h].at = "find"
        BY <1>1 DEF Uploading, Removing, Removes
    <2>2. ASSUME NEW w \in Workers \ {h}
          PROVE  /\ Uploading(w, f)' <=> Uploading(w, f)
                 /\ Removing(w, f)' <=> Removing(w, f)
                 /\ Removes(w)' <=> Removes(w)
                 /\ Past(w, f)' <=> Past(w, f)
                 /\ (Uploading(w, f) \/ Removing(w, f) \/ Removes(w)) => req'[w].at = req[w].at /\ req'[w].data = req[w].data
        BY <1>3 DEF Likely, Past
    <2>3. FileOK(f) /\ (FileInDoubt(f) => FileInDoubt(f)') /\ disk' = disk /\ fileRows' = fileRows
        BY <1>1 DEF FilesInv, FileInDoubt, fileVars
    <2>4. ASSUME NEW w \in Workers \ {h}, Uploading(w, f) PROVE ~ForFile(w, f)' /\ FileInDoubt(f)'
        <3>1. {req[w].op, "delete project"} \in Conflicts /\ req[w] # NoReq
            BY <2>4 DEF Uploading, Conflicts
        <3>2. FileObject(f) \in req[w].on /\ FileObject(f) \in Deleted
            BY <2>4 DEF FilesInv, FileRequests, FileRequest, Uploading, Deleted, FileObjects
        <3>3. w \in Disturbed("delete project", FileObject(f))
            BY <3>1, <3>2 DEF Disturbed, Busy
        <3>4. FileObject(f) \in Hit("delete project", Deleted)
            BY <3>2, <3>3 DEF Hit
        <3>5. Less(req[w], req'[w], Deleted)
            BY <3>1 DEF Arrived
        <3> QED BY <1>1, <3>2, <3>4, <3>5 DEF Less, ForFile, FileInDoubt
    <2>5. FileKept(f)'
        BY <2>1, <2>2, <2>3 DEF FileOK, FileKept
    <2>6. ASSUME NEW w \in Workers \ {h} PROVE UploadOK(w, f)'
        <3> SUFFICES ASSUME Uploading(w, f)' PROVE UploadOK(w, f)'
            BY DEF UploadOK
        <3>1. UploadOK(w, f) /\ Uploading(w, f)
            BY <2>2, <2>3 DEF FileOK
        <3>2. ~Past(h, f)'
            BY <2>1 DEF Past
        <3>3. \A x \in Workers : x # w => ~Uploading(x, f)' /\ ~Past(x, f)'
            BY <2>1, <2>2, <3>1, <3>2 DEF UploadOK
        <3> QED BY <2>2, <2>3, <2>4, <3>1, <3>3 DEF UploadOK
    <2>7. ASSUME NEW w \in Workers \ {h} PROVE RemovalOK(w, f)' /\ ErasureOK(w, f)'
        BY <2>1, <2>2, <2>3 DEF FileOK, RemovalOK, ErasureOK
    <2>8. UploadOK(h, f)' /\ RemovalOK(h, f)' /\ ErasureOK(h, f)'
        BY <2>1 DEF UploadOK, RemovalOK, ErasureOK
    <2> QED BY <2>5, <2>6, <2>7, <2>8 DEF FileOK
<1> QED BY <1>3, <1>4 DEF FilesInv

\* What a deletion does to a file: its bytes or its row may go, and it may be in doubt.
Erased(f) ==
    /\ (f \in disk)' => f \in disk
    /\ (f \in fileRows)' => f \in fileRows
    /\ FileInDoubt(f) => FileInDoubt(f)'
    /\ (f \in disk /\ f \notin fileRows) /\ ~FileInDoubt(f) => f \in disk'
\* A step of a deletion keeps what is known of a file whose bytes or row it may take away.
LEMMA ErasureGoesOn ==
    ASSUME FilesInv, NEW h \in Workers, Removes(h),
           \A w \in Workers \ {h} : req'[w] = req[w],
           req'[h] # NoReq => req'[h].op = "delete project",
           NEW f \in Files, Erased(f), ErasureOK(h, f)',
           ~FileInDoubt(f)' => f \notin disk' /\ (f \notin fileRows' \/ (req'[h] # NoReq /\ req'[h].at = "file rows"))
    PROVE  FileOK(f)'
<1>1. ~Uploading(h, f) /\ ~Removing(h, f) /\ ~Uploading(h, f)' /\ ~Removing(h, f)' /\ ~Past(h, f)'
    BY DEF Removes, Uploading, Removing, Past
<1>2. OthersStay(h, f) /\ FileOK(f) /\ (Removes(h)' <=> req'[h] # NoReq)
    BY TheyStay DEF FilesInv, Removes
<1>3. \A w \in Workers : Uploading(w, f) => FileInDoubt(f) /\ ~ForFile(w, f)
    BY <1>2 DEF FileOK, UploadOK
<1>4. ASSUME NEW w \in Workers \ {h} PROVE UploadOK(w, f)'
    BY <1>1, <1>2, <1>3 DEF FileOK, UploadOK, OthersStay, Erased
<1>5. ASSUME NEW w \in Workers \ {h} PROVE RemovalOK(w, f)' /\ ErasureOK(w, f)'
    BY <1>2 DEF FileOK, RemovalOK, ErasureOK, OthersStay, Erased
<1>6. FileKept(f)'
    <2> SUFFICES ASSUME ~FileInDoubt(f)'
                 PROVE  /\ (f \in disk /\ f \notin fileRows)' => FALSE
                        /\ (f \in fileRows /\ f \notin disk)' => Removes(h)' /\ req'[h].at = "file rows"
        BY DEF FileKept
    <2> QED BY <1>2 DEF Erased
<1> QED BY <1>1, <1>4, <1>5, <1>6 DEF FileOK, UploadOK, RemovalOK

\* It looks for the project, and ends when there is none.
LEMMA ErasureFinds ==
    ASSUME FilesInv, NEW h \in Workers, At(h, "delete project", "find"), UNCHANGED <<fileVars, doubt, calls>>,
           Put(h, Moved(req[h], "files", req[h].data)) \/ Put(h, NoReq)
    PROVE  FilesInv'
<1>1. req[h] # NoReq /\ req[h].op = "delete project" /\ req[h].at = "find" /\ FileRequest(req[h]) /\ DeletionOK(req[h])
    BY DEF At, FilesInv, FileRequests
<1>2. /\ FileRequests' /\ \A w \in Workers \ {h} : req'[w] = req[w]
      /\ req'[h] # NoReq => req'[h].op = "delete project" /\ req'[h].at = "files"
    <2>1. CASE Put(h, NoReq)
        BY <1>1, <2>1, FileEnds DEF FilesInv
    <2>2. CASE Put(h, Moved(req[h], "files", req[h].data))
        <3>1. PICK r : /\ r = Moved(req[h], "files", req[h].data) /\ r.op = req[h].op /\ r.on = req[h].on
                       /\ r.at = "files" /\ r.data = req[h].data
            BY ONLY MovedIs
        <3>2. FileRequest(r) /\ DeletionOK(r) /\ req[h].op \in FileWork
            BY <1>1, <3>1 DEF FileRequest, DeletionOK, FileWork
        <3> QED BY <1>1, <2>2, <3>1, <3>2, FileMoves DEF FilesInv
    <2> QED BY <2>1, <2>2
<1>3. ASSUME NEW f \in Files PROVE FileOK(f)'
    <2>1. ~Uploading(h, f) /\ ~Removing(h, f) /\ ~Uploading(h, f)' /\ ~Removing(h, f)' /\ ~Past(h, f)'
        BY <1>1, <1>2 DEF Uploading, Removing, Past
    <2>2. OthersStay(h, f) /\ FileOK(f) /\ Removes(h) /\ (Removes(h)' => req'[h].at = "files")
        BY <1>1, <1>2, TheyStay DEF FilesInv, Removes
    <2>3. disk' = disk /\ fileRows' = fileRows /\ (FileInDoubt(f)' <=> FileInDoubt(f))
        BY DEF fileVars, FileInDoubt
    <2>4. ASSUME NEW w \in Workers \ {h} PROVE UploadOK(w, f)'
        BY <2>1, <2>2, <2>3 DEF FileOK, UploadOK, OthersStay
    <2>5. ASSUME NEW w \in Workers \ {h} PROVE RemovalOK(w, f)' /\ ErasureOK(w, f)'
        BY <2>2, <2>3 DEF FileOK, RemovalOK, ErasureOK, OthersStay
    <2>6. FileKept(f)'
        BY <1>1, <2>1, <2>2, <2>3 DEF FileOK, FileKept, OthersStay
    <2> QED BY <2>1, <2>2, <2>4, <2>5, <2>6 DEF FileOK, UploadOK, RemovalOK, ErasureOK
<1> QED BY <1>2, <1>3 DEF FilesInv

\* It goes on.
LEMMA ErasureMoves ==
    ASSUME FilesInv, NEW h \in Workers, req[h] # NoReq, req[h].op = "delete project", calls' = calls,
           NEW at, NEW data, at \in {"file rows"} \cup Later, data \in DeletionData, at = "keys" => data # NoData,
           Put(h, Moved(req[h], at, data))
    PROVE  /\ FileRequests' /\ \A w \in Workers \ {h} : req'[w] = req[w]
           /\ req'[h] # NoReq /\ req'[h].op = "delete project" /\ req'[h].at = at
<1>1. FileRequest(req[h]) /\ DeletionOK(req[h]) /\ req[h].op \in FileWork
    BY DEF FilesInv, FileRequests, FileWork
<1>2. PICK r : /\ r = Moved(req[h], at, data) /\ r.op = req[h].op /\ r.on = req[h].on /\ r.at = at /\ r.data = data
               /\ r.sure = req[h].sure
    BY ONLY MovedOne
<1>3. FileRequest(r) /\ DeletionOK(r)
    BY <1>1, <1>2 DEF FileRequest, DeletionOK
<1> QED BY <1>1, <1>2, <1>3, FileMoves DEF FilesInv

\* The steps of a deletion that leave files alone.
LEMMA LaterKeeps ==
    ASSUME FilesInv, NEW h \in Workers, LaterStep(h), UNCHANGED fileVars
    PROVE  FilesInv'
<1>1. CASE Arrived(h, "delete project", Deleted, "find", NoData)
    BY <1>1, ErasureBegins
<1>2. CASE At(h, "delete project", "find") /\ Put(h, Moved(req[h], "files", req[h].data)) /\ UNCHANGED <<doubt, calls, menu>>
    BY <1>2, ErasureFinds DEF fileVars
<1>3. CASE At(h, "delete project", "find") /\ Put(h, NoReq) /\ UNCHANGED <<doubt, calls, menu>>
    BY <1>3, ErasureFinds DEF fileVars
<1>4. ASSUME NEW at \in Later, NEW data \in DeletionData, NEW more,
             req[h] # NoReq, req[h].op = "delete project", req[h].at \in Later,
             doubt' = doubt \cup more, calls' = calls, at = "keys" => data # NoData,
             Put(h, Moved(req[h], at, data)) \/ Put(h, NoReq)
      PROVE  FilesInv'
    <2>1. /\ FileRequests' /\ \A w \in Workers \ {h} : req'[w] = req[w]
          /\ req'[h] # NoReq => req'[h].op = "delete project" /\ req'[h].at \in Later
        BY <1>4, ErasureMoves, FileEnds DEF FilesInv
    <2>2. ASSUME NEW f \in Files PROVE FileOK(f)'
        <3>1. Removes(h) /\ ErasureOK(h, f) /\ disk' = disk /\ fileRows' = fileRows
            BY <1>4 DEF Removes, FilesInv, FileOK, fileVars
        <3>2. FileInDoubt(f) => FileInDoubt(f)'
            BY <1>4 DEF FileInDoubt
        <3>3. req[h].at \notin {"find", "files", "file rows"}
            BY <1>4 DEF Later
        <3>4. ~FileInDoubt(f)' => f \notin disk' /\ f \notin fileRows'
            BY <3>1, <3>2, <3>3 DEF ErasureOK
        <3>5. Erased(f) /\ ErasureOK(h, f)'
            BY <3>1, <3>2, <3>4 DEF Erased, ErasureOK
        <3> QED BY <2>1, <3>1, <3>4, <3>5, ErasureGoesOn
    <2> QED BY <2>1, <2>2 DEF FilesInv
<1>5. "row" \in Later /\ NoData \in DeletionData /\ "schema" \in Later
    BY DEF Later, DeletionData
<1>6. CASE \E at \in Later, data \in DeletionData, more \in SUBSET {PluginObject} :
            /\ req[h] # NoReq /\ req[h].op = "delete project" /\ req[h].at \in Later \ {"uploads"}
            /\ at = "keys" => data # NoData
            /\ Put(h, Moved(req[h], at, data)) /\ doubt' = doubt \cup more /\ UNCHANGED <<calls, menu>>
    BY <1>4, <1>6
<1>7. CASE \E more \in SUBSET ({ProjectObject, PluginObject} \cup TokenObjects) :
            /\ At(h, "delete project", "schema") \/ At(h, "delete project", "row")
            /\ Put(h, NoReq) /\ doubt' = doubt \cup more /\ UNCHANGED <<calls, menu>>
    BY <1>4, <1>5, <1>7 DEF At
<1> QED BY <1>1, <1>2, <1>3, <1>6, <1>7 DEF LaterStep

\* Those that unlink files and drop their rows.
LEMMA ErasureKeeps ==
    ASSUME FilesInv, NEW h \in Workers, FileDeletion(h)
    PROVE  FilesInv'
<1> USE DEF Deleting, GoOn
<1>0. "plugins" \in Later /\ "uploads" \in Later /\ "file rows" \notin Later /\ NoData \in DeletionData /\ "plugins" # "keys"
    BY DEF Later, DeletionData
<1>1. CASE DeleteFiles(h) \/ KeepFile(h)
    <2>1. /\ At(h, "delete project", "files") /\ req[h] # NoReq /\ req[h].op = "delete project" /\ req[h].at = "files"
          /\ fileRows' = fileRows
        BY <1>1 DEF DeleteFiles, KeepFile, DropFiles, At
    <2>2. PICK data, some :
            /\ data \in DeletionData
            /\ Put(h, Moved(req[h], "file rows", data)) /\ calls' = calls
            /\ disk' = disk \ (fileRows \ some)
            /\ doubt' = doubt \cup {FileObject(f) : f \in some}
        <3>1. CASE DeleteFiles(h)
            <4>1. req[h].data \in DeletionData
                BY <2>1 DEF FilesInv, FileRequests, DeletionOK
            <4>2. Go(h, "file rows", req[h].data) /\ disk' = disk \ fileRows
                BY <3>1 DEF DeleteFiles, DropFiles
            <4>3. Put(h, Moved(req[h], "file rows", req[h].data)) /\ UNCHANGED <<doubt, calls, menu>>
                BY <2>1, <4>2, GoPuts DEF FilesInv, FileRequests
            <4>4. disk' = disk \ (fileRows \ {}) /\ doubt' = doubt \cup {FileObject(f) : f \in {}}
                BY <4>2, <4>3
            <4> QED BY <4>1, <4>3, <4>4
        <3>2. CASE KeepFile(h)
            <4>1. PICK f \in disk \cap fileRows :
                    disk' = disk \ (fileRows \ {f}) /\ Swallow(h, "file rows", NoData, {FileObject(f)})
                BY <3>2 DEF KeepFile
            <4>2. Put(h, Moved(req[h], "file rows", NoData)) /\ doubt' = doubt \cup {FileObject(f)} /\ UNCHANGED <<calls, menu>>
                BY <2>1, <4>1, GoPuts DEF FilesInv, FileRequests
            <4>3. {FileObject(g) : g \in {f}} = {FileObject(f)}
                OBVIOUS
            <4> QED BY <1>0, <4>1, <4>2, <4>3
        <3> QED BY <1>1, <3>1, <3>2
    <2>3. /\ FileRequests' /\ \A w \in Workers \ {h} : req'[w] = req[w]
          /\ req'[h] # NoReq /\ req'[h].op = "delete project" /\ req'[h].at = "file rows"
        BY <2>1, <2>2, ErasureMoves
    <2>4. ASSUME NEW f \in Files PROVE FileOK(f)'
        <3>1. Removes(h) /\ FileOK(f)
            BY <2>1 DEF Removes, FilesInv
        <3>2. (FileInDoubt(f) => FileInDoubt(f)') /\ (f \in some => FileInDoubt(f)')
            BY <2>2 DEF FileInDoubt
        <3>3. (f \in disk)' => f \in disk /\ (f \notin fileRows \/ f \in some)
            BY <2>2
        <3>4. f \in disk /\ f \notin fileRows => f \in disk'
            BY <2>2
        <3>5. ~FileInDoubt(f)' => f \notin disk'
            <4> SUFFICES ASSUME ~FileInDoubt(f)', f \in disk' PROVE FALSE
                OBVIOUS
            <4>1. f \in disk /\ f \notin fileRows /\ ~FileInDoubt(f)
                BY <3>2, <3>3
            <4>2. PICK w \in Workers : Uploading(w, f)
                BY <3>1, <4>1 DEF FileOK, FileKept
            <4> QED BY <3>1, <4>1, <4>2 DEF FileOK, UploadOK
        <3>6. Erased(f) /\ ErasureOK(h, f)'
            BY <2>1, <2>3, <3>2, <3>3, <3>4, <3>5 DEF Erased, ErasureOK, Removes
        <3> QED BY <2>3, <3>1, <3>5, <3>6, ErasureGoesOn
    <2> QED BY <2>3, <2>4 DEF FilesInv
<1>2. CASE DeleteFileRows(h)
    <2>1. /\ req[h] # NoReq /\ req[h].op = "delete project" /\ req[h].at = "file rows"
          /\ fileRows' = {} /\ disk' = disk /\ Go(h, "plugins", req[h].data)
        BY <1>2 DEF DeleteFileRows, DropFileRows, At
    <2>2. Put(h, Moved(req[h], "plugins", req[h].data)) /\ UNCHANGED <<doubt, calls, menu>>
        BY <2>1, GoPuts DEF FilesInv, FileRequests
    <2>3. req[h].data \in DeletionData
        BY <2>1 DEF FilesInv, FileRequests, DeletionOK
    <2>4. /\ FileRequests' /\ \A w \in Workers \ {h} : req'[w] = req[w]
          /\ req'[h] # NoReq /\ req'[h].op = "delete project" /\ req'[h].at = "plugins"
        BY <1>0, <2>1, <2>2, <2>3, ErasureMoves
    <2>5. ASSUME NEW f \in Files PROVE FileOK(f)'
        <3>1. Removes(h) /\ ErasureOK(h, f) /\ (FileInDoubt(f)' <=> FileInDoubt(f))
            BY <2>1, <2>2 DEF Removes, FilesInv, FileOK, FileInDoubt
        <3>2. ~FileInDoubt(f)' => f \notin disk' /\ f \notin fileRows'
            BY <2>1, <3>1 DEF ErasureOK
        <3>3. Erased(f) /\ ErasureOK(h, f)'
            BY <2>1, <3>1, <3>2 DEF Erased, ErasureOK
        <3> QED BY <2>4, <3>1, <3>2, <3>3, ErasureGoesOn
    <2> QED BY <2>4, <2>5 DEF FilesInv
<1>3. CASE DeleteFilesFail(h)
    <2>1. /\ req[h] # NoReq /\ req[h].op = "delete project" /\ req[h].at \in {"files", "file rows"}
          /\ fileRows' \subseteq fileRows /\ disk' = disk /\ Swallow(h, "plugins", NoData, FileObjects)
        BY <1>3 DEF DeleteFilesFail, At
    <2>2. /\ Put(h, Moved(req[h], "plugins", NoData)) /\ doubt' = doubt \cup FileObjects /\ UNCHANGED <<calls, menu>>
        BY <2>1, GoPuts DEF FilesInv, FileRequests
    <2>3. /\ FileRequests' /\ \A w \in Workers \ {h} : req'[w] = req[w]
          /\ req'[h] # NoReq /\ req'[h].op = "delete project" /\ req'[h].at = "plugins"
        BY <1>0, <2>1, <2>2, ErasureMoves
    <2>4. ASSUME NEW f \in Files PROVE FileOK(f)'
        <3>1. Removes(h) /\ FileInDoubt(f)'
            BY <2>1, <2>2 DEF Removes, FileInDoubt, FileObjects
        <3>2. Erased(f) /\ ErasureOK(h, f)'
            BY <2>1, <3>1 DEF Erased, ErasureOK
        <3> QED BY <2>3, <3>1, <3>2, ErasureGoesOn
    <2> QED BY <2>3, <2>4 DEF FilesInv
<1>4. CASE RemoveUploads(h) \/ RemoveUploadsFails(h)
    <2>1. /\ req[h] # NoReq /\ req[h].op = "delete project" /\ req[h].at = "uploads"
          /\ fileRows' = fileRows /\ disk' \in {disk, {}}
          /\ Finish(h, {ProjectObject}) \/ FinishAnyway(h, {ProjectObject})
        BY <1>4 DEF RemoveUploads, RemoveUploadsFails, DropUploads, fileVars, At
    <2>2. /\ Put(h, NoReq) /\ doubt' = doubt \ ({ProjectObject} \cap req[h].sure) /\ UNCHANGED <<calls, menu>>
        BY <2>1, EndPuts DEF FilesInv, FileRequests
    <2>3. FileRequests' /\ req'[h] = NoReq /\ \A w \in Workers \ {h} : req'[w] = req[w]
        BY <2>1, <2>2, FileEnds DEF FilesInv
    <2>4. ASSUME NEW f \in Files PROVE FileOK(f)'
        <3>1. Removes(h) /\ ErasureOK(h, f) /\ (FileInDoubt(f)' <=> FileInDoubt(f))
            BY <2>1, <2>2 DEF Removes, FilesInv, FileOK, FileInDoubt, FileObject, ProjectObject
        <3>2. ~FileInDoubt(f)' => f \notin disk' /\ f \notin fileRows' /\ f \notin disk
            BY <2>1, <3>1 DEF ErasureOK
        <3>3. Erased(f) /\ ErasureOK(h, f)'
            BY <2>1, <3>1, <3>2 DEF Erased, ErasureOK
        <3> QED BY <2>3, <3>1, <3>2, <3>3, ErasureGoesOn
    <2> QED BY <2>3, <2>4 DEF FilesInv
<1> QED BY <1>1, <1>2, <1>3, <1>4 DEF FileDeletion

\* When the worker stops, every request about a file leaves it in doubt.
LEMMA FilesRestart ==
    ASSUME FilesInv, Restart
    PROVE  FilesInv'
<1>1. /\ RequestsOf(FileWork, FileObjects)' /\ doubt' = (doubt \cup Cut) \ MonObjects
      /\ \A w \in Workers : req'[w] # NoReq => req'[w].op \in {"restore tokens", "start monitors"}
    <2>1. TokenObjects \cap FileObjects = {} /\ MonObjects \cap FileObjects = {}
        BY DEF TokenObjects, TokenObject, MonObjects, MonObject, FileObjects, FileObject
    <2> QED BY <2>1, RestartRequests DEF FilesInv, FileRequests
<1>2. \A w \in Workers : req'[w] # NoReq => FileRequest(req'[w]) /\ DeletionOK(req'[w])
    BY <1>1 DEF FileRequest, DeletionOK
<1>3. ASSUME NEW f \in Files PROVE FileOK(f)'
    <2>1. \A w \in Workers : ~Uploading(w, f)' /\ ~Removing(w, f)' /\ ~Removes(w)'
        BY <1>1 DEF Uploading, Removing, Removes
    <2>2. FileObject(f) \notin MonObjects
        BY DEF FileObject, MonObjects, MonObject
    <2>3. ASSUME NEW w \in Workers, Uploading(w, f) \/ Removing(w, f) \/ Removes(w) PROVE FileInDoubt(f)'
        <3>1. req[w] # NoReq /\ FileRequest(req[w]) /\ DeletionOK(req[w])
            BY <2>3 DEF FilesInv, FileRequests, Uploading, Removing, Removes
        <3>2. FileObject(f) \in CutOff(req[w])
            <4>1. CASE Uploading(w, f) \/ Removing(w, f)
                <5>1. FileObject(f) \in req[w].on /\ req[w].op \in {"upload file", "remove file"}
                    BY <3>1, <4>1 DEF FileRequest, Uploading, Removing
                <5>2. req[w].op \in Operations
                    BY <5>1 DEF Operations
                <5> QED BY <5>1, <5>2, CutOffIs
            <4>2. CASE Removes(w)
                <5>1. req[w].op = "delete project" /\ req[w].op \in Operations
                    BY <4>2 DEF Removes, Operations
                <5>2. FileObject(f) \in FileObjects
                    BY DEF FileObjects
                <5> QED BY <5>1, <5>2, CutOffIs
            <4> QED BY <2>3, <4>1, <4>2
        <3>3. FileObject(f) \in Cut
            BY <3>1, <3>2 DEF Cut
        <3> QED BY <1>1, <2>2, <3>3 DEF FileInDoubt
    <2>4. disk' = disk /\ fileRows' = fileRows /\ (FileInDoubt(f) => FileInDoubt(f)')
        BY <1>1, <2>2 DEF Restart, fileVars, FileInDoubt
    <2>5. FileOK(f)
        BY DEF FilesInv
    <2>6. FileKept(f)'
        <3> SUFFICES ASSUME ~FileInDoubt(f)' PROVE (f \in disk)' <=> (f \in fileRows)'
            BY DEF FileKept
        <3> QED BY <2>3, <2>4, <2>5 DEF FileOK, FileKept
    <2> QED BY <2>1, <2>6 DEF FileOK, UploadOK, RemovalOK, ErasureOK
<1> QED BY <1>1, <1>2, <1>3 DEF FilesInv, FileRequests

\* Every step keeps the invariant.
LEMMA FilesStep ==
    ASSUME FilesInv, [Next]_vars
    PROVE  FilesInv'
<1>1. CASE UNCHANGED vars
    <2>1. /\ UNCHANGED <<req, doubt, calls, disk, fileRows>>
        BY <1>1 DEF vars, baseVars, fileVars
    <2>2. FileRequests'
        BY <2>1 DEF FilesInv, FileRequests, RequestsOf
    <2>3. ASSUME NEW f \in Files PROVE FileOK(f)'
        <3>1. SameFile(f)
            BY <2>1 DEF SameFile, Uploading, Removing, Removes, ForFile, FileInDoubt
        <3> QED BY <3>1, SameFileKeeps DEF FilesInv
    <2> QED BY <2>2, <2>3 DEF FilesInv
<1>2. ASSUME NEW w \in Workers, FileStep(w) PROVE FilesInv'
    <2>1. CASE Upload(w) \/ WriteFile(w) \/ InsertFile(w) \/ UploadFails(w) \/ RemoveFile(w)
        BY <2>1, UploadKeeps, WriteKeeps, UploadEnds, RemoveKeeps
    <2>2. CASE FindFile(w)
        BY <2>2, UnlinkKeeps, RemovalEnds
    <2>3. CASE Unlink(w) \/ UnlinkFails(w)
        BY <2>3, UnlinkKeeps
    <2>4. CASE DeleteFile(w) \/ RemoveFileFails(w)
        <3>1. req'[w] = NoReq
            BY <2>4, EndPuts DEF FilesInv, FileRequests, DeleteFile, RemoveFileFails, Put
        <3> QED BY <2>4, <3>1, RemovalEnds
    <2> QED BY <1>2, <2>1, <2>2, <2>3, <2>4 DEF FileStep
<1>3. ASSUME NEW w \in Workers, Deletion(w) PROVE FilesInv'
    <2>1. CASE (RowDeletion(w) \/ DropSchema(w)) /\ UNCHANGED fileVars
        <3>1. req[w] # NoReq => DeletionOK(req[w])
            BY DEF FilesInv, FileRequests
        <3>2. LaterStep(w)
            BY <2>1, <3>1, DeletionSteps DEF FilesInv, FileRequests
        <3> QED BY <2>1, <3>2, LaterKeeps
    <2> QED BY <1>3, <2>1, ErasureKeeps DEF Deletion, fileVars
<1>4. FileWork = {"upload file", "remove file", "delete project"}
    BY DEF FileWork, FileOps
<1>5. /\ \A x : TokenObject(x) \notin FileObjects /\ PluginObject \notin FileObjects /\ LayoutObject \notin FileObjects
      /\ ProjectObject \notin FileObjects /\ SwitchObject \notin FileObjects
      /\ \A x : SessionObject(x) \notin FileObjects /\ PlayerObject(x) \notin FileObjects
      /\ \A x : MonObject(x) \notin FileObjects
    BY DEF FileObjects, FileObject, TokenObject, PluginObject, LayoutObject, ProjectObject, SwitchObject,
           SessionObject, PlayerObject, MonObject
<1>6. RequestsOf(FileWork, FileObjects)
    BY DEF FilesInv, FileRequests
<1>7. ASSUME NEW w \in Workers, UNCHANGED fileVars,
             TokenStep(w) \/ HookStep(w) \/ MonitorStep(w) \/ StudioStep(w) \/ QuotaStep(w) \/ PlayerStep(w) \/ ProjectStep(w)
      PROVE  FilesInv'
    <2>1. FileWork \cap TokenOps = {} /\ FileWork \cap HookRequests = {} /\ FileWork \cap (MonOps \cup {"start monitors"}) = {}
        BY <1>4 DEF TokenOps, HookRequests, HookOps, MonOps
    <2>2. FileWork \cap StudioOps = {} /\ FileWork \cap QuotaOps = {} /\ FileWork \cap PlayerOps = {} /\ FileWork \cap ProjectOps = {}
        BY <1>4 DEF StudioOps, PluginOps, QuotaOps, PlayerOps, UseOps, ProjectOps
    <2>3. Aside(FileWork, FileObjects)
        BY <1>5, <1>6, <1>7, <2>1, <2>2, TokenStepAside, HookStepAside, MonitorStepAside, StudioStepAside, QuotaStepAside,
           PlayerStepAside, ProjectStepAside
    <2> QED BY <1>7, <2>3, FilesAside
<1>8. ASSUME UNCHANGED fileVars,
             \/ TokenTime \/ Delivery \/ MonitorTimers \/ Counting \/ QuotaTime \/ PlayerTime \/ ForgetProject
             \/ StudioStatement \/ RedisLost
      PROVE  FilesInv'
    <2>1. TokenObjects \cap FileObjects = {}
        BY <1>5 DEF TokenObjects
    <2>2. Aside(FileWork, FileObjects)
        BY <1>5, <1>6, <1>8, <2>1, OthersAside, StatementAside, RedisLostAside
    <2> QED BY <1>8, <2>2, FilesAside
<1>9. RedisLost => UNCHANGED fileVars
    BY DEF RedisLost
<1> QED BY <1>1, <1>2, <1>3, <1>7, <1>8, <1>9, FilesRestart DEF Next

\* It holds when the worker starts.
LEMMA FilesStart ==
    ASSUME Init
    PROVE  FilesInv
<1>1. PICK s \in Scenarios : BaseInit(s) /\ FilesInit(s)
    BY DEF Init
<1>2. req = [w \in Workers |-> NoReq] /\ calls \in Nat /\ disk = fileRows
    BY <1>1, ControlAssumption DEF BaseInit, FilesInit
<1>3. \A w \in Workers : req[w] = NoReq
    BY <1>2
<1>4. FileRequests
    BY <1>2, <1>3 DEF FileRequests, RequestsOf
<1>5. ASSUME NEW f \in Files PROVE FileOK(f)
    BY <1>2, <1>3 DEF FileOK, FileKept, UploadOK, RemovalOK, ErasureOK, Uploading, Removing, Removes
<1> QED BY <1>4, <1>5 DEF FilesInv

\* A file that no request works on and none has left in doubt is on the disk exactly when it has its row.
THEOREM FilesStayTogether == Spec => []FilesAgree
<1>1. FilesInv => FilesAgree
    <2> SUFFICES ASSUME FilesInv, NEW f \in Files, Idle(FileObject(f)), ~FileInDoubt(f)
                 PROVE  f \in disk <=> f \in fileRows
        BY DEF FilesAgree, FileInDoubt
    <2>1. \A w \in Workers : req[w] # NoReq => FileObject(f) \notin req[w].on
        BY DEF Idle, Busy
    <2>2. FileObject(f) \in Deleted
        BY DEF Deleted, FileObjects
    <2>3. \A w \in Workers : ~Uploading(w, f) /\ ~Removing(w, f) /\ ~Removes(w)
        BY <2>1, <2>2 DEF FilesInv, FileRequests, FileRequest, DeletionOK, Uploading, Removing, Removes
    <2> QED BY <2>3 DEF FilesInv, FileOK, FileKept
<1> QED BY <1>1, FilesStart, FilesStep, PTL DEF Spec

----------------------------------------------------------------------------
(***************************************************************************)
(* The layout of the table of webhooks.  One request at most is between    *)
(* the two layouts, where its await says it is, or one has left it there   *)
(* in doubt; and every webhook has its tables' names from the second on.   *)
(***************************************************************************)
LayoutSet == {LayoutObject}
MovesLayout(w) == Ours(HookOps, w) /\ req[w].at \in {"fill column", "drop column"}
LayoutRequest(w) ==
    Ours(HookOps, w) =>
        /\ req[w].on = {LayoutObject} /\ req[w].data = NoData
        /\ req[w].at \in {"has column", "add column", "fill column", "drop column", "work"}
        /\ req[w].at = "fill column" => layout = "added"
        /\ req[w].at = "drop column" => layout = "filled"
Named == \A k \in Hooks : hooks[k].there => hooks[k].named
LayoutKept ==
    /\ layout \in {"old", "added", "filled", "new"} /\ hooks \in [Hooks -> HookRow]
    /\ layout \in {"filled", "new"} => Named
    /\ LayoutObject \notin doubt => layout \in {"old", "new"} \/ \E w \in Workers : MovesLayout(w)
LayoutInv ==
    /\ TypedRequests(HookOps, LayoutSet)
    /\ LayoutKept
    /\ \A w \in Workers : LayoutRequest(w)
    /\ \A w \in Workers, x \in Workers : MovesLayout(w) /\ MovesLayout(x) => w = x

\* A row of a webhook that is gone.
LEMMA GoneHookIs ==
    ASSUME NEW r \in HookRow
    PROVE  GoneHook(r) \in HookRow /\ ~GoneHook(r).there
BY DEF GoneHook, NoHook, HookRow

\* What a step leaves of the table that changes neither its layout nor its requests.
HooksStay ==
    /\ hooks' \in [Hooks -> HookRow]
    /\ \A k \in Hooks :
        hooks'[k].there => hooks'[k].named \/ ((hooks[k].named => hooks'[k].named) /\ hooks[k].there)

\* The webhooks of a project that is deleted, and every other step that leaves them.
LEMMA HooksGoneStay ==
    ASSUME hooks \in [Hooks -> HookRow], HooksGone \/ UNCHANGED hooks
    PROVE  HooksStay
<1>1. CASE HooksGone
    <2>1. hooks' = [k \in Hooks |-> GoneHook(hooks[k])]
        BY <1>1 DEF HooksGone
    <2>2. \A k \in Hooks : GoneHook(hooks[k]) \in HookRow /\ ~GoneHook(hooks[k]).there
        BY GoneHookIs
    <2> QED BY <2>1, <2>2 DEF HooksStay
<1>2. CASE UNCHANGED hooks
    BY <1>2 DEF HooksStay
<1> QED BY <1>1, <1>2

\* A step with requests that stay.
LEMMA LayoutStays ==
    ASSUME LayoutInv, TypedRequests(HookOps, LayoutSet)', \A w \in Workers : Stays(HookOps, w),
           LayoutObject \in doubt' <=> LayoutObject \in doubt, layout' = layout, HooksStay
    PROVE  LayoutInv'
<1>1. ASSUME NEW w \in Workers
      PROVE  LayoutRequest(w)' /\ (MovesLayout(w)' <=> MovesLayout(w))
    <2>1. LayoutRequest(w) /\ Stays(HookOps, w)
        BY DEF LayoutInv
    <2> QED BY <2>1 DEF LayoutRequest, MovesLayout, Stays
<1>2. LayoutKept'
    BY <1>1 DEF LayoutInv, LayoutKept, Named, HooksStay
<1> QED BY <1>1, <1>2 DEF LayoutInv

\* A step aside.
LEMMA LayoutAside ==
    ASSUME LayoutInv, Aside(HookOps, LayoutSet), layout' = layout, HooksStay
    PROVE  LayoutInv'
<1>1. TypedRequests(HookOps, LayoutSet)' /\ \A w \in Workers : Stays(HookOps, w)
    BY AsideStays DEF LayoutInv
<1>2. LayoutObject \in doubt' <=> LayoutObject \in doubt
    BY DEF Aside, LayoutSet
<1> QED BY <1>1, <1>2, LayoutStays

\* A request for the webhooks arrives.
LEMMA LayoutArrives ==
    ASSUME LayoutInv, NEW h \in Workers, NEW op \in HookOps, HookRequest(h, op), UNCHANGED <<layout, hooks>>
    PROVE  LayoutInv'
<1>1. Arrived(h, op, {LayoutObject}, "has column", NoData)
    BY CalledArrives DEF HookRequest, BeginIn, LayoutInv, TypedRequests
<1>2. op \in Operations /\ {LayoutObject} \subseteq Objects /\ "has column" \in Awaits /\ NoData \in RequestData
    BY DEF Operations, HookOps, Objects, Awaits, RequestData
<1>3. /\ TypedRequests(HookOps, LayoutSet)' /\ ~Ours(HookOps, h)
      /\ req'[h].on = {LayoutObject} /\ req'[h].at = "has column" /\ req'[h].data = NoData
      /\ \A w \in Workers \ {h} : Stays(HookOps, w)
    <2>1. TypedRequests(HookOps, LayoutSet) /\ op \in HookOps
        BY DEF LayoutInv
    <2>2. PICK o, on, at : o = op /\ on = {LayoutObject} /\ at = "has column"
        OBVIOUS
    <2>3. /\ TypedRequests(HookOps, LayoutSet)' /\ ~Ours(HookOps, h)
          /\ req'[h].on = on /\ req'[h].at = at /\ req'[h].data = NoData
          /\ \A w \in Workers \ {h} : Stays(HookOps, w)
        <3>1. Arrived(h, o, on, at, NoData) /\ NoData \in RequestData /\ o \in HookOps /\ o \in Operations /\ on \subseteq Objects /\ at \in Awaits
            BY <1>1, <1>2, <2>1, <2>2
        <3> QED BY ONLY <2>1, <3>1, h \in Workers, ArrivedStays
    <2> QED BY <2>2, <2>3
<1>4. LayoutObject \in doubt' => LayoutObject \in doubt
    <2>1. \A w \in Workers : {req[w].op, op} \notin Conflicts
        <3>1. ASSUME NEW a, NEW b, {a, b} \in Conflicts PROVE b \notin HookOps
            BY <3>1 DEF Conflicts, HookOps
        <3> QED BY <3>1
    <2>2. Hit(op, {LayoutObject}) = {}
        BY <2>1 DEF Hit, Disturbed, Busy
    <2> QED BY <1>1, <2>2 DEF Arrived
<1>5. ~MovesLayout(h) /\ ~MovesLayout(h)' /\ LayoutRequest(h)'
    BY <1>3 DEF MovesLayout, LayoutRequest
<1>6. ASSUME NEW w \in Workers \ {h}
      PROVE  LayoutRequest(w)' /\ (MovesLayout(w)' <=> MovesLayout(w))
    <2>1. LayoutRequest(w) /\ Stays(HookOps, w)
        BY <1>3 DEF LayoutInv
    <2> QED BY <2>1 DEF LayoutRequest, MovesLayout, Stays
<1>7. LayoutKept'
    BY <1>4, <1>1, <1>5, <1>6 DEF LayoutInv, LayoutKept, Named, Arrived
<1> QED BY <1>3, <1>5, <1>6, <1>7 DEF LayoutInv

\* One that moves on without touching the layout,
LEMMA LayoutMoves ==
    ASSUME LayoutInv, NEW h \in Workers, Ours(HookOps, h), NEW at, at \in {"add column", "work"},
           Go(h, at, req[h].data), ~MovesLayout(h), UNCHANGED <<layout, hooks>>
    PROVE  LayoutInv'
<1>1. Put(h, Moved(req[h], at, req[h].data)) /\ UNCHANGED <<doubt, calls, menu>>
    BY GoPuts DEF LayoutInv, TypedRequests, Ours
<1>2. at \in Awaits /\ req[h].data \in RequestData
    BY DEF LayoutInv, TypedRequests, Typed, Awaits
<1>3. /\ TypedRequests(HookOps, LayoutSet)'
      /\ req'[h].on = req[h].on /\ req'[h].at = at /\ req'[h].data = req[h].data
      /\ \A w \in Workers \ {h} : req'[w] = req[w]
    <2>1. TypedRequests(HookOps, LayoutSet) /\ Ours(HookOps, h) /\ calls' = calls
        BY <1>1 DEF LayoutInv
    <2> QED BY ONLY <1>1, <1>2, <2>1, h \in Workers, MovedStays
<1>4. ~MovesLayout(h)' /\ LayoutRequest(h)'
    BY <1>3 DEF MovesLayout, LayoutRequest, LayoutInv
<1>5. ASSUME NEW w \in Workers \ {h}
      PROVE  LayoutRequest(w)' /\ (MovesLayout(w)' <=> MovesLayout(w))
    <2>1. LayoutRequest(w) /\ Stays(HookOps, w)
        BY <1>3, SameStays DEF LayoutInv
    <2> QED BY <2>1 DEF LayoutRequest, MovesLayout, Stays
<1>6. LayoutKept'
    BY <1>1, <1>4, <1>5 DEF LayoutInv, LayoutKept, Named
<1> QED BY <1>3, <1>4, <1>5, <1>6 DEF LayoutInv

\* or ends, leaving the layout in doubt when it was on its way between the two;
LEMMA LayoutEnds ==
    ASSUME LayoutInv, NEW h \in Workers, Put(h, NoReq), calls' = calls,
           doubt' = doubt \/ doubt' = doubt \cup {LayoutObject},
           MovesLayout(h) => LayoutObject \in doubt', layout' = layout,
           hooks' \in [Hooks -> HookRow], Named => Named'
    PROVE  LayoutInv'
<1>1. TypedRequests(HookOps, LayoutSet)' /\ ~Ours(HookOps, h)' /\ \A w \in Workers \ {h} : req'[w] = req[w]
    BY EndedStays DEF LayoutInv
<1>2. ~MovesLayout(h)' /\ LayoutRequest(h)'
    BY <1>1 DEF MovesLayout, LayoutRequest
<1>3. ASSUME NEW w \in Workers \ {h}
      PROVE  LayoutRequest(w)' /\ (MovesLayout(w)' <=> MovesLayout(w))
    <2>1. LayoutRequest(w) /\ Stays(HookOps, w)
        BY <1>1, SameStays DEF LayoutInv
    <2> QED BY <2>1 DEF LayoutRequest, MovesLayout, Stays
<1>4. LayoutKept'
    BY <1>2, <1>3 DEF LayoutInv, LayoutKept
<1> QED BY <1>1, <1>2, <1>3, <1>4 DEF LayoutInv

\* and the three statements that move the layout, of which the first is made by one request only.
LEMMA LayoutChanges ==
    ASSUME LayoutInv, NEW h \in Workers, AddColumn(h) \/ FillColumn(h) \/ DropColumn(h)
    PROVE  LayoutInv'
<1>1. PICK at :
            /\ at \in {"fill column", "drop column", "work"}
            /\ Go(h, at, req[h].data) /\ Ours(HookOps, h)
            /\ \/ /\ req[h].at = "add column" /\ at = "fill column" /\ layout = "old" /\ layout' = "added"
                  /\ hooks' = hooks
               \/ /\ req[h].at = "fill column" /\ at = "drop column" /\ layout' = "filled"
                  /\ hooks' = [k \in Hooks |-> [hooks[k] EXCEPT !.named = hooks[k].there]]
               \/ /\ req[h].at = "drop column" /\ at = "work" /\ layout' = "new" /\ hooks' = hooks
    BY DEF AddColumn, FillColumn, DropColumn, InHookOp, At, GoOn, Ours, Unlaid
<1>2. Put(h, Moved(req[h], at, req[h].data)) /\ UNCHANGED <<doubt, calls, menu>>
    BY <1>1, GoPuts DEF LayoutInv, TypedRequests, Ours
<1>3. at \in Awaits /\ req[h].data \in RequestData
    BY <1>1 DEF LayoutInv, TypedRequests, Typed, Awaits
<1>4. /\ TypedRequests(HookOps, LayoutSet)' /\ Ours(HookOps, h)'
      /\ req'[h].on = req[h].on /\ req'[h].at = at /\ req'[h].data = req[h].data
      /\ \A w \in Workers \ {h} : req'[w] = req[w]
    <2>1. TypedRequests(HookOps, LayoutSet) /\ Ours(HookOps, h) /\ calls' = calls
        BY <1>1, <1>2 DEF LayoutInv
    <2> QED BY ONLY <1>2, <1>3, <2>1, h \in Workers, MovedStays
<1>5. ASSUME NEW w \in Workers \ {h} PROVE ~MovesLayout(w) /\ ~MovesLayout(w)'
    <2>1. ~MovesLayout(w)
        <3>1. CASE MovesLayout(h)
            BY <3>1 DEF LayoutInv
        <3>2. CASE ~MovesLayout(h)
            <4>1. layout = "old"
                BY <1>1, <3>2 DEF MovesLayout
            <4> QED BY <4>1 DEF LayoutInv, LayoutRequest, MovesLayout
        <3> QED BY <3>1, <3>2
    <2> QED BY <1>4, <2>1 DEF MovesLayout, Ours
<1>6. ASSUME NEW w \in Workers \ {h} PROVE LayoutRequest(w)'
    <2>1. LayoutRequest(w) /\ req'[w] = req[w]
        BY <1>4 DEF LayoutInv
    <2> QED BY <1>5, <2>1 DEF LayoutRequest, MovesLayout, Ours
<1>7. LayoutRequest(h) /\ LayoutKept
    BY DEF LayoutInv
<1>8. LayoutRequest(h)'
    BY <1>1, <1>4, <1>7 DEF LayoutRequest
<1>9. hooks' \in [Hooks -> HookRow]
    <2>1. \A k \in Hooks : hooks[k] \in HookRow /\ hooks[k].there \in BOOLEAN
        BY <1>7 DEF LayoutKept, HookRow
    <2>2. \A k \in Hooks : [hooks[k] EXCEPT !.named = hooks[k].there] \in HookRow
        BY <2>1 DEF HookRow
    <2> QED BY <1>1, <1>7, <2>2 DEF LayoutKept
<1>10. layout' \in {"filled", "new"} => Named'
    <2>1. CASE hooks' = [k \in Hooks |-> [hooks[k] EXCEPT !.named = hooks[k].there]]
        <3>1. \A k \in Hooks : hooks[k] \in HookRow
            BY <1>7 DEF LayoutKept
        <3>2. \A r \in HookRow : [r EXCEPT !.named = r.there].named = r.there /\ [r EXCEPT !.named = r.there].there = r.there
            BY DEF HookRow
        <3> QED BY <2>1, <3>1, <3>2 DEF Named
    <2>2. CASE hooks' = hooks
        <3>1. layout = "filled" \/ layout' \notin {"filled", "new"} \/ hooks' # hooks \/ req[h].at = "fill column"
            BY <1>1, <1>7 DEF LayoutRequest
        <3>2. CASE layout = "filled"
            BY <1>7, <2>2, <3>2 DEF LayoutKept, Named
        <3>3. CASE req[h].at = "fill column"
            BY <1>1, <2>1, <3>3
        <3> QED BY <2>2, <3>1, <3>2, <3>3
    <2> QED BY <1>1, <2>1, <2>2
<1>11. layout' \in {"old", "new"} \/ MovesLayout(h)'
    BY <1>1, <1>4 DEF MovesLayout
<1>12. LayoutKept'
    BY <1>1, <1>9, <1>10, <1>11 DEF LayoutKept
<1> QED BY <1>4, <1>5, <1>6, <1>8, <1>12 DEF LayoutInv

\* The statement of the request itself.
LEMMA LayoutWorks ==
    ASSUME LayoutInv, NEW h \in Workers, InsertHook(h) \/ UpdateHook(h) \/ ReadHooks(h)
    PROVE  LayoutInv'
<1>1. Finish(h, {}) /\ layout' = layout /\ req[h].at = "work"
    BY DEF InsertHook, UpdateHook, ReadHooks, At, hookVars
<1>2. Put(h, NoReq) /\ doubt' = doubt /\ calls' = calls
    <2>1. Put(h, NoReq) /\ doubt' = doubt \ ({} \cap req[h].sure) /\ calls' = calls
        BY <1>1, EndPuts DEF LayoutInv, TypedRequests
    <2> QED BY <2>1
<1>3. ~MovesLayout(h)
    BY <1>1 DEF MovesLayout
<1>4. hooks \in [Hooks -> HookRow]
    BY DEF LayoutInv, LayoutKept
<1>5. hooks' \in [Hooks -> HookRow] /\ (Named => Named')
    <2>1. CASE hooks' = hooks
        BY <1>4, <2>1 DEF Named
    <2>2. ASSUME NEW k \in Hooks, NEW new \in HookRow, hooks' = [hooks EXCEPT ![k] = new],
                 new.there => new.named \/ (hooks[k].there /\ new.named = hooks[k].named)
          PROVE  hooks' \in [Hooks -> HookRow] /\ (Named => Named')
        BY <1>4, <2>2 DEF Named
    <2>3. CASE InsertHook(h) /\ hooks' # hooks
        <3>1. PICK k \in Hooks, on \in BOOLEAN, retries \in 0 .. MaxRetries :
                hooks' = [hooks EXCEPT ![k] = [there |-> TRUE, gone |-> FALSE, active |-> on,
                                               named |-> TRUE, retries |-> retries]]
            BY <2>3 DEF InsertHook
        <3>2. PICK new : new = [there |-> TRUE, gone |-> FALSE, active |-> on, named |-> TRUE, retries |-> retries]
            OBVIOUS
        <3>3. new \in HookRow /\ new.named
            BY <3>2, HooksAssumption DEF HookRow
        <3> QED BY <2>2, <3>1, <3>2, <3>3
    <2>4. CASE UpdateHook(h) /\ hooks' # hooks
        <3>1. PICK k \in Hooks, on \in BOOLEAN, retries \in 0 .. MaxRetries :
                hooks' = IF hooks[k].there
                         THEN [hooks EXCEPT ![k] = [@ EXCEPT !.active = on, !.retries = retries]]
                         ELSE hooks
            BY <2>4 DEF UpdateHook
        <3>2. PICK new : new = [hooks[k] EXCEPT !.active = on, !.retries = retries]
            OBVIOUS
        <3>3. hooks[k].there /\ hooks' = [hooks EXCEPT ![k] = new]
            BY <2>4, <3>1, <3>2
        <3>4. retries \in Nat /\ hooks[k] \in HookRow
            BY <1>4, HooksAssumption
        <3>5. new \in HookRow /\ new.named = hooks[k].named
            BY <3>2, <3>4 DEF HookRow
        <3> QED BY <2>2, <3>3, <3>5
    <2>5. CASE ReadHooks(h)
        BY <2>1, <2>5 DEF ReadHooks, hookVars
    <2> QED BY <2>1, <2>3, <2>4, <2>5
<1> QED BY <1>1, <1>2, <1>3, <1>5, LayoutEnds

\* A request that removes a webhook has nothing to do with the layout.
LEMMA RemovalAside ==
    ASSUME LayoutInv, NEW h \in Workers,
           RemoveHook(h) \/ DeleteLogs(h) \/ DeleteHook(h) \/ RestoreHooks(h) \/ ReplaceHooks(h)
    PROVE  LayoutInv'
<1>1. /\ RequestsOf(HookOps, LayoutSet) /\ hooks \in [Hooks -> HookRow]
      /\ "remove hook" \notin HookOps /\ "restore hooks" \notin HookOps
    BY DEF LayoutInv, TypedRequests, LayoutKept, HookOps
<1>2. layout' = layout
    BY DEF RemoveHook, DeleteLogs, DeleteHook, RestoreHooks, ReplaceHooks, hookVars
<1>3. Aside(HookOps, LayoutSet)
    <2>1. CASE RemoveHook(h)
        <3>1. PICK data : BeginIn("projects", h, "remove hook", {}, "logs", data)
            BY <2>1 DEF RemoveHook
        <3>2. RequestsOf(HookOps, LayoutSet) /\ "remove hook" \notin HookOps /\ {} \cap LayoutSet = {}
            BY <1>1
        <3> QED BY <3>1, <3>2, BeginInAside
    <2>2. CASE DeleteLogs(h)
        <3>1. req[h] # NoReq /\ req[h].op \notin HookOps /\ Go(h, "row", req[h].data)
            BY <1>1, <2>2 DEF DeleteLogs, At, GoOn
        <3> QED BY <1>1, <3>1, GoAside
    <2>3. CASE DeleteHook(h) \/ ReplaceHooks(h)
        <3>1. req[h] # NoReq /\ req[h].op \notin HookOps /\ Finish(h, {})
            BY <1>1, <2>3 DEF DeleteHook, ReplaceHooks, At
        <3> QED BY <1>1, <3>1, FinishAside
    <2>4. CASE RestoreHooks(h)
        <3>1. BeginIn("projects", h, "restore hooks", {}, "row", NoData)
            BY <2>4 DEF RestoreHooks
        <3>2. RequestsOf(HookOps, LayoutSet) /\ "restore hooks" \notin HookOps /\ {} \cap LayoutSet = {}
            BY <1>1
        <3> QED BY <3>1, <3>2, BeginInAside
    <2> QED BY <2>1, <2>2, <2>3, <2>4
<1>4. HooksStay
    <2>1. CASE hooks' = hooks
        BY <1>1, <2>1, HooksGoneStay
    <2>2. CASE DeleteHook(h)
        <3>1. PICK k : hooks' = [hooks EXCEPT ![k] = GoneHook(@)]
            BY <2>2 DEF DeleteHook
        <3>2. \A i \in Hooks : GoneHook(hooks[i]) \in HookRow /\ ~GoneHook(hooks[i]).there
            BY <1>1, GoneHookIs
        <3> QED BY <1>1, <3>1, <3>2 DEF HooksStay
    <2>3. CASE ReplaceHooks(h) /\ hooks' # hooks
        <3>1. PICK saved \in [Hooks -> SavedHook] :
                hooks' = [k \in Hooks |-> IF saved[k].there THEN saved[k] ELSE GoneHook(hooks[k])]
            BY <2>3 DEF ReplaceHooks
        <3>2. \A i \in Hooks : GoneHook(hooks[i]) \in HookRow /\ ~GoneHook(hooks[i]).there
            BY <1>1, GoneHookIs
        <3>3. \A i \in Hooks : saved[i] \in HookRow /\ (saved[i].there => saved[i].named)
            <4>1. NoHook \in HookRow /\ ~NoHook.there
                BY DEF HookRow, NoHook
            <4>2. ASSUME NEW r \in [there : {TRUE}, gone : {TRUE}, active : BOOLEAN, named : {TRUE}, retries : 0 .. MaxRetries]
                  PROVE  r \in HookRow /\ r.named
                <5>1. 0 .. MaxRetries \subseteq Nat
                    BY HooksAssumption
                <5>2. PICK R : R = 0 .. MaxRetries
                    OBVIOUS
                <5>3. r \in [there : {TRUE}, gone : {TRUE}, active : BOOLEAN, named : {TRUE}, retries : R] /\ R \subseteq Nat
                    BY <4>2, <5>1, <5>2
                <5> QED BY <5>3 DEF HookRow
            <4>3. ASSUME NEW r \in SavedHook PROVE r \in HookRow /\ (r.there => r.named)
                BY <4>1, <4>2 DEF SavedHook
            <4> QED BY <4>3
        <3> QED BY <3>1, <3>2, <3>3 DEF HooksStay
    <2> QED BY <2>1, <2>2, <2>3 DEF RemoveHook, DeleteLogs, RestoreHooks, hookVars
<1> QED BY <1>2, <1>3, <1>4, LayoutAside

\* A step of a webhook's request.
LEMMA HookStepKeeps ==
    ASSUME LayoutInv, NEW h \in Workers, HookStep(h)
    PROVE  LayoutInv'
<1>1. CASE AddHook(h) \/ ChangeHook(h) \/ ListHooks(h)
    BY <1>1, LayoutArrives DEF AddHook, ChangeHook, ListHooks, HookOps, hookVars
<1>2. CASE HasColumn(h)
    <2>1. PICK at : /\ at \in {"add column", "work"} /\ Go(h, at, req[h].data) /\ Ours(HookOps, h)
                    /\ ~MovesLayout(h) /\ UNCHANGED <<layout, hooks>>
        BY <1>2 DEF HasColumn, InHookOp, At, GoOn, Ours, MovesLayout, hookVars
    <2> QED BY <2>1, LayoutMoves
<1>3. CASE AddColumnRefused(h) \/ HookStepFails(h)
    <2>1. /\ Put(h, NoReq) /\ calls' = calls
          /\ doubt' = doubt \/ doubt' = doubt \cup {LayoutObject}
          /\ MovesLayout(h) => doubt' = doubt \cup {LayoutObject}
        <3>1. CASE AddColumnRefused(h)
            <4>1. Finish(h, {}) /\ ~MovesLayout(h)
                BY <3>1 DEF AddColumnRefused, InHookOp, At, MovesLayout
            <4>2. Put(h, NoReq) /\ doubt' = doubt \ ({} \cap req[h].sure) /\ calls' = calls
                BY <4>1, EndPuts DEF LayoutInv, TypedRequests
            <4> QED BY <4>1, <4>2
        <3>2. CASE HookStepFails(h)
            <4>1. PICK more : /\ more = IF req[h].at \in {"fill column", "drop column"} THEN {LayoutObject} ELSE {}
                              /\ Fail(h, more)
                BY <3>2 DEF HookStepFails
            <4>2. Put(h, NoReq) /\ doubt' = doubt \cup more /\ calls' = calls
                BY <4>1, EndPuts DEF LayoutInv, TypedRequests
            <4> QED BY <4>1, <4>2 DEF MovesLayout
        <3> QED BY <1>3, <3>1, <3>2
    <2>2. layout' = layout /\ hooks' = hooks /\ hooks \in [Hooks -> HookRow]
        BY <1>3 DEF AddColumnRefused, HookStepFails, hookVars, LayoutInv, LayoutKept
    <2> QED BY <2>1, <2>2, LayoutEnds DEF Named
<1> QED BY <1>1, <1>2, <1>3, LayoutChanges, LayoutWorks, RemovalAside DEF HookStep

\* When the worker stops, a request that moves the layout leaves it in doubt.
LEMMA LayoutRestart ==
    ASSUME LayoutInv, Restart
    PROVE  LayoutInv'
<1>1. /\ TypedRequests(HookOps, LayoutSet)' /\ doubt' = (doubt \cup Cut) \ MonObjects
      /\ \A w \in Workers : ~Ours(HookOps, w)'
    <2>1. TokenObjects \cap LayoutSet = {} /\ MonObjects \cap LayoutSet = {}
        BY DEF TokenObjects, TokenObject, MonObjects, MonObject, LayoutSet, LayoutObject
    <2>2. "restore tokens" \notin HookOps /\ "start monitors" \notin HookOps
        BY DEF HookOps
    <2> QED BY <2>1, <2>2, RestartStays DEF LayoutInv, Ours
<1>2. layout' = layout /\ hooks' = hooks
    BY DEF Restart, DeliveriesEnd
<1>3. LayoutObject \notin MonObjects
    BY DEF LayoutObject, MonObjects, MonObject
<1>4. ASSUME NEW w \in Workers, MovesLayout(w) PROVE LayoutObject \in doubt'
    <2>1. req[w] # NoReq /\ req[w].op \in HookOps /\ req[w].at \in {"fill column", "drop column"}
        BY <1>4 DEF MovesLayout, Ours
    <2>2. req[w].op \in Operations
        BY <2>1 DEF Operations
    <2>3. LayoutObject \in CutOff(req[w])
        BY <2>1, <2>2, CutOffIs
    <2>4. LayoutObject \in Cut
        BY <2>1, <2>3, CutOffDoubts
    <2> QED BY <1>1, <1>3, <2>4
<1>5. LayoutKept'
    <2>1. LayoutObject \in doubt => LayoutObject \in doubt'
        BY <1>1, <1>3
    <2> QED BY <1>2, <1>4, <2>1 DEF LayoutInv, LayoutKept, Named
<1>6. \A w \in Workers : LayoutRequest(w)' /\ ~MovesLayout(w)'
    BY <1>1 DEF LayoutRequest, MovesLayout
<1> QED BY <1>1, <1>5, <1>6 DEF LayoutInv

\* Every step keeps the invariant.
LEMMA LayoutStep ==
    ASSUME LayoutInv, [Next]_vars
    PROVE  LayoutInv'
<1>1. hooks \in [Hooks -> HookRow] /\ RequestsOf(HookOps, LayoutSet)
    BY DEF LayoutInv, LayoutKept, TypedRequests
<1>2. CASE UNCHANGED vars
    <2>1. UNCHANGED <<req, doubt, calls, hooks, layout>>
        BY <1>2 DEF vars, baseVars, hookVars
    <2>2. HooksStay
        BY <1>1, <2>1, HooksGoneStay
    <2>3. TypedRequests(HookOps, LayoutSet)' /\ \A w \in Workers : Stays(HookOps, w)
        BY <2>1, UnchangedStays DEF LayoutInv
    <2> QED BY <2>1, <2>2, <2>3, LayoutStays
<1>3. /\ \A x : TokenObject(x) \notin LayoutSet /\ SessionObject(x) \notin LayoutSet /\ FileObject(x) \notin LayoutSet
      /\ \A x : PlayerObject(x) \notin LayoutSet /\ MonObject(x) \notin LayoutSet
      /\ PluginObject \notin LayoutSet /\ ProjectObject \notin LayoutSet /\ SwitchObject \notin LayoutSet
    BY DEF LayoutSet, LayoutObject, TokenObject, SessionObject, FileObject, PlayerObject, MonObject, PluginObject,
           ProjectObject, SwitchObject
<1>4. ASSUME NEW w \in Workers, UNCHANGED hookVars,
             TokenStep(w) \/ MonitorStep(w) \/ StudioStep(w) \/ FileStep(w) \/ QuotaStep(w) \/ PlayerStep(w) \/ ProjectStep(w)
      PROVE  LayoutInv'
    <2>1. HookOps \cap TokenOps = {} /\ HookOps \cap FileOps = {} /\ HookOps \cap (MonOps \cup {"start monitors"}) = {}
        BY DEF HookOps, TokenOps, FileOps, MonOps
    <2>2. HookOps \cap StudioOps = {} /\ HookOps \cap QuotaOps = {} /\ HookOps \cap PlayerOps = {} /\ HookOps \cap ProjectOps = {}
        BY DEF HookOps, StudioOps, PluginOps, QuotaOps, PlayerOps, UseOps, ProjectOps
    <2>3. Aside(HookOps, LayoutSet)
        BY <1>1, <1>3, <1>4, <2>1, <2>2, TokenStepAside, MonitorStepAside, StudioStepAside, FileStepAside, QuotaStepAside,
           PlayerStepAside, ProjectStepAside
    <2>4. HooksStay /\ layout' = layout
        BY <1>1, <1>4, HooksGoneStay DEF hookVars
    <2> QED BY <2>3, <2>4, LayoutAside
<1>5. ASSUME NEW w \in Workers, Deletion(w) PROVE LayoutInv'
    <2>1. "delete project" \notin HookOps
        BY DEF HookOps
    <2>2. Deleted \cap LayoutSet = {}
        BY <1>3 DEF Deleted, TokenObjects, SessionObjects, FileObjects
    <2>3. Aside(HookOps, LayoutSet)
        BY <1>1, <1>3, <1>5, <2>1, <2>2, DeletionAside
    <2>4. layout' = layout /\ (HooksGone \/ UNCHANGED hooks)
        <3>1. CASE RowDeletion(w)
            BY <3>1 DEF RowDeletion, DeleteProject, FindProject, DeletePlugins, DeleteRawLogs, DeleteHooks, DeleteTokenRows,
                   PluckHashes, DeleteKey, DeleteStepFails, DeleteKeysFail, DeleteRow, DeleteFails, HooksGone, hookVars
        <3>2. CASE DropSchema(w) \/ UNCHANGED hookVars
            BY <3>2 DEF DropSchema, hookVars
        <3> QED BY <1>5, <3>1, <3>2 DEF Deletion
    <2>5. HooksStay
        BY <1>1, <2>4, HooksGoneStay
    <2> QED BY <2>3, <2>4, <2>5, LayoutAside
<1>6. ASSUME UNCHANGED <<layout, hooks>>,
             \/ TokenTime \/ Delivery \/ MonitorTimers \/ Counting \/ QuotaTime \/ PlayerTime \/ ForgetProject
             \/ StudioStatement \/ RedisLost
      PROVE  LayoutInv'
    <2>1. TokenObjects \cap LayoutSet = {}
        BY <1>3 DEF TokenObjects
    <2>2. Aside(HookOps, LayoutSet)
        BY <1>1, <1>3, <1>6, <2>1, OthersAside, StatementAside, RedisLostAside
    <2>3. HooksStay
        BY <1>1, <1>6, HooksGoneStay
    <2> QED BY <1>6, <2>2, <2>3, LayoutAside
<1>7. Delivery => UNCHANGED <<layout, hooks>>
    BY DEF Delivery, Announce, LookUp, LookUpFails, Deliver, Send, LogAttempt, LogFails, LogError, LogErrorFails
<1>8. RedisLost => UNCHANGED <<layout, hooks>>
    BY DEF RedisLost, hookVars
<1>9. UNCHANGED hookVars => UNCHANGED <<layout, hooks>>
    BY DEF hookVars
<1> QED BY <1>2, <1>4, <1>5, <1>6, <1>7, <1>8, <1>9, HookStepKeeps, LayoutRestart DEF Next

\* It holds when the worker starts.
LEMMA LayoutStart ==
    ASSUME Init
    PROVE  LayoutInv
<1>1. PICK s \in Scenarios : HooksInit(s)
    BY DEF Init
<1>2. /\ layout \in {"old", "new"} /\ hooks \in [Hooks -> HookRow]
      /\ layout \in {"filled", "new"} => Named
    BY <1>1, HooksAssumption DEF HooksInit, Named
<1>3. TypedRequests(HookOps, LayoutSet) /\ \A w \in Workers : ~Ours(HookOps, w)
    BY NoneOurs
<1> QED BY <1>2, <1>3 DEF LayoutInv, LayoutKept, LayoutRequest, MovesLayout

\* The table of webhooks is between its layouts only when a migration failed, and in the new
\* one has the names of every webhook's tables.
THEOREM LayoutMovesAsAWhole == Spec => []LayoutAgrees
<1>1. LayoutInv => LayoutAgrees
    <2> SUFFICES ASSUME LayoutInv PROVE LayoutAgrees
        OBVIOUS
    <2>1. ASSUME Idle(LayoutObject), LayoutObject \notin doubt PROVE layout \in {"old", "new"}
        <3>1. \A w \in Workers : req[w] # NoReq => LayoutObject \notin req[w].on
            BY <2>1 DEF Idle, Busy
        <3>2. \A w \in Workers : ~MovesLayout(w)
            BY <3>1 DEF LayoutInv, LayoutRequest, MovesLayout, Ours
        <3> QED BY <2>1, <3>2 DEF LayoutInv, LayoutKept
    <2> QED BY <2>1 DEF LayoutAgrees, LayoutInv, LayoutKept, Named
<1> QED BY <1>1, LayoutStart, LayoutStep, PTL DEF Spec

----------------------------------------------------------------------------
(***************************************************************************)
(* Quotas.  An answer of the control plane that has not been kept yet is   *)
(* its limit, unless a notice has come since it was asked or is still to   *)
(* come; no limit held anywhere is above the highest; and a request waits  *)
(* for one that fetches.                                                   *)
(***************************************************************************)
ServeData == [limit : Nat, since : Nat, of : Workers]
QuotaRow == [limit : Nat, age : {"none", "fresh", "soft", "fallback"}]
RefreshRow == [at : {"none", "fetch", "store"}, got : Nat, since : Nat]

Noticing == \E h \in Handlers : At(h, "change quota", "notice")
Fetches(w) == w \in Workers /\ (At(w, "serve", "fetch") \/ At(w, "serve", "store"))
Asked(got, since) == since <= notices /\ (since = notices => got = 0 \/ got = limit \/ Noticing)
QuotaRequest(w) ==
    (Ours(QuotaOps, w) /\ req[w].op = "serve") =>
        /\ req[w].data \in ServeData /\ req[w].data.limit <= highest
        /\ req[w].at = "store" => Asked(req[w].data.limit, req[w].data.since)
        /\ req[w].at = "wait" => Fetches(req[w].data.of)
QuotaNumbers ==
    /\ limit \in Nat /\ highest \in Nat /\ daily \in Nat /\ passed \in Nat /\ notices \in Nat
    /\ limit <= highest /\ passed <= daily /\ passed <= highest
QuotaKeyOK ==
    /\ quotaKey \in QuotaRow /\ quotaKey.limit <= highest
    /\ quotaKey.age \in {"fresh", "soft"} => quotaKey.limit = limit \/ behind \/ Noticing
RefreshOK ==
    /\ refresh \in RefreshRow /\ refresh.got <= highest
    /\ refresh.at = "store" => Asked(refresh.got, refresh.since)
QuotaKept == QuotaNumbers /\ QuotaKeyOK /\ RefreshOK /\ (fetching # "none" => Fetches(fetching))
QuotaInv == TypedRequests(QuotaOps, {}) /\ QuotaKept /\ \A w \in Workers : QuotaRequest(w)

\* Where a request stays, so does what is known of it.
LEMMA QuotaPlaces ==
    ASSUME NEW w, Stays(QuotaOps, w)
    PROVE  /\ At(w, "serve", "fetch")' <=> At(w, "serve", "fetch")
           /\ At(w, "serve", "store")' <=> At(w, "serve", "store")
           /\ At(w, "change quota", "notice")' <=> At(w, "change quota", "notice")
BY DEF Stays, At, Ours, QuotaOps

\* Where all do, whatever is asked and fetched.
LEMMA QuotaPlacesAll ==
    ASSUME \A w \in Workers : Stays(QuotaOps, w)
    PROVE  (Noticing' <=> Noticing) /\ \A w : Fetches(w)' <=> Fetches(w)
BY QuotaPlaces DEF Noticing, Fetches, Workers

\* Steps that change no request, nor what those rely on.
LEMMA QuotaStays ==
    ASSUME QuotaInv, TypedRequests(QuotaOps, {})', \A w \in Workers : Stays(QuotaOps, w),
           UNCHANGED <<limit, highest, notices>>, QuotaKept'
    PROVE  QuotaInv'
<1>1. (Noticing' <=> Noticing) /\ \A w : Fetches(w)' <=> Fetches(w)
    BY QuotaPlacesAll
<1>2. ASSUME NEW w \in Workers PROVE QuotaRequest(w)'
    BY <1>1 DEF QuotaInv, QuotaRequest, Stays, Asked
<1> QED BY <1>2 DEF QuotaInv

\* A step that has nothing to do with quotas keeps what is known of them.
LEMMA QuotaAside ==
    ASSUME QuotaInv, Aside(QuotaOps, {}), UNCHANGED quotaVars
    PROVE  QuotaInv'
<1>1. TypedRequests(QuotaOps, {})' /\ \A w \in Workers : Stays(QuotaOps, w)
    BY AsideStays DEF QuotaInv
<1>2. (Noticing' <=> Noticing) /\ \A w : Fetches(w)' <=> Fetches(w)
    BY <1>1, QuotaPlacesAll
<1>3. QuotaKept'
    <2>1. QuotaNumbers'
        BY DEF QuotaInv, QuotaKept, QuotaNumbers, quotaVars
    <2>2. QuotaKeyOK'
        BY <1>2 DEF QuotaInv, QuotaKept, QuotaKeyOK, quotaVars
    <2>3. RefreshOK'
        BY <1>2 DEF QuotaInv, QuotaKept, RefreshOK, Asked, quotaVars
    <2>4. (fetching # "none" => Fetches(fetching))'
        BY <1>2 DEF QuotaInv, QuotaKept, quotaVars
    <2> QED BY <2>1, <2>2, <2>3, <2>4 DEF QuotaKept
<1> QED BY <1>1, <1>3, QuotaStays DEF quotaVars

\* An answer of the control plane is kept.
LEMMA KeepAgrees ==
    ASSUME NEW got \in Nat, NEW since \in Nat, Keep(got, since), Asked(got, since), got <= highest,
           UNCHANGED <<limit, highest>>, Noticing' <=> Noticing
    PROVE  QuotaKeyOK'
<1>1. quotaKey' \in QuotaRow /\ quotaKey'.limit = got /\ quotaKey'.age = IF got = 0 THEN "fallback" ELSE "fresh"
    BY DEF Keep, QuotaRow
<1>2. quotaKey'.age \in {"fresh", "soft"} => got # 0
    BY <1>1
<1> QED BY <1>1, <1>2 DEF Keep, QuotaKeyOK, Asked

\* The refresh, time and the day.
LEMMA QuotaTimeKeeps ==
    ASSUME QuotaInv, QuotaTime
    PROVE  QuotaInv'
<1>1. UNCHANGED <<req, doubt, calls, limit, highest, notices, fetching>>
    BY DEF QuotaTime, RefreshFetch, RefreshStore, Age, Unlock, NewDay, baseVars
<1>2. TypedRequests(QuotaOps, {})' /\ \A w \in Workers : Stays(QuotaOps, w)
    BY <1>1, UnchangedStays DEF QuotaInv
<1>3. (Noticing' <=> Noticing) /\ \A w : Fetches(w)' <=> Fetches(w)
    BY <1>2, QuotaPlacesAll
<1>4. QuotaNumbers /\ QuotaKeyOK /\ RefreshOK /\ (fetching # "none" => Fetches(fetching))
    BY DEF QuotaInv, QuotaKept
<1>5. (fetching # "none" => Fetches(fetching))'
    BY <1>1, <1>3, <1>4
<1>6. QuotaNumbers'
    <2>1. UNCHANGED <<daily, passed>> \/ (daily' = 0 /\ passed' = 0)
        BY DEF QuotaTime, RefreshFetch, RefreshStore, Age, Unlock, NewDay
    <2> QED BY <1>1, <1>4, <2>1 DEF QuotaNumbers
<1>7. QuotaKeyOK'
    <2>1. CASE RefreshStore
        <3>1. /\ Keep(refresh.got, refresh.since) /\ refresh.got \in Nat /\ refresh.since \in Nat
              /\ Asked(refresh.got, refresh.since) /\ refresh.got <= highest
            BY <1>4, <2>1 DEF RefreshStore, RefreshOK, RefreshRow
        <3> QED BY <1>1, <1>3, <3>1, KeepAgrees
    <2>2. CASE Age
        <3>1. CASE quotaKey.age = "fresh" /\ quotaKey' = [quotaKey EXCEPT !.age = "soft"] /\ UNCHANGED behind
            <4>1. quotaKey' \in QuotaRow /\ quotaKey'.limit = quotaKey.limit
                BY <1>4, <3>1 DEF QuotaKeyOK, QuotaRow
            <4> QED BY <1>1, <1>3, <1>4, <3>1, <4>1 DEF QuotaKeyOK
        <3>2. CASE quotaKey' = NoQuota
            <4>1. quotaKey' \in QuotaRow /\ quotaKey'.limit = 0 /\ quotaKey'.age = "none"
                BY <3>2 DEF NoQuota, QuotaRow
            <4> QED BY <1>1, <1>4, <4>1 DEF QuotaKeyOK, QuotaNumbers
        <3> QED BY <2>2, <3>1, <3>2 DEF Age
    <2>3. CASE UNCHANGED <<quotaKey, behind>>
        BY <1>1, <1>3, <1>4, <2>3 DEF QuotaKeyOK
    <2> QED BY <2>1, <2>2, <2>3 DEF QuotaTime, RefreshFetch, Unlock, NewDay
<1>8. RefreshOK'
    <2>1. CASE refresh' = NoRefresh
        <3>1. refresh' \in RefreshRow /\ refresh'.got = 0 /\ refresh'.at = "none"
            BY <2>1 DEF NoRefresh, RefreshRow
        <3> QED BY <1>1, <1>4, <3>1 DEF RefreshOK, QuotaNumbers
    <2>2. CASE refresh' = [at |-> "store", got |-> limit, since |-> notices]
        <3>1. refresh' \in RefreshRow /\ refresh'.got = limit /\ refresh'.since = notices
            BY <1>4, <2>2 DEF RefreshRow, QuotaNumbers
        <3> QED BY <1>1, <1>4, <3>1 DEF RefreshOK, QuotaNumbers, Asked
    <2>3. CASE UNCHANGED refresh
        BY <1>1, <1>3, <1>4, <2>3 DEF RefreshOK, Asked
    <2> QED BY <2>1, <2>2, <2>3 DEF QuotaTime, RefreshFetch, RefreshStore, Age, Unlock, NewDay
<1>9. QuotaKept'
    BY <1>5, <1>6, <1>7, <1>8 DEF QuotaKept
<1> QED BY <1>1, <1>2, <1>9, QuotaStays

\* A request moves: who fetches still does, or has begun to.
LEMMA QuotaMoves ==
    ASSUME QuotaInv, NEW h \in Workers, Ours(QuotaOps, h), req[h].op = "serve", NEW at, NEW data \in ServeData,
           Put(h, Moved(req[h], at, data)), calls' = calls,
           at \in {"count", "fetch", "wait", "store"}, data.limit <= highest,
           at = "store" => Asked(data.limit, data.since), at = "wait" => Fetches(data.of),
           at \in {"fetch", "store"} \/ req[h].at = "quota",
           UNCHANGED <<limit, highest, daily, passed, notices, quotaKey, behind>>,
           fetching' = fetching \/ (fetching' = h /\ at = "fetch"),
           refresh' = refresh \/ (refresh' \in RefreshRow /\ refresh'.at = "fetch" /\ refresh'.got = 0)
    PROVE  QuotaInv'
<1>1. at \in Awaits /\ data \in RequestData
    BY DEF Awaits, RequestData, ServeData
<1>2. /\ TypedRequests(QuotaOps, {})' /\ Ours(QuotaOps, h)'
      /\ req'[h].op = req[h].op /\ req'[h].at = at /\ req'[h].data = data
      /\ \A w \in Workers \ {h} : req'[w] = req[w]
    <2>1. TypedRequests(QuotaOps, {}) /\ Ours(QuotaOps, h) /\ calls' = calls
        BY DEF QuotaInv
    <2> QED BY ONLY <1>1, <2>1, h \in Workers, Put(h, Moved(req[h], at, data)), MovedStays
<1>3. ASSUME NEW w, Fetches(w) PROVE Fetches(w)'
    <2>1. CASE w = h
        BY <1>2, <1>3, <2>1 DEF Fetches, At, Ours
    <2>2. CASE w # h
        BY <1>2, <1>3, <2>2 DEF Fetches, At
    <2> QED BY <2>1, <2>2
<1>4. Noticing' <=> Noticing
    <2>1. ASSUME NEW w \in Handlers PROVE At(w, "change quota", "notice")' <=> At(w, "change quota", "notice")
        <3>1. CASE w = h
            BY <1>2, <3>1 DEF At
        <3>2. CASE w # h
            BY <1>2, <3>2 DEF At, Workers
        <3> QED BY <3>1, <3>2
    <2> QED BY <2>1 DEF Noticing
<1>5. ASSUME NEW w \in Workers PROVE QuotaRequest(w)'
    <2>1. CASE w = h
        <3>1. at = "store" => Asked(data.limit, data.since)'
            BY <1>4 DEF Asked
        <3>2. at = "wait" => Fetches(data.of)'
            BY <1>3
        <3> QED BY <1>2, <2>1, <3>1, <3>2 DEF QuotaRequest
    <2>2. CASE w # h
        <3>1. req'[w] = req[w] /\ QuotaRequest(w)
            BY <1>2, <2>2 DEF QuotaInv
        <3>2. \A got, since : Asked(got, since) => Asked(got, since)'
            BY <1>4 DEF Asked
        <3> QED BY <1>3, <3>1, <3>2 DEF QuotaRequest, Ours
    <2> QED BY <2>1, <2>2
<1>6. QuotaKept'
    <2>1. QuotaNumbers' /\ QuotaKeyOK'
        BY <1>4 DEF QuotaInv, QuotaKept, QuotaNumbers, QuotaKeyOK
    <2>2. RefreshOK'
        <3>1. CASE refresh' = refresh
            BY <1>4, <3>1 DEF QuotaInv, QuotaKept, RefreshOK, Asked
        <3>2. CASE refresh' \in RefreshRow /\ refresh'.at = "fetch" /\ refresh'.got = 0
            BY <3>2 DEF QuotaInv, QuotaKept, RefreshOK, QuotaNumbers
        <3> QED BY <3>1, <3>2
    <2>3. (fetching # "none" => Fetches(fetching))'
        <3>1. CASE fetching' = fetching
            BY <1>3, <3>1 DEF QuotaInv, QuotaKept
        <3>2. CASE fetching' = h /\ at = "fetch"
            BY <1>2, <3>2 DEF Fetches, At, Ours
        <3> QED BY <3>1, <3>2
    <2> QED BY <2>1, <2>2, <2>3 DEF QuotaKept
<1> QED BY <1>2, <1>5, <1>6 DEF QuotaInv

\* The steps that do so.
LEMMA ServeMoves ==
    ASSUME QuotaInv, NEW h \in Workers, ReadQuota(h) \/ Fetch(h) \/ ReadQuotaFails(h)
    PROVE  QuotaInv'
<1>1. Ours(QuotaOps, h) /\ req[h].op = "serve" /\ req[h] # NoReq /\ QuotaRequest(h) /\ QuotaKept
    BY DEF ReadQuota, Fetch, ReadQuotaFails, At, Ours, QuotaOps, QuotaInv
<1>2. PICK d \in ServeData : d = req[h].data /\ d.limit <= highest
    BY <1>1 DEF QuotaRequest
<1>3. ASSUME NEW at, NEW data, Go(h, at, data) \/ Swallow(h, at, data, {})
      PROVE  Put(h, Moved(req[h], at, data)) /\ calls' = calls
    BY <1>1, <1>3, GoPuts DEF QuotaInv, TypedRequests
<1>4. ASSUME NEW x \in Nat
      PROVE  [d EXCEPT !.limit = x] \in ServeData /\ [d EXCEPT !.limit = x].limit = x
    BY <1>2 DEF ServeData
<1>9. ASSUME NEW of \in Workers
      PROVE  [d EXCEPT !.of = of] \in ServeData /\ [d EXCEPT !.of = of].limit = d.limit /\ [d EXCEPT !.of = of].of = of
    BY <1>2 DEF ServeData
<1>10. ASSUME NEW x \in Nat, NEW y \in Nat
      PROVE  /\ [d EXCEPT !.limit = x, !.since = y] \in ServeData
             /\ [d EXCEPT !.limit = x, !.since = y].limit = x /\ [d EXCEPT !.limit = x, !.since = y].since = y
    BY <1>2 DEF ServeData
<1>5. QuotaNumbers /\ QuotaKeyOK /\ RefreshOK /\ (fetching # "none" => Fetches(fetching)) /\ quotaKey.limit \in Nat
    BY <1>1 DEF QuotaKept, QuotaKeyOK, QuotaRow
<1>6. CASE ReadQuota(h)
    <2>1. PICK at, data :
            /\ Go(h, at, data) /\ at \in {"count", "fetch", "wait"} /\ data \in ServeData /\ data.limit <= highest
            /\ at = "wait" => Fetches(data.of)
            /\ fetching' = fetching \/ (fetching' = h /\ at = "fetch")
        <3>1. CASE quotaKey.age # "none"
            <4>1. /\ Go(h, "count", [d EXCEPT !.limit = quotaKey.limit]) /\ fetching' = fetching
                  /\ quotaKey.limit <= highest
                BY <1>2, <1>5, <1>6, <3>1 DEF ReadQuota, QuotaKeyOK
            <4> QED BY <1>4, <1>5, <4>1
        <3>2. CASE quotaKey.age = "none" /\ fetching = "none"
            <4>1. Go(h, "fetch", d) /\ fetching' = h
                BY <1>2, <1>6, <3>2 DEF ReadQuota, GoOn
            <4> QED BY <1>2, <4>1
        <3>3. CASE quotaKey.age = "none" /\ fetching # "none"
            <4>1. Go(h, "wait", [d EXCEPT !.of = fetching]) /\ fetching' = fetching /\ Fetches(fetching)
                BY <1>2, <1>5, <1>6, <3>3 DEF ReadQuota
            <4>2. fetching \in Workers
                BY <4>1 DEF Fetches
            <4> QED BY <1>2, <1>9, <4>1, <4>2
        <3> QED BY <3>1, <3>2, <3>3
    <2>2. req[h].at = "quota" /\ UNCHANGED <<limit, highest, daily, passed, notices, quotaKey, behind>>
        BY <1>6 DEF ReadQuota, At
    <2>3. refresh' = refresh \/ (refresh' \in RefreshRow /\ refresh'.at = "fetch" /\ refresh'.got = 0)
        <3>1. refresh' = refresh \/ refresh' = [NoRefresh EXCEPT !.at = "fetch"]
            BY <1>6 DEF ReadQuota
        <3>2. PICK r : r = [NoRefresh EXCEPT !.at = "fetch"]
            OBVIOUS
        <3>3. r \in RefreshRow /\ r.at = "fetch" /\ r.got = 0
            BY <3>2 DEF RefreshRow, NoRefresh
        <3> QED BY <3>1, <3>2, <3>3
    <2>4. /\ Put(h, Moved(req[h], at, data)) /\ calls' = calls
          /\ at \in {"count", "fetch", "wait", "store"} /\ (at = "store" => Asked(data.limit, data.since))
        BY <1>3, <2>1
    <2> QED BY ONLY QuotaInv, h \in Workers, <1>1, <2>1, <2>2, <2>3, <2>4, QuotaMoves
<1>7. CASE Fetch(h)
    <2>1. req[h].at = "fetch" /\ UNCHANGED <<limit, highest, daily, passed, notices, quotaKey, behind, fetching, refresh>>
        BY <1>7 DEF Fetch, At, quotaVars
    <2>2. PICK data :
            /\ Go(h, "store", data) \/ Swallow(h, "store", data, {})
            /\ data \in ServeData /\ data.limit <= highest /\ Asked(data.limit, data.since)
        <3>1. PICK got : /\ got = limit \/ got = 0
                         /\ \/ Go(h, "store", [d EXCEPT !.limit = got, !.since = notices])
                            \/ Swallow(h, "store", [d EXCEPT !.limit = got, !.since = notices], {})
            BY <1>2, <1>7 DEF Fetch
        <3>2. got \in Nat /\ notices \in Nat /\ got <= highest /\ Asked(got, notices)
            BY <1>5, <3>1 DEF QuotaNumbers, Asked
        <3> QED BY <1>10, <3>1, <3>2
    <2>3. PICK at : at = "store"
        OBVIOUS
    <2>4. /\ Put(h, Moved(req[h], at, data)) /\ calls' = calls
          /\ at \in {"count", "fetch", "wait", "store"} /\ (at = "store" => Asked(data.limit, data.since))
          /\ at \in {"fetch", "store"} /\ (at = "wait" => Fetches(data.of))
        BY <1>3, <2>2, <2>3
    <2> QED BY ONLY QuotaInv, h \in Workers, <1>1, <2>1, <2>2, <2>4, QuotaMoves
<1>8. CASE ReadQuotaFails(h)
    <2>1. req[h].at = "quota" /\ UNCHANGED <<limit, highest, daily, passed, notices, quotaKey, behind, fetching, refresh>>
        BY <1>8 DEF ReadQuotaFails, At, quotaVars
    <2>2. PICK at, data : /\ at = "count" /\ Swallow(h, at, data, {}) /\ data \in ServeData /\ data.limit <= highest
        <3>1. Swallow(h, "count", [d EXCEPT !.limit = 0], {})
            BY <1>2, <1>8 DEF ReadQuotaFails
        <3>2. [d EXCEPT !.limit = 0] \in ServeData /\ [d EXCEPT !.limit = 0].limit = 0 /\ 0 <= highest
            <4>1. 0 \in Nat /\ 0 <= highest
                BY <1>5 DEF QuotaNumbers
            <4> QED BY <1>4, <4>1
        <3> QED BY <3>1, <3>2
    <2>3. /\ Put(h, Moved(req[h], at, data)) /\ calls' = calls
          /\ at \in {"count", "fetch", "wait", "store"} /\ (at = "store" => Asked(data.limit, data.since))
          /\ (at = "wait" => Fetches(data.of))
        BY <1>3, <2>2
    <2> QED BY ONLY QuotaInv, h \in Workers, <1>1, <2>1, <2>2, <2>3, QuotaMoves
<1> QED BY <1>6, <1>7, <1>8

\* One that waits, or fetched, goes on with the answer.
AnsweredNow(w, got) ==
    /\ Ours(QuotaOps, w) /\ Ours(QuotaOps, w)' /\ req[w].op = "serve" /\ req'[w].op = "serve" /\ req'[w].at = "count"
    /\ req'[w].data \in ServeData /\ req'[w].data.limit = got
\* The answer goes to the request that fetched it and to those that wait for it, and to no other.
LEMMA AnswersStay ==
    ASSUME QuotaInv, NEW h \in Workers, At(h, "serve", "store"), NEW got \in Nat, AnswerAll(h, got)
    PROVE  /\ TypedRequests(QuotaOps, {})'
           /\ \A w \in Workers :
                IF w = h \/ (At(w, "serve", "wait") /\ req[w].data.of = h) THEN AnsweredNow(w, got) ELSE req'[w] = req[w]
<1>1. /\ req' = [w \in Workers |->
            IF w = h \/ (At(w, "serve", "wait") /\ req[w].data.of = h)
            THEN [req[w] EXCEPT !.at = "count", !.data.limit = got]
            ELSE req[w]]
      /\ calls' = calls
    BY DEF AnswerAll
<1>2. RequestsOf(QuotaOps, {}) /\ \A w \in Workers : Ours(QuotaOps, w) => Typed(req[w])
    BY DEF QuotaInv, TypedRequests
<1>3. ASSUME NEW w \in Workers, w = h \/ (At(w, "serve", "wait") /\ req[w].data.of = h)
      PROVE  /\ AnsweredNow(w, got) /\ Typed(req'[w]) /\ Requested(req'[w]) /\ req'[w].sure \subseteq req'[w].on
    <2>1. req[w] # NoReq /\ req[w].op = "serve" /\ Ours(QuotaOps, w)
        BY <1>3 DEF At, Ours, QuotaOps
    <2>2. Requested(req[w]) /\ req[w].sure \subseteq req[w].on /\ Typed(req[w]) /\ req[w].data \in ServeData
        BY <1>2, <2>1 DEF RequestsOf, QuotaInv, QuotaRequest
    <2>3. PICK at, d : at = "count" /\ d = [req[w].data EXCEPT !.limit = got]
        OBVIOUS
    <2>4. req'[w] = Moved(req[w], at, d) /\ d \in ServeData /\ d.limit = got
        <3>1. PICK q : q = [op |-> req[w].op, on |-> req[w].on, at |-> "count",
                            data |-> [req[w].data EXCEPT !.limit = got], sure |-> req[w].sure]
            OBVIOUS
        <3>2. Requested(req[w])
            BY <2>2
        <3>3. [req[w] EXCEPT !.at = "count", !.data.limit = got] = q
            BY ONLY <3>1, <3>2, RequestMoves
        <3>4. req'[w] = q
            BY <1>1, <1>3, <3>3
        <3>5. q = Moved(req[w], at, d)
            BY ONLY <2>3, <3>1 DEF Moved
        <3>6. PICK e \in ServeData : e = req[w].data
            BY <2>2
        <3>7. [e EXCEPT !.limit = got] \in ServeData /\ [e EXCEPT !.limit = got].limit = got
            BY DEF ServeData
        <3> QED BY <2>3, <3>4, <3>5, <3>6, <3>7
    <2>5. PICK r : /\ r = Moved(req[w], at, d) /\ r.op = req[w].op /\ r.on = req[w].on /\ r.at = at /\ r.data = d
                   /\ r.sure = req[w].sure
        BY ONLY MovedOne
    <2>6. at \in Awaits /\ d \in RequestData
        BY <2>3, <2>4 DEF Awaits, RequestData, ServeData
    <2>7. Typed(r) /\ r.sure \subseteq r.on /\ Requested(r)
        <3>1. Typed(r)
            BY <2>2, <2>5, <2>6 DEF Typed
        <3>2. Requested(r)
            BY <2>5 DEF Requested, Moved
        <3> QED BY <2>2, <2>5, <3>1, <3>2
    <2>8. r # NoReq
        BY <2>7, RequestIsOne
    <2>9. req'[w] = r
        BY <2>4, <2>5
    <2> QED BY <2>1, <2>3, <2>4, <2>5, <2>7, <2>8, <2>9 DEF AnsweredNow, Ours
<1>4. ASSUME NEW w \in Workers, ~(w = h \/ (At(w, "serve", "wait") /\ req[w].data.of = h))
      PROVE  req'[w] = req[w]
    BY <1>1, <1>4
<1>5. TypedRequests(QuotaOps, {})'
    <2>1. ASSUME NEW w \in Workers, req'[w] # NoReq
          PROVE  /\ Requested(req'[w]) /\ req'[w].sure \subseteq req'[w].on
                 /\ req'[w].op \in QuotaOps \/ req'[w].on \cap {} = {}
                 /\ Ours(QuotaOps, w)' => Typed(req'[w])
        <3>1. CASE req'[w] = req[w]
            BY <1>2, <2>1, <3>1 DEF RequestsOf, Ours
        <3> QED BY <1>3, <1>4, <3>1
    <2>2. req' = [w \in Workers |-> req'[w]] /\ calls' \in Nat
        <3>1. req' = [w \in Workers |-> req'[w]]
            BY <1>1
        <3> QED BY <1>1, <1>2, <3>1 DEF RequestsOf
    <2> QED BY <2>1, <2>2 DEF TypedRequests, RequestsOf, Ours
<1> QED BY <1>3, <1>4, <1>5

\* The answer is kept, or Redis fails.
LEMMA StoreKeeps ==
    ASSUME QuotaInv, NEW h \in Workers, StoreQuota(h) \/ StoreQuotaFails(h)
    PROVE  QuotaInv'
<1>1. QuotaNumbers /\ QuotaKeyOK /\ RefreshOK
    BY DEF QuotaInv, QuotaKept
<1>2. /\ At(h, "serve", "store") /\ req[h].data \in ServeData /\ req[h].data.limit <= highest
      /\ Asked(req[h].data.limit, req[h].data.since)
    BY DEF StoreQuota, StoreQuotaFails, At, QuotaInv, QuotaRequest, Ours, QuotaOps
<1>3. PICK got \in Nat : got <= highest /\ AnswerAll(h, got)
    <2>1. req[h].data.limit \in Nat /\ 0 \in Nat /\ 0 <= highest
        BY <1>1, <1>2 DEF ServeData, QuotaNumbers
    <2> QED BY <1>2, <2>1 DEF StoreQuota, StoreQuotaFails
<1>4. /\ TypedRequests(QuotaOps, {})'
      /\ \A w \in Workers :
            IF w = h \/ (At(w, "serve", "wait") /\ req[w].data.of = h) THEN AnsweredNow(w, got) ELSE req'[w] = req[w]
    BY <1>2, <1>3, AnswersStay
<1>5. ASSUME NEW w, Fetches(w), w # h PROVE Fetches(w)'
    <2>1. w \in Workers /\ ~At(w, "serve", "wait")
        BY <1>5 DEF Fetches, At
    <2>2. req'[w] = req[w]
        BY <1>4, <1>5, <2>1
    <2> QED BY <1>5, <2>2 DEF Fetches, At
<1>6. Noticing' <=> Noticing
    <2>1. ASSUME NEW w \in Handlers PROVE At(w, "change quota", "notice")' <=> At(w, "change quota", "notice")
        <3>1. w \in Workers
            BY DEF Workers
        <3>2. CASE AnsweredNow(w, got)
            BY <3>2 DEF At, AnsweredNow
        <3>3. CASE req'[w] = req[w]
            BY <3>3 DEF At
        <3> QED BY <1>4, <3>1, <3>2, <3>3
    <2> QED BY <2>1 DEF Noticing
<1>7. ASSUME NEW w \in Workers PROVE QuotaRequest(w)'
    <2>1. CASE AnsweredNow(w, got)
        <3>1. highest' = highest
            BY DEF StoreQuota, StoreQuotaFails
        <3> QED BY <1>3, <2>1, <3>1 DEF AnsweredNow, QuotaRequest
    <2>2. CASE req'[w] = req[w] /\ ~(At(w, "serve", "wait") /\ req[w].data.of = h)
        <3>1. QuotaRequest(w) /\ UNCHANGED <<highest, limit, notices>>
            BY DEF QuotaInv, StoreQuota, StoreQuotaFails
        <3>2. \A x, y : Asked(x, y) => Asked(x, y)'
            BY <1>6, <3>1 DEF Asked
        <3>3. ASSUME Ours(QuotaOps, w), req[w].op = "serve", req[w].at = "wait"
              PROVE  \E of : of = req[w].data.of /\ Fetches(of)'
            <4>1. req[w].data.of # h
                BY <2>2, <3>3 DEF At, Ours
            <4>2. Fetches(req[w].data.of)
                BY <3>1, <3>3 DEF QuotaRequest
            <4> QED BY <1>5, <4>1, <4>2
        <3> QED BY <2>2, <3>1, <3>2, <3>3 DEF QuotaRequest, Ours
    <2> QED BY <1>4, <2>1, <2>2
<1>8. QuotaKept'
    <2>1. QuotaNumbers' /\ RefreshOK' /\ fetching' = "none"
        BY <1>1, <1>6 DEF QuotaNumbers, RefreshOK, Asked, StoreQuota, StoreQuotaFails
    <2>2. QuotaKeyOK'
        <3>1. CASE Keep(req[h].data.limit, req[h].data.since)
            <4>1. req[h].data.limit \in Nat /\ req[h].data.since \in Nat /\ UNCHANGED <<limit, highest>>
                BY <1>2 DEF ServeData, StoreQuota, StoreQuotaFails
            <4> QED BY <1>2, <1>6, <3>1, <4>1, KeepAgrees
        <3>2. CASE UNCHANGED <<quotaKey, behind>>
            BY <1>1, <1>6, <3>2 DEF QuotaKeyOK, StoreQuota, StoreQuotaFails
        <3> QED BY <3>1, <3>2 DEF StoreQuota, StoreQuotaFails
    <2> QED BY <2>1, <2>2 DEF QuotaKept
<1> QED BY <1>4, <1>7, <1>8 DEF QuotaInv

\* A request of the dynamic API arrives, or a change of the limit, which is to be noticed.
LEMMA QuotaArrives ==
    ASSUME QuotaInv, NEW h \in Workers, Serve(h) \/ ChangeQuota(h)
    PROVE  QuotaInv'
<1>1. PICK op, at, data :
        /\ Arrived(h, op, {}, at, data) /\ op \in QuotaOps /\ at \in Awaits /\ data \in RequestData
        /\ \/ /\ Serve(h) /\ op = "serve" /\ at = "quota" /\ data \in ServeData /\ data.limit = 0
           \/ /\ ChangeQuota(h) /\ op = "change quota" /\ at = "notice" /\ h \in Handlers
    <2>1. CASE Serve(h)
        <3>1. PICK data : data = [limit |-> 0, since |-> 0, of |-> h]
            OBVIOUS
        <3>2. data \in ServeData /\ data.limit = 0
            BY <3>1 DEF ServeData
        <3>3. data \in RequestData
            BY <3>2 DEF RequestData, ServeData
        <3>4. BeginIn("slugs", h, "serve", {}, "quota", data)
            BY <2>1, <3>1 DEF Serve
        <3>5. Arrived(h, "serve", {}, "quota", data)
            BY <3>4, CalledArrives DEF BeginIn, QuotaInv, TypedRequests
        <3> QED BY <2>1, <3>2, <3>3, <3>5 DEF QuotaOps, Awaits
    <2>2. CASE ChangeQuota(h)
        <3>1. Begin(h, "change quota", {}, "notice", NoData)
            BY <2>2 DEF ChangeQuota
        <3>2. Arrived(h, "change quota", {}, "notice", NoData) /\ h \in Handlers
            BY <3>1, CalledArrives DEF Begin, Called, QuotaInv, TypedRequests
        <3> QED BY <2>2, <3>2 DEF QuotaOps, Awaits, RequestData
    <2> QED BY <2>1, <2>2
<1>2. op \in Operations /\ {} \subseteq Objects
    BY <1>1 DEF QuotaOps, Operations
<1>3. /\ TypedRequests(QuotaOps, {})' /\ ~Ours(QuotaOps, h) /\ Ours(QuotaOps, h)'
      /\ req'[h].op = op /\ req'[h].at = at /\ req'[h].data = data
      /\ \A w \in Workers \ {h} : Stays(QuotaOps, w)
    <2>1. PICK on : on = {}
        OBVIOUS
    <2>2. /\ TypedRequests(QuotaOps, {}) /\ Arrived(h, op, on, at, data) /\ op \in QuotaOps /\ op \in Operations
          /\ on \subseteq Objects /\ at \in Awaits /\ data \in RequestData
        BY <1>1, <1>2, <2>1 DEF QuotaInv
    <2> QED BY ONLY <2>2, h \in Workers, ArrivedStays
<1>4. ASSUME NEW w, Fetches(w) PROVE Fetches(w)'
    <2>1. w # h
        BY <1>3, <1>4 DEF Fetches, At, Ours, QuotaOps
    <2> QED BY <1>3, <1>4, <2>1, QuotaPlaces DEF Fetches
<1>5. Noticing => Noticing'
    <2> SUFFICES ASSUME NEW w \in Handlers, At(w, "change quota", "notice") PROVE Noticing'
        BY DEF Noticing
    <2>1. w # h /\ w \in Workers
        BY <1>3 DEF At, Ours, QuotaOps, Workers
    <2> QED BY <1>3, <2>1, QuotaPlaces DEF Noticing
<1>6. ChangeQuota(h) => Noticing'
    <2>1. CASE ChangeQuota(h) /\ ~Serve(h)
        BY <1>1, <1>3, <2>1 DEF Noticing, At, Ours
    <2>2. CASE ChangeQuota(h) /\ Serve(h)
        <3>1. limit' = limit /\ limit' # limit
            BY <2>2 DEF Serve, ChangeQuota, quotaVars
        <3> QED BY <3>1
    <2> QED BY <2>1, <2>2
<1>7. /\ UNCHANGED <<daily, passed, notices, quotaKey, behind, fetching, refresh>>
      /\ limit' \in Nat /\ highest' \in Nat /\ limit' <= highest' /\ highest <= highest'
      /\ limit' = limit \/ ChangeQuota(h)
    <2>1. QuotaNumbers
        BY DEF QuotaInv, QuotaKept
    <2>2. CASE Serve(h)
        BY <2>1, <2>2 DEF Serve, quotaVars, QuotaNumbers
    <2>3. CASE ChangeQuota(h)
        <3>1. limit' \in Nat /\ highest' = IF limit' > highest THEN limit' ELSE highest
            BY <2>3, LimitsArePositive DEF ChangeQuota
        <3>2. UNCHANGED <<daily, passed, notices, quotaKey, behind, fetching, refresh>>
            BY <2>3 DEF ChangeQuota
        <3> QED BY <2>1, <2>3, <3>1, <3>2 DEF QuotaNumbers
    <2> QED BY <2>2, <2>3
<1>8. \A x, y : Asked(x, y) => Asked(x, y)'
    BY <1>5, <1>6, <1>7 DEF Asked
<1>9. QuotaNumbers /\ QuotaKeyOK /\ RefreshOK /\ (fetching # "none" => Fetches(fetching))
    BY DEF QuotaInv, QuotaKept
<1>10. ASSUME NEW w \in Workers PROVE QuotaRequest(w)'
    <2>1. CASE w = h
        <3>1. req'[h].op = "serve" => req'[h].data \in ServeData /\ req'[h].data.limit = 0 /\ req'[h].at = "quota"
            BY <1>1, <1>3
        <3>2. 0 <= highest'
            BY <1>7
        <3> QED BY <2>1, <3>1, <3>2 DEF QuotaRequest
    <2>2. CASE w # h
        <3>1. QuotaRequest(w) /\ Stays(QuotaOps, w)
            BY <1>3, <2>2 DEF QuotaInv
        <3>2. ASSUME Ours(QuotaOps, w), req[w].op = "serve"
              PROVE  req[w].data.limit <= highest'
            <4>1. req[w].data.limit <= highest /\ req[w].data.limit \in Nat
                BY <3>1, <3>2 DEF QuotaRequest, ServeData
            <4> QED BY <1>7, <1>9, <4>1 DEF QuotaNumbers
        <3> QED BY <1>4, <1>8, <3>1, <3>2 DEF QuotaRequest, Stays
    <2> QED BY <2>1, <2>2
<1>11. QuotaKept'
    <2>1. QuotaNumbers'
        BY <1>7, <1>9 DEF QuotaNumbers
    <2>2. QuotaKeyOK'
        <3>1. quotaKey.limit \in Nat /\ quotaKey.limit <= highest'
            <4>1. quotaKey.limit \in Nat /\ quotaKey.limit <= highest
                BY <1>9 DEF QuotaKeyOK, QuotaRow
            <4> QED BY <1>7, <1>9, <4>1 DEF QuotaNumbers
        <3> QED BY <1>5, <1>6, <1>7, <1>9, <3>1 DEF QuotaKeyOK
    <2>3. RefreshOK'
        <3>1. refresh.got <= highest'
            <4>1. refresh.got \in Nat /\ refresh.got <= highest
                BY <1>9 DEF RefreshOK, RefreshRow
            <4> QED BY <1>7, <1>9, <4>1 DEF QuotaNumbers
        <3> QED BY <1>7, <1>8, <1>9, <3>1 DEF RefreshOK
    <2>4. (fetching # "none" => Fetches(fetching))'
        BY <1>4, <1>7, <1>9
    <2> QED BY <2>1, <2>2, <2>3, <2>4 DEF QuotaKept
<1> QED BY <1>3, <1>10, <1>11 DEF QuotaInv

\* A request is counted and answered.
LEMMA CountKeeps ==
    ASSUME QuotaInv, NEW h \in Workers, Count(h) \/ CountFails(h)
    PROVE  QuotaInv'
<1>1. Put(h, NoReq) /\ calls' = calls
    BY EndPuts DEF Count, CountFails, QuotaInv, TypedRequests
<1>2. TypedRequests(QuotaOps, {})' /\ req'[h] = NoReq /\ ~Ours(QuotaOps, h)' /\ \A w \in Workers \ {h} : req'[w] = req[w]
    BY <1>1, EndedStays DEF QuotaInv
<1>3. req[h].op = "serve" /\ req[h].at = "count" /\ req[h].data.limit \in Nat /\ req[h].data.limit <= highest
    BY DEF Count, CountFails, At, QuotaInv, QuotaRequest, Ours, QuotaOps, ServeData
<1>4. ASSUME NEW w, Fetches(w) PROVE Fetches(w)'
    BY <1>2, <1>3, <1>4 DEF Fetches, At
<1>5. Noticing' <=> Noticing
    <2>1. \A w \in Handlers : At(w, "change quota", "notice")' <=> At(w, "change quota", "notice")
        BY <1>2, <1>3 DEF At, Workers
    <2> QED BY <2>1 DEF Noticing
<1>6. UNCHANGED <<limit, quotaKey, fetching, refresh, notices, behind, highest>>
    BY DEF Count, CountFails
<1>7. QuotaNumbers /\ QuotaKeyOK /\ RefreshOK /\ (fetching # "none" => Fetches(fetching))
    BY DEF QuotaInv, QuotaKept
<1>8. QuotaNumbers'
    <2>1. PICK l \in Nat : l = req[h].data.limit /\ l <= highest
        BY <1>3
    <2>2. /\ daily' \in {daily, daily + 1}
          /\ passed' = passed \/ (passed' = passed + 1 /\ daily' = daily + 1 /\ daily' <= l)
        <3>1. CASE Count(h)
            BY <2>1, <3>1 DEF Count
        <3>2. CASE CountFails(h)
            BY <3>2 DEF CountFails
        <3> QED BY <3>1, <3>2
    <2> QED BY <1>6, <1>7, <2>1, <2>2 DEF QuotaNumbers
<1>9. \A x, y : Asked(x, y) => Asked(x, y)'
    BY <1>5, <1>6 DEF Asked
<1>10. QuotaKept'
    BY <1>4, <1>5, <1>6, <1>7, <1>8, <1>9 DEF QuotaKept, QuotaKeyOK, RefreshOK
<1>11. ASSUME NEW w \in Workers PROVE QuotaRequest(w)'
    <2>1. CASE w = h
        BY <1>2, <2>1 DEF QuotaRequest
    <2>2. CASE w # h
        <3>1. req'[w] = req[w] /\ QuotaRequest(w)
            BY <1>2, <2>2 DEF QuotaInv
        <3> QED BY <1>4, <1>6, <1>9, <3>1 DEF QuotaRequest, Ours
    <2> QED BY <2>1, <2>2
<1> QED BY <1>2, <1>10, <1>11 DEF QuotaInv

\* The notice: what has been asked before it is out of date.
LEMMA NoticeKeeps ==
    ASSUME QuotaInv, NEW h \in Workers, Invalidate(h) \/ InvalidateFails(h)
    PROVE  QuotaInv'
<1>1. Put(h, NoReq) /\ calls' = calls
    BY EndPuts DEF Invalidate, InvalidateFails, QuotaInv, TypedRequests
<1>2. TypedRequests(QuotaOps, {})' /\ req'[h] = NoReq /\ ~Ours(QuotaOps, h)' /\ \A w \in Workers \ {h} : req'[w] = req[w]
    BY <1>1, EndedStays DEF QuotaInv
<1>3. req[h].op = "change quota"
    BY DEF Invalidate, InvalidateFails, At
<1>4. ASSUME NEW w, Fetches(w) PROVE Fetches(w)'
    BY <1>2, <1>3, <1>4 DEF Fetches, At
<1>5. QuotaNumbers /\ QuotaKeyOK /\ RefreshOK
    BY DEF QuotaInv, QuotaKept
<1>6. UNCHANGED <<limit, refresh, daily, passed, highest>> /\ notices' = notices + 1 /\ fetching' = "none"
    BY DEF Invalidate, InvalidateFails
<1>7. ASSUME NEW x, NEW y \in Nat, Asked(x, y) PROVE Asked(x, y)'
    <2>1. y <= notices /\ notices \in Nat
        BY <1>5, <1>7 DEF Asked, QuotaNumbers
    <2>2. y <= notices' /\ y # notices'
        BY <1>6, <2>1
    <2> QED BY <2>2 DEF Asked
<1>8. QuotaNumbers'
    BY <1>5, <1>6 DEF QuotaNumbers
<1>9. RefreshOK'
    <2>1. refresh.since \in Nat
        BY <1>5 DEF RefreshOK, RefreshRow
    <2> QED BY <1>5, <1>6, <1>7, <2>1 DEF RefreshOK
<1>10. QuotaKeyOK'
    <2>1. CASE quotaKey' = NoQuota
        <3>1. quotaKey' \in QuotaRow /\ quotaKey'.limit = 0 /\ quotaKey'.age = "none"
            BY <2>1 DEF NoQuota, QuotaRow
        <3> QED BY <1>5, <1>6, <3>1 DEF QuotaKeyOK, QuotaNumbers
    <2>2. CASE quotaKey' = quotaKey /\ behind' = TRUE
        BY <1>5, <1>6, <2>2 DEF QuotaKeyOK
    <2> QED BY <2>1, <2>2 DEF Invalidate, InvalidateFails
<1>11. ASSUME NEW w \in Workers PROVE QuotaRequest(w)'
    <2>1. CASE w = h
        BY <1>2, <2>1 DEF QuotaRequest
    <2>2. CASE w # h
        <3>1. req'[w] = req[w] /\ QuotaRequest(w)
            BY <1>2, <2>2 DEF QuotaInv
        <3>2. ASSUME Ours(QuotaOps, w), req[w].op = "serve" PROVE req[w].data.since \in Nat
            BY <3>1, <3>2 DEF QuotaRequest, ServeData
        <3> QED BY <1>4, <1>6, <1>7, <3>1, <3>2 DEF QuotaRequest, Ours
    <2> QED BY <2>1, <2>2
<1> QED BY <1>2, <1>6, <1>8, <1>9, <1>10, <1>11 DEF QuotaInv, QuotaKept

\* When the worker stops, a notice that was to come is lost with it.
LEMMA QuotaRestart ==
    ASSUME QuotaInv, Restart
    PROVE  QuotaInv'
<1>1. TypedRequests(QuotaOps, {})' /\ \A w \in Workers : ~Ours(QuotaOps, w)'
    <2>1. "restore tokens" \notin QuotaOps /\ "start monitors" \notin QuotaOps
        BY DEF QuotaOps
    <2> QED BY <2>1, RestartStays DEF QuotaInv, Ours
<1>2. /\ UNCHANGED <<limit, quotaKey, daily, notices, passed, highest>> /\ fetching' = "none" /\ refresh' = NoRefresh
      /\ behind' = (behind \/ Noticing)
    BY DEF Restart, Noticing
<1>3. QuotaNumbers' /\ QuotaKeyOK'
    BY <1>2 DEF QuotaInv, QuotaKept, QuotaNumbers, QuotaKeyOK
<1>4. RefreshOK'
    <2>1. refresh' \in RefreshRow /\ refresh'.got = 0 /\ refresh'.at = "none"
        BY <1>2 DEF NoRefresh, RefreshRow
    <2> QED BY <1>3, <2>1 DEF RefreshOK, QuotaNumbers
<1>5. \A w \in Workers : QuotaRequest(w)'
    BY <1>1 DEF QuotaRequest
<1> QED BY <1>1, <1>2, <1>3, <1>4, <1>5 DEF QuotaInv, QuotaKept

\* Redis loses the quota and the count.
LEMMA QuotaLost ==
    ASSUME QuotaInv, RedisLost
    PROVE  QuotaInv'
<1>1. Aside(QuotaOps, {})
    BY RedisLostAside DEF QuotaInv, TypedRequests
<1>2. TypedRequests(QuotaOps, {})' /\ \A w \in Workers : Stays(QuotaOps, w)
    BY <1>1, AsideStays DEF QuotaInv
<1>3. (Noticing' <=> Noticing) /\ \A w : Fetches(w)' <=> Fetches(w)
    BY <1>2, QuotaPlacesAll
<1>4. quotaKey' = NoQuota /\ daily' = 0 /\ passed' = 0 /\ UNCHANGED <<limit, fetching, refresh, notices, highest>>
    BY DEF RedisLost
<1>5. QuotaNumbers'
    BY <1>4 DEF QuotaInv, QuotaKept, QuotaNumbers
<1>6. QuotaKeyOK'
    <2>1. quotaKey' \in QuotaRow /\ quotaKey'.limit = 0 /\ quotaKey'.age = "none"
        BY <1>4 DEF NoQuota, QuotaRow
    <2> QED BY <1>5, <2>1 DEF QuotaKeyOK, QuotaNumbers
<1>7. RefreshOK' /\ (fetching # "none" => Fetches(fetching))'
    BY <1>3, <1>4 DEF QuotaInv, QuotaKept, RefreshOK, Asked
<1> QED BY <1>2, <1>4, <1>5, <1>6, <1>7, QuotaStays DEF QuotaKept

\* Every step keeps the invariant.
LEMMA QuotaNext ==
    ASSUME QuotaInv, [Next]_vars
    PROVE  QuotaInv'
<1>1. RequestsOf(QuotaOps, {})
    BY DEF QuotaInv, TypedRequests
<1>2. CASE UNCHANGED vars
    <2>1. UNCHANGED <<req, menu, calls, doubt>> /\ UNCHANGED quotaVars /\ calls \in Nat
        BY <1>1, <1>2 DEF vars, baseVars, RequestsOf
    <2>2. Aside(QuotaOps, {})
        BY <1>1, <2>1, IdleAside
    <2> QED BY <2>1, <2>2, QuotaAside
<1>3. CASE \E w \in Workers : QuotaStep(w)
    BY <1>3, QuotaArrives, ServeMoves, StoreKeeps, CountKeeps, NoticeKeeps DEF QuotaStep
<1>4. ASSUME NEW w \in Workers, UNCHANGED quotaVars,
             \/ TokenStep(w) \/ HookStep(w) \/ MonitorStep(w) \/ StudioStep(w) \/ FileStep(w) \/ PlayerStep(w)
             \/ ProjectStep(w) \/ Deletion(w)
      PROVE  QuotaInv'
    <2>1. /\ QuotaOps \cap TokenOps = {} /\ QuotaOps \cap HookRequests = {} /\ QuotaOps \cap (MonOps \cup {"start monitors"}) = {}
          /\ QuotaOps \cap FileOps = {}
        BY DEF QuotaOps, TokenOps, HookRequests, HookOps, MonOps, FileOps
    <2>2. /\ QuotaOps \cap StudioOps = {} /\ QuotaOps \cap PlayerOps = {} /\ QuotaOps \cap ProjectOps = {}
          /\ "delete project" \notin QuotaOps
        BY DEF QuotaOps, StudioOps, PluginOps, PlayerOps, UseOps, ProjectOps
    <2>3. Aside(QuotaOps, {})
        BY <1>1, <1>4, <2>1, <2>2, TokenStepAside, HookStepAside, MonitorStepAside, StudioStepAside, FileStepAside,
           PlayerStepAside, ProjectStepAside, DeletionAside
    <2> QED BY <1>4, <2>3, QuotaAside
<1>5. ASSUME UNCHANGED quotaVars,
             TokenTime \/ Delivery \/ MonitorTimers \/ Counting \/ PlayerTime \/ ForgetProject \/ StudioStatement
      PROVE  QuotaInv'
    <2>1. Aside(QuotaOps, {})
        BY <1>1, <1>5, OthersAside, StatementAside
    <2> QED BY <1>5, <2>1, QuotaAside
<1> QED BY <1>2, <1>3, <1>4, <1>5, QuotaTimeKeeps, QuotaRestart, QuotaLost DEF Next

\* It holds when the worker starts.
LEMMA QuotaStart ==
    ASSUME Init
    PROVE  QuotaInv
<1>1. PICK s \in Scenarios : QuotasInit(s)
    BY DEF Init
<1>2. /\ limit \in Nat /\ highest = limit /\ daily = 0 /\ passed = 0 /\ notices = 0
      /\ quotaKey = NoQuota /\ refresh = NoRefresh /\ fetching = "none"
    BY <1>1, LimitsArePositive DEF QuotasInit
<1>3. TypedRequests(QuotaOps, {}) /\ \A w \in Workers : ~Ours(QuotaOps, w)
    BY NoneOurs
<1>4. QuotaKeyOK
    <2>1. quotaKey \in QuotaRow /\ quotaKey.limit = 0 /\ quotaKey.age = "none"
        BY <1>2 DEF NoQuota, QuotaRow
    <2> QED BY <1>2, <2>1 DEF QuotaKeyOK
<1>5. RefreshOK
    <2>1. refresh \in RefreshRow /\ refresh.got = 0 /\ refresh.at = "none"
        BY <1>2 DEF NoRefresh, RefreshRow
    <2> QED BY <1>2, <2>1 DEF RefreshOK
<1> QED BY <1>2, <1>3, <1>4, <1>5 DEF QuotaInv, QuotaKept, QuotaNumbers, QuotaRequest

\* The quota kept is the control plane's, or about to be corrected; no more requests pass than a limit has
\* allowed; and whoever waits does so for a fetch under way.
THEOREM QuotaIsFollowed == Spec => []QuotaAgrees
<1>1. QuotaInv => QuotaAgrees
    <2> SUFFICES ASSUME QuotaInv PROVE QuotaAgrees
        OBVIOUS
    <2>1. ASSUME NEW h \in Handlers, At(h, "serve", "wait")
          PROVE  LET of == req[h].data.of IN At(of, "serve", "fetch") \/ At(of, "serve", "store")
        <3>1. h \in Workers /\ Ours(QuotaOps, h) /\ req[h].op = "serve" /\ req[h].at = "wait"
            BY <2>1 DEF Workers, At, Ours, QuotaOps
        <3>2. Fetches(req[h].data.of)
            BY <3>1 DEF QuotaInv, QuotaRequest
        <3> QED BY <3>2 DEF Fetches
    <2>2. /\ quotaKey.age \in {"fresh", "soft"} => quotaKey.limit = limit \/ behind \/ Noticing
          /\ passed <= highest
        BY DEF QuotaInv, QuotaKept, QuotaKeyOK, QuotaNumbers
    <2> QED BY <2>1, <2>2 DEF QuotaAgrees, Noticing
<1> QED BY <1>1, QuotaStart, QuotaNext, PTL DEF Spec

----------------------------------------------------------------------------
(***************************************************************************)
(* The project itself: its row, its schema and its switch.  The request    *)
(* that creates or deletes it, where there is one, stands at an await that *)
(* tells how far row and schema are apart; the switch is the one that was  *)
(* written last.                                                           *)
(***************************************************************************)
ProjectWork == {"create project", "switch project", "delete project"}
ProjectPlaces == {ProjectObject, SwitchObject}
Creates(w) == req[w] # NoReq /\ req[w].op = "create project"
Switches(w) == req[w] # NoReq /\ req[w].op = "switch project"
Deletes(w) == req[w] # NoReq /\ req[w].op = "delete project"
ForProject(w) == ProjectObject \in req[w].sure
ProjectDoubted == ProjectObject \in doubt
SwitchDoubted == SwitchObject \in doubt

ProjectRequest(w) ==
    /\ Creates(w) => req[w].on = {ProjectObject} /\ req[w].at \in {"schema", "row"} /\ req[w].data = NoData
    /\ Switches(w) => req[w].on = {SwitchObject} /\ req[w].at = "flag" /\ req[w].data \in [off : BOOLEAN]
    /\ Deletes(w) => DeletionOK(req[w])
ProjectRequests == TypedRequests(ProjectWork, ProjectPlaces) /\ \A w \in Workers : ProjectRequest(w)

\* A creation that reaches its row has its schema, and what is sure of the project is alone
\* with it: a creation among creations, a deletion altogether.
CreationOK(w) ==
    Creates(w) =>
        /\ req[w].at = "row" => project.schema \/ (ProjectDoubted /\ ~ForProject(w))
        /\ ForProject(w) => \A x \in Workers : ~Deletes(x)
ProjectDeletionOK(w) ==
    Deletes(w) =>
        IF ForProject(w)
        THEN /\ \A x \in Workers : ~Creates(x) /\ (x # w => ~Deletes(x))
             /\ req[w].at \in {"row", "uploads"} => ~project.schema
             /\ req[w].at = "uploads" => ~project.row /\ ~toldAlive
        ELSE ProjectDoubted
ProjectKept ==
    ~ProjectDoubted =>
        /\ project.row = toldAlive
        /\ toldAlive => project.schema \/ \E w \in Workers : Deletes(w) /\ req[w].at = "row"
        /\ (project.schema /\ ~toldAlive) => \E w \in Workers : Creates(w) /\ req[w].at = "row"
SwitchKept == ~SwitchDoubted => disabled = toldOff
ProjectTyped == project \in [row : BOOLEAN, schema : BOOLEAN] /\ toldAlive \in BOOLEAN /\ disabled \in BOOLEAN /\ toldOff \in BOOLEAN
ProjectOK == ProjectKept /\ SwitchKept /\ \A w \in Workers : CreationOK(w) /\ ProjectDeletionOK(w)
ProjectInv == ProjectTyped /\ ProjectRequests /\ ProjectOK

\* What is the same for a request after a step.
SameWork(w) ==
    /\ Creates(w)' <=> Creates(w)
    /\ Switches(w)' <=> Switches(w)
    /\ Deletes(w)' <=> Deletes(w)
    /\ Creates(w) \/ Switches(w) \/ Deletes(w) => req'[w].on = req[w].on /\ req'[w].at = req[w].at /\ req'[w].data = req[w].data

\* A request that stays is the same.
LEMMA ProjectStays ==
    ASSUME NEW w, Stays(ProjectWork, w), ProjectRequest(w)
    PROVE  SameWork(w) /\ ProjectRequest(w)'
<1>1. SameWork(w)
    BY DEF Stays, Ours, ProjectWork, SameWork, Creates, Switches, Deletes
<1>2. Deletes(w) => (DeletionOK(req'[w]) <=> DeletionOK(req[w]))
    BY DEF Stays, Ours, ProjectWork, Deletes, DeletionOK
<1> QED BY <1>1, <1>2 DEF SameWork, ProjectRequest

\* A step that leaves the project and the requests about it,
LEMMA ProjectSame ==
    ASSUME ProjectInv, TypedRequests(ProjectWork, ProjectPlaces)', \A w \in Workers : Stays(ProjectWork, w),
           \A w \in Workers : Creates(w) \/ Deletes(w) => (ProjectObject \in req'[w].sure <=> ProjectObject \in req[w].sure),
           ProjectDoubted' <=> ProjectDoubted, SwitchDoubted => SwitchDoubted',
           UNCHANGED projectVars
    PROVE  ProjectInv'
<1>1. \A w \in Workers : SameWork(w) /\ ProjectRequest(w)'
    BY ProjectStays DEF ProjectInv, ProjectRequests
<1>2. \A w \in Workers : Creates(w) \/ Deletes(w) => (ForProject(w)' <=> ForProject(w))
    BY DEF ForProject
<1>3. ProjectKept' /\ SwitchKept'
    BY <1>1 DEF ProjectInv, ProjectOK, ProjectKept, SwitchKept, SameWork, projectVars
<1>4. ASSUME NEW w \in Workers PROVE CreationOK(w)' /\ ProjectDeletionOK(w)'
    <2>1. CreationOK(w) /\ ProjectDeletionOK(w)
        BY DEF ProjectInv, ProjectOK
    <2>2. CreationOK(w)'
        BY <1>1, <1>2, <2>1 DEF CreationOK, SameWork, projectVars
    <2>3. ProjectDeletionOK(w)'
        BY <1>1, <1>2, <2>1 DEF ProjectDeletionOK, SameWork, projectVars
    <2> QED BY <2>2, <2>3
<1>5. ProjectTyped'
    BY DEF ProjectInv, ProjectTyped, projectVars
<1> QED BY <1>1, <1>3, <1>4, <1>5 DEF ProjectInv, ProjectOK, ProjectRequests

\* as one aside does.
LEMMA ProjectAside ==
    ASSUME ProjectInv, Aside(ProjectWork, ProjectPlaces), UNCHANGED projectVars
    PROVE  ProjectInv'
<1>1. /\ TypedRequests(ProjectWork, ProjectPlaces)'
      /\ \A w \in Workers : Stays(ProjectWork, w) /\
           (Ours(ProjectWork, w) => req'[w].sure \cap ProjectPlaces = req[w].sure \cap ProjectPlaces)
    BY AsideStays DEF ProjectInv, ProjectRequests
<1>2. \A w \in Workers : Creates(w) \/ Deletes(w) => (ProjectObject \in req'[w].sure <=> ProjectObject \in req[w].sure)
    BY <1>1 DEF Ours, Creates, Deletes, ProjectWork, ProjectPlaces
<1>3. /\ ProjectDoubted' <=> ProjectDoubted
      /\ SwitchDoubted => SwitchDoubted'
    BY DEF Aside, ProjectDoubted, SwitchDoubted, ProjectPlaces
<1> QED BY <1>1, <1>2, <1>3, ProjectSame

\* A creation or a deletion arrives: it and what it overlaps are in doubt of the project.
LEMMA ProjectArrives ==
    ASSUME ProjectInv, NEW h \in Workers, NEW op \in ProjectWork, NEW on,
           TypedRequests(ProjectWork, ProjectPlaces)', ~Ours(ProjectWork, h), ProjectRequest(h)',
           req'[h] # NoReq, req'[h].op = op, req'[h].on = on, req'[h].sure = on \ Hit(op, on),
           op = "switch project" => ProjectObject \notin on,
           op # "switch project" => ProjectObject \in on /\ req'[h].at \notin {"row", "uploads"},
           doubt' = doubt \cup Hit(op, on),
           \A w \in Workers \ {h} : Stays(ProjectWork, w) /\ SureOf(w, op, on),
           UNCHANGED projectVars
    PROVE  ProjectInv'
<1> DEFINE Clash(w) == (Creates(w) \/ Deletes(w)) /\ {req[w].op, op} \in Conflicts /\ op # "switch project"
<1>1. \A w \in Workers \ {h} : SameWork(w) /\ ProjectRequest(w)'
    BY ProjectStays DEF ProjectInv, ProjectRequests
<1>2. ~Creates(h) /\ ~Deletes(h)
    BY DEF Ours, Creates, Deletes, ProjectWork
<1>3. /\ op = "switch project" => ~Creates(h)' /\ ~Deletes(h)'
      /\ op = "create project" => Creates(h)' /\ ~Deletes(h)'
      /\ op = "delete project" => ~Creates(h)' /\ Deletes(h)'
    BY DEF Creates, Deletes
<1>4. \A w \in Workers : Clash(w) <=> (\/ op = "create project" /\ Deletes(w)
                                       \/ op = "delete project" /\ (Creates(w) \/ Deletes(w)))
    <2>1. /\ {"create project", "delete project"} \in Conflicts /\ {"delete project", "delete project"} \in Conflicts
          /\ {"delete project", "create project"} \in Conflicts
        BY DEF Conflicts
    <2>2. {"create project", "create project"} \notin Conflicts
        BY ConflictFree
    <2> QED BY <2>1, <2>2 DEF Creates, Deletes, ProjectWork
<1>5. \A w \in Workers : Creates(w) \/ Deletes(w) => ProjectObject \in req[w].on
    BY DEF ProjectInv, ProjectRequests, ProjectRequest, Creates, Deletes, DeletionOK, Deleted
<1>6. ProjectObject \in Hit(op, on) <=> \E w \in Workers : Clash(w)
    <2>1. CASE op = "switch project"
        BY <2>1 DEF Hit
    <2>2. CASE op # "switch project"
        <3>1. \A w \in Workers : (req[w] # NoReq /\ ProjectObject \in req[w].on) => (Creates(w) \/ Deletes(w) \/ Switches(w))
            BY DEF ProjectInv, ProjectRequests, TypedRequests, RequestsOf, ProjectPlaces, ProjectWork, Creates, Deletes, Switches
        <3>2. \A w \in Workers : Switches(w) => ProjectObject \notin req[w].on
            <4>1. ProjectObject # SwitchObject
                BY DEF ProjectObject, SwitchObject
            <4> QED BY <4>1 DEF ProjectInv, ProjectRequests, ProjectRequest
        <3>3. \A w \in Workers : w \in Disturbed(op, ProjectObject) <=> Clash(w)
            BY <1>5, <2>2, <3>1, <3>2 DEF Disturbed, Busy, Creates, Deletes
        <3>4. Disturbed(op, ProjectObject) \subseteq Workers
            BY DEF Disturbed, Busy
        <3> QED BY <2>2, <3>3, <3>4 DEF Hit
    <2> QED BY <2>1, <2>2
<1>7. \A w \in Workers \ {h} : Creates(w) \/ Deletes(w) =>
        (ForProject(w)' <=> ForProject(w) /\ ~Clash(w))
    <2> SUFFICES ASSUME NEW w \in Workers \ {h}, Creates(w) \/ Deletes(w)
                 PROVE  ForProject(w)' <=> (ForProject(w) /\ ~Clash(w))
        OBVIOUS
    <2>1. op = "switch project" => {req[w].op, op} \notin Conflicts
        BY DEF Conflicts, Creates, Deletes
    <2>2. req[w] # NoReq
        BY DEF Creates, Deletes
    <2> QED BY <2>1, <2>2 DEF SureOf, ForProject
<1>8. ForProject(h)' <=> op # "switch project" /\ ~\E w \in Workers : Clash(w)
    BY <1>6 DEF ForProject
<1>9. ProjectDoubted' <=> ProjectDoubted \/ \E w \in Workers : Clash(w)
    BY <1>6 DEF ProjectDoubted
<1> HIDE DEF Clash
<1>10. ProjectKept'
    <2> SUFFICES ASSUME ~ProjectDoubted' PROVE ProjectKept'
        BY DEF ProjectKept
    <2>1. ~ProjectDoubted /\ ~\E w \in Workers : Clash(w)
        BY <1>9
    <2>2. /\ project.row = toldAlive
          /\ toldAlive => project.schema \/ \E w \in Workers : Deletes(w) /\ req[w].at = "row"
          /\ (project.schema /\ ~toldAlive) => \E w \in Workers : Creates(w) /\ req[w].at = "row"
        BY <2>1 DEF ProjectInv, ProjectOK, ProjectKept
    <2> QED BY <1>1, <1>2, <2>2 DEF ProjectKept, SameWork, projectVars
<1>11. SwitchKept'
    BY DEF ProjectInv, ProjectOK, SwitchKept, SwitchDoubted, projectVars
<1>12. ASSUME NEW w \in Workers PROVE CreationOK(w)'
    <2>1. CASE w = h
        <3> SUFFICES ASSUME Creates(h)', ForProject(h)', NEW x \in Workers, Deletes(x)' PROVE FALSE
            BY <1>3, <2>1 DEF CreationOK
        <3>1. op = "create project" /\ x # h
            BY <1>3 DEF ProjectWork
        <3>2. Deletes(x)
            BY <1>1, <3>1 DEF SameWork
        <3> QED BY <1>4, <1>8, <3>1, <3>2
    <2>2. CASE w # h
        <3>1. CreationOK(w) /\ SameWork(w)
            BY <1>1, <2>2 DEF ProjectInv, ProjectOK
        <3>2. ASSUME Creates(w), ForProject(w)', NEW x \in Workers, Deletes(x)' PROVE FALSE
            <4>1. ForProject(w) /\ ~Clash(w)
                BY <1>7, <2>2, <3>2
            <4>2. \A y \in Workers : ~Deletes(y)
                BY <3>1, <3>2, <4>1 DEF CreationOK
            <4>3. x = h
                BY <1>1, <3>2, <4>2 DEF SameWork
            <4> QED BY <1>3, <1>4, <3>2, <4>1, <4>3 DEF ProjectWork
        <3> QED BY <1>7, <1>9, <2>2, <3>1, <3>2 DEF CreationOK, SameWork, projectVars
    <2> QED BY <2>1, <2>2
<1>13. ASSUME NEW w \in Workers PROVE ProjectDeletionOK(w)'
    <2>1. CASE w = h
        <3>1. ASSUME Deletes(h)', ForProject(h)', NEW x \in Workers, Creates(x)' \/ (x # h /\ Deletes(x)') PROVE FALSE
            <4>1. op = "delete project" /\ x # h
                BY <1>3, <3>1 DEF ProjectWork
            <4>2. Creates(x) \/ Deletes(x)
                BY <1>1, <3>1, <4>1 DEF SameWork
            <4> QED BY <1>4, <1>8, <3>1, <4>1, <4>2
        <3>2. Deletes(h)' => ForProject(h)' \/ ProjectDoubted'
            BY <1>3, <1>8, <1>9 DEF ProjectWork
        <3>3. Deletes(h)' => req'[h].at \notin {"row", "uploads"}
            BY <1>3 DEF ProjectWork
        <3> QED BY <2>1, <3>1, <3>2, <3>3 DEF ProjectDeletionOK
    <2>2. CASE w # h
        <3>1. ProjectDeletionOK(w) /\ SameWork(w)
            BY <1>1, <2>2 DEF ProjectInv, ProjectOK
        <3>2. ASSUME Deletes(w), ForProject(w)', NEW x \in Workers, Creates(x)' \/ (x # w /\ Deletes(x)') PROVE FALSE
            <4>1. ForProject(w) /\ ~Clash(w)
                BY <1>7, <2>2, <3>2
            <4>2. \A y \in Workers : ~Creates(y) /\ (y # w => ~Deletes(y))
                BY <3>1, <3>2, <4>1 DEF ProjectDeletionOK
            <4>3. x = h
                BY <1>1, <3>2, <4>2 DEF SameWork
            <4> QED BY <1>3, <1>4, <3>2, <4>1, <4>3 DEF ProjectWork
        <3>3. Deletes(w) /\ ~ForProject(w)' => ProjectDoubted'
            BY <1>7, <1>9, <2>2, <3>1 DEF ProjectDeletionOK
        <3> QED BY <1>7, <2>2, <3>1, <3>2, <3>3 DEF ProjectDeletionOK, SameWork, projectVars
    <2> QED BY <2>1, <2>2
<1>14. ProjectTyped'
    BY DEF ProjectInv, ProjectTyped, projectVars
<1> QED BY <1>1, <1>10, <1>11, <1>12, <1>13, <1>14 DEF ProjectInv, ProjectOK, ProjectRequests

\* A request about the project arrives.
LEMMA ProjectBegins ==
    ASSUME ProjectInv, NEW h \in Workers, CreateProject(h) \/ Switch(h) \/ (DeleteProject(h) /\ UNCHANGED projectVars)
    PROVE  ProjectInv'
<1>1. TypedRequests(ProjectWork, ProjectPlaces) /\ RequestsOf(ProjectWork, ProjectPlaces)
    BY DEF ProjectInv, ProjectRequests, TypedRequests
<1>2. CASE DeleteProject(h) /\ UNCHANGED projectVars
    <2>1. Arrived(h, "delete project", Deleted, "find", NoData)
        BY <1>1, <1>2, CalledArrives DEF DeleteProject, Begin, Deleted
    <2>2. "delete project" \in ProjectWork
        BY DEF ProjectWork
    <2>3. /\ TypedRequests(ProjectWork, ProjectPlaces)'
          /\ ~Ours(ProjectWork, h) /\ Ours(ProjectWork, h)' /\ req'[h].op = "delete project" /\ req'[h].on = Deleted
          /\ req'[h].at = "find" /\ req'[h].sure = Deleted \ Hit("delete project", Deleted) /\ DeletionOK(req'[h])
          /\ \A w \in Workers \ {h} : Stays(ProjectWork, w) /\ SureOf(w, "delete project", Deleted)
        BY ONLY <1>1, <2>1, <2>2, h \in Workers, DeletionArrives
    <2>4. ProjectRequest(h)' /\ req'[h] # NoReq
        BY <2>3 DEF ProjectRequest, Creates, Switches, Deletes, Ours
    <2>5. ProjectObject \in Deleted /\ doubt' = doubt \cup Hit("delete project", Deleted)
        BY <2>1 DEF Deleted, Arrived
    <2> QED BY <1>2, <2>2, <2>3, <2>4, <2>5, ProjectArrives
<1>3. CASE CreateProject(h)
    <2>1. PICK o, on, at, data : o = "create project" /\ on = {ProjectObject} /\ at = "schema" /\ data = NoData
        OBVIOUS
    <2>2. Arrived(h, o, on, at, data) /\ UNCHANGED projectVars
        BY <1>1, <1>3, <2>1, CalledArrives DEF CreateProject, Begin
    <2>3. o \in ProjectWork /\ o \in Operations /\ on \subseteq Objects /\ at \in Awaits /\ data \in RequestData
        BY <2>1 DEF ProjectWork, Operations, Objects, Awaits, RequestData
    <2>4. /\ TypedRequests(ProjectWork, ProjectPlaces)'
          /\ ~Ours(ProjectWork, h) /\ Ours(ProjectWork, h)'
          /\ req'[h].op = o /\ req'[h].on = on /\ req'[h].at = at /\ req'[h].data = data
          /\ req'[h].sure = on \ Hit(o, on)
          /\ \A w \in Workers \ {h} : Stays(ProjectWork, w) /\ SureOf(w, o, on)
        BY ONLY <1>1, <2>2, <2>3, h \in Workers, ArrivedStays
    <2>5. ProjectRequest(h)' /\ req'[h] # NoReq
        BY <2>1, <2>4 DEF ProjectRequest, Creates, Switches, Deletes, Ours
    <2>6. doubt' = doubt \cup Hit(o, on)
        BY <2>2 DEF Arrived
    <2>7. /\ o # "switch project" /\ ProjectObject \in on /\ req'[h].at \notin {"row", "uploads"}
        BY <2>1, <2>4
    <2> QED BY <2>2, <2>3, <2>4, <2>5, <2>6, <2>7, ProjectArrives
<1>4. CASE Switch(h)
    <2>1. PICK off \in BOOLEAN : /\ Begin(h, "switch project", {SwitchObject}, "flag", [off |-> off])
                                 /\ UNCHANGED projectVars
        BY <1>4 DEF Switch
    <2>2. PICK o, on, at, data : o = "switch project" /\ on = {SwitchObject} /\ at = "flag" /\ data = [off |-> off]
        OBVIOUS
    <2>3. Arrived(h, o, on, at, data)
        BY <1>1, <2>1, <2>2, CalledArrives DEF Begin
    <2>4. data \in [off : BOOLEAN]
        BY <2>2
    <2>5. o \in ProjectWork /\ o \in Operations /\ on \subseteq Objects /\ at \in Awaits /\ data \in RequestData
        BY <2>2, <2>4 DEF ProjectWork, Operations, Objects, Awaits, RequestData
    <2>6. /\ TypedRequests(ProjectWork, ProjectPlaces)'
          /\ ~Ours(ProjectWork, h) /\ Ours(ProjectWork, h)'
          /\ req'[h].op = o /\ req'[h].on = on /\ req'[h].at = at /\ req'[h].data = data
          /\ req'[h].sure = on \ Hit(o, on)
          /\ \A w \in Workers \ {h} : Stays(ProjectWork, w) /\ SureOf(w, o, on)
        BY ONLY <1>1, <2>3, <2>5, h \in Workers, ArrivedStays
    <2>7. ProjectRequest(h)' /\ req'[h] # NoReq
        BY <2>2, <2>4, <2>6 DEF ProjectRequest, Creates, Switches, Deletes, Ours
    <2>8. doubt' = doubt \cup Hit(o, on)
        BY <2>3 DEF Arrived
    <2>9. ProjectObject \notin on
        BY <2>2 DEF ProjectObject, SwitchObject
    <2> QED BY <2>1, <2>2, <2>5, <2>6, <2>7, <2>8, <2>9, ProjectArrives
<1> QED BY <1>2, <1>3, <1>4

\* The schema is made.
LEMMA SchemaMade ==
    ASSUME ProjectInv, NEW h \in Workers, MakeSchema(h)
    PROVE  ProjectInv'
<1>1. TypedRequests(ProjectWork, ProjectPlaces) /\ RequestsOf(ProjectWork, ProjectPlaces)
    BY DEF ProjectInv, ProjectRequests, TypedRequests
<1>2. Creates(h) /\ Go(h, "row", req[h].data) /\ req[h] # NoReq /\ ProjectRequest(h) /\ Ours(ProjectWork, h)
    BY DEF MakeSchema, At, GoOn, Creates, ProjectInv, ProjectRequests, Ours, ProjectWork
<1>3. PICK at, data : at = "row" /\ data = req[h].data
    OBVIOUS
<1>4. at \in Awaits /\ data \in RequestData
    BY <1>2, <1>3 DEF ProjectRequest, Awaits, RequestData
<1>5. Put(h, Moved(req[h], at, data)) /\ UNCHANGED <<doubt, calls, menu>>
    BY <1>1, <1>2, <1>3, GoPuts
<1>6. /\ TypedRequests(ProjectWork, ProjectPlaces)'
      /\ Ours(ProjectWork, h)' /\ req'[h] # NoReq /\ req'[h].op = req[h].op /\ req'[h].on = req[h].on /\ req'[h].at = at
      /\ req'[h].data = data /\ req'[h].sure = req[h].sure
      /\ \A w \in Workers \ {h} : req'[w] = req[w]
    BY ONLY <1>1, <1>2, <1>4, <1>5, h \in Workers, MovedStays
<1>7. /\ \A w \in Workers : (Creates(w)' <=> Creates(w)) /\ (Deletes(w)' <=> Deletes(w)) /\ (Switches(w)' <=> Switches(w))
      /\ \A w \in Workers : ForProject(w)' <=> ForProject(w)
      /\ \A w \in Workers \ {h} : req'[w] = req[w]
      /\ Creates(h)' /\ req'[h].at = "row" /\ ~Deletes(h) /\ ~Switches(h)
      /\ ProjectDoubted' <=> ProjectDoubted
      /\ SwitchDoubted' <=> SwitchDoubted
    BY <1>2, <1>3, <1>5, <1>6 DEF Creates, Deletes, Switches, ForProject, ProjectDoubted, SwitchDoubted
<1>8. project'.schema /\ project'.row = project.row /\ ProjectTyped' /\ UNCHANGED <<disabled, toldAlive, toldOff>>
    BY DEF ProjectInv, ProjectTyped, MakeSchema
<1>9. ASSUME NEW w \in Workers PROVE ProjectRequest(w)'
    <2>1. CASE w = h
        BY <1>2, <1>3, <1>6, <1>7, <2>1 DEF ProjectRequest
    <2>2. CASE w # h
        BY <1>7, <2>2 DEF ProjectInv, ProjectRequests, ProjectRequest, Creates, Switches, Deletes
    <2> QED BY <2>1, <2>2
<1>10. ASSUME NEW w \in Workers PROVE CreationOK(w)' /\ ProjectDeletionOK(w)'
    <2>1. CreationOK(w) /\ ProjectDeletionOK(w)
        BY DEF ProjectInv, ProjectOK
    <2>2. CreationOK(w)'
        BY <1>7, <1>8, <2>1 DEF CreationOK
    <2>3. Deletes(w) => ~ForProject(w)
        BY <1>2, <2>1 DEF ProjectDeletionOK
    <2>4. ProjectDeletionOK(w)'
        BY <1>7, <2>1, <2>3 DEF ProjectDeletionOK
    <2> QED BY <2>2, <2>4
<1>11. ProjectKept' /\ SwitchKept'
    BY <1>7, <1>8 DEF ProjectInv, ProjectOK, ProjectKept, SwitchKept
<1> QED BY <1>6, <1>8, <1>9, <1>10, <1>11 DEF ProjectInv, ProjectOK, ProjectRequests

\* What a request that ends leaves of the others.
LEMMA ProjectEnds ==
    ASSUME ProjectInv, NEW h \in Workers, Put(h, NoReq), calls' = calls
    PROVE  /\ ProjectRequests'
           /\ ~Creates(h)' /\ ~Deletes(h)' /\ ~Switches(h)'
           /\ \A w \in Workers \ {h} : /\ req'[w] = req[w]
                                       /\ (Creates(w)' <=> Creates(w)) /\ (Deletes(w)' <=> Deletes(w))
                                       /\ (ForProject(w)' <=> ForProject(w))
<1>1. /\ TypedRequests(ProjectWork, ProjectPlaces)' /\ req'[h] = NoReq
      /\ \A w \in Workers \ {h} : req'[w] = req[w]
    BY EndedStays DEF ProjectInv, ProjectRequests
<1>2. ASSUME NEW w \in Workers PROVE ProjectRequest(w)'
    <2>1. ProjectRequest(w)
        BY DEF ProjectInv, ProjectRequests
    <2> QED BY <1>1, <2>1 DEF ProjectRequest, Creates, Switches, Deletes
<1> QED BY <1>1, <1>2 DEF ProjectRequests, Creates, Switches, Deletes, ForProject

\* The row is made: the creation ends.
LEMMA RowMade ==
    ASSUME ProjectInv, NEW h \in Workers, MakeRow(h)
    PROVE  ProjectInv'
<1>1. Put(h, NoReq) /\ doubt' = doubt \ ({ProjectObject} \cap req[h].sure) /\ calls' = calls /\ Creates(h) /\ req[h].at = "row"
    BY EndPuts DEF MakeRow, At, Creates, ProjectInv, ProjectRequests, TypedRequests
<1>2. /\ ProjectRequests' /\ ~Creates(h)' /\ ~Deletes(h)'
      /\ \A w \in Workers \ {h} : /\ req'[w] = req[w]
                                  /\ (Creates(w)' <=> Creates(w)) /\ (Deletes(w)' <=> Deletes(w))
                                  /\ (ForProject(w)' <=> ForProject(w))
    BY <1>1, ProjectEnds
<1>3. /\ project'.row /\ project'.schema = project.schema /\ toldAlive' /\ ProjectTyped' /\ UNCHANGED <<disabled, toldOff>>
    BY DEF ProjectInv, ProjectTyped, MakeRow
<1>4. /\ ProjectDoubted' <=> ProjectDoubted /\ ~ForProject(h)
      /\ SwitchDoubted' <=> SwitchDoubted
    BY <1>1 DEF ProjectDoubted, SwitchDoubted, ForProject, ProjectObject, SwitchObject
<1>5. CreationOK(h) /\ ~ProjectDoubted' => project.schema
    BY <1>1, <1>4 DEF CreationOK
<1>6. ASSUME NEW w \in Workers, Deletes(w) PROVE ~ForProject(w) /\ ProjectDoubted /\ ~ForProject(h)
    BY <1>1, <1>6 DEF ProjectInv, ProjectOK, ProjectDeletionOK, CreationOK
<1>7. ASSUME NEW w \in Workers PROVE CreationOK(w)' /\ ProjectDeletionOK(w)'
    <2>1. CASE w = h
        BY <1>2, <2>1 DEF CreationOK, ProjectDeletionOK
    <2>2. CASE w # h
        <3>1. CreationOK(w) /\ CreationOK(h)
            BY DEF ProjectInv, ProjectOK
        <3>2. CreationOK(w)'
            <4>1. Creates(w) /\ req[w].at = "row" /\ ForProject(w) => project.schema
                BY <3>1 DEF CreationOK
            <4>2. ~ProjectDoubted' => project.schema
                BY <1>5, <3>1
            <4>3. ForProject(w) /\ Creates(w) => \A x \in Workers : ~Deletes(x)'
                BY <1>2, <3>1 DEF CreationOK
            <4> QED BY <1>2, <1>3, <2>2, <4>1, <4>2, <4>3 DEF CreationOK
        <3>3. ProjectDeletionOK(w)'
            BY <1>2, <1>4, <1>6, <2>2 DEF ProjectDeletionOK
        <3> QED BY <3>2, <3>3
    <2> QED BY <2>1, <2>2
<1>8. ProjectKept' /\ SwitchKept'
    BY <1>3, <1>4, <1>5 DEF ProjectInv, ProjectOK, ProjectKept, SwitchKept
<1> QED BY <1>2, <1>3, <1>7, <1>8 DEF ProjectInv, ProjectOK

\* The switch is set.
LEMMA FlagSet ==
    ASSUME ProjectInv, NEW h \in Workers, SetFlag(h)
    PROVE  ProjectInv'
<1>1. Put(h, NoReq) /\ doubt' = doubt \ ({SwitchObject} \cap req[h].sure) /\ calls' = calls /\ Switches(h)
    BY EndPuts DEF SetFlag, At, Switches, ProjectInv, ProjectRequests, TypedRequests
<1>2. /\ ProjectRequests' /\ ~Creates(h)' /\ ~Deletes(h)' /\ ~Creates(h) /\ ~Deletes(h)
      /\ \A w \in Workers \ {h} : /\ req'[w] = req[w]
                                  /\ (Creates(w)' <=> Creates(w)) /\ (Deletes(w)' <=> Deletes(w))
                                  /\ (ForProject(w)' <=> ForProject(w))
    BY <1>1, ProjectEnds DEF Switches, Creates, Deletes
<1>3. req[h].data.off \in BOOLEAN
    BY <1>1 DEF ProjectInv, ProjectRequests, ProjectRequest
<1>4. disabled' = toldOff' /\ ProjectTyped' /\ UNCHANGED <<project, toldAlive>>
    BY <1>3 DEF SetFlag, ProjectInv, ProjectTyped
<1>5. ProjectDoubted' <=> ProjectDoubted
    BY <1>1 DEF ProjectDoubted, ProjectObject, SwitchObject
<1>6. ASSUME NEW w \in Workers PROVE CreationOK(w)' /\ ProjectDeletionOK(w)'
    <2>1. CreationOK(w) /\ ProjectDeletionOK(w)
        BY DEF ProjectInv, ProjectOK
    <2> QED BY <1>2, <1>4, <1>5, <2>1 DEF CreationOK, ProjectDeletionOK
<1>7. ProjectKept' /\ SwitchKept'
    BY <1>2, <1>4, <1>5 DEF ProjectInv, ProjectOK, ProjectKept, SwitchKept
<1> QED BY <1>2, <1>4, <1>6, <1>7 DEF ProjectInv, ProjectOK

\* A creation or a switch fails.
LEMMA ProjectFailsKeeps ==
    ASSUME ProjectInv, NEW h \in Workers, ProjectFails(h)
    PROVE  ProjectInv'
<1>1. Put(h, NoReq) /\ doubt' = doubt \cup req[h].on /\ calls' = calls /\ (Creates(h) \/ Switches(h)) /\ ProjectRequest(h)
    BY EndPuts DEF ProjectFails, Creates, Switches, ProjectInv, ProjectRequests, TypedRequests
<1>2. /\ ProjectRequests' /\ ~Creates(h)' /\ ~Deletes(h)' /\ ~Deletes(h)
      /\ \A w \in Workers \ {h} : /\ req'[w] = req[w]
                                  /\ (Creates(w)' <=> Creates(w)) /\ (Deletes(w)' <=> Deletes(w))
                                  /\ (ForProject(w)' <=> ForProject(w))
    BY <1>1, ProjectEnds DEF Switches, Creates, Deletes
<1>3. ProjectDoubted => ProjectDoubted'
    BY <1>1 DEF ProjectDoubted
<1>4. CASE Creates(h)
    <2>1. ProjectDoubted' /\ (SwitchDoubted => SwitchDoubted')
        BY <1>1, <1>4 DEF ProjectRequest, ProjectDoubted, SwitchDoubted
    <2>2. req[h].at \in {"schema", "row"}
        BY <1>1, <1>4 DEF ProjectRequest
    <2>3. ProjectTyped' /\ UNCHANGED <<disabled, toldAlive, toldOff>> /\ (project.schema => project'.schema)
        BY <2>2 DEF ProjectFails, ProjectInv, ProjectTyped
    <2>4. ProjectKept' /\ SwitchKept'
        BY <2>1, <2>3 DEF ProjectInv, ProjectOK, ProjectKept, SwitchKept
    <2>5. ASSUME NEW w \in Workers PROVE CreationOK(w)' /\ ProjectDeletionOK(w)'
        <3>1. CreationOK(w) /\ ProjectDeletionOK(w)
            BY DEF ProjectInv, ProjectOK
        <3>2. CreationOK(w)'
            BY <1>2, <2>1, <2>3, <3>1 DEF CreationOK
        <3>3. Deletes(w) => ~ForProject(w)
            BY <1>4, <3>1 DEF ProjectDeletionOK
        <3>4. ProjectDeletionOK(w)'
            BY <1>2, <2>1, <3>3 DEF ProjectDeletionOK
        <3> QED BY <3>2, <3>4
    <2> QED BY <1>2, <2>3, <2>4, <2>5 DEF ProjectInv, ProjectOK
<1>5. CASE Switches(h)
    <2>1. /\ SwitchDoubted' /\ req[h].at = "flag" /\ req[h].data.off \in BOOLEAN
          /\ ProjectDoubted' <=> ProjectDoubted
          /\ ~Creates(h)
        BY <1>1, <1>5 DEF ProjectRequest, ProjectDoubted, SwitchDoubted, ProjectObject, SwitchObject, Switches, Creates
    <2>2. project' = project /\ toldAlive' = toldAlive /\ toldOff' = toldOff /\ disabled' \in BOOLEAN
        <3>1. [project EXCEPT !.schema = @ \/ FALSE, !.row = @ \/ FALSE] = project
            BY DEF ProjectInv, ProjectTyped
        <3>2. (req[h].at = "schema") = FALSE /\ (req[h].at = "row") = FALSE
            BY <2>1
        <3>3. project' = project
            BY <3>1, <3>2 DEF ProjectFails
        <3> QED BY <2>1, <3>3 DEF ProjectFails, ProjectInv, ProjectTyped
    <2>3. ProjectTyped'
        BY <2>2 DEF ProjectInv, ProjectTyped
    <2>4. ProjectKept' /\ SwitchKept'
        BY <1>2, <2>1, <2>2 DEF ProjectInv, ProjectOK, ProjectKept, SwitchKept
    <2>5. ASSUME NEW w \in Workers PROVE CreationOK(w)' /\ ProjectDeletionOK(w)'
        <3>1. CreationOK(w) /\ ProjectDeletionOK(w)
            BY DEF ProjectInv, ProjectOK
        <3> QED BY <1>2, <2>1, <2>2, <3>1 DEF CreationOK, ProjectDeletionOK
    <2> QED BY <1>2, <2>3, <2>4, <2>5 DEF ProjectInv, ProjectOK
<1> QED BY <1>1, <1>4, <1>5

\* A step of a deletion.
LEMMA ProjectErased ==
    ASSUME ProjectInv, NEW h \in Workers, Deletion(h)
    PROVE  ProjectInv'
<1>1. TypedRequests(ProjectWork, ProjectPlaces) /\ RequestsOf(ProjectWork, ProjectPlaces) /\ "delete project" \in ProjectWork
    BY DEF ProjectInv, ProjectRequests, TypedRequests, ProjectWork
<1>2. ProjectRequest(h) /\ (req[h] # NoReq => DeletionOK(req[h]))
    BY DEF ProjectInv, ProjectRequests, ProjectRequest, Deletes, DeletionOK
<1>3. ASSUME NEW at, NEW data, NEW more, DeletionGoes(h, at, data, more)
      PROVE  /\ ProjectRequests' /\ Deletes(h)
             /\ \A w \in Workers : (Creates(w)' <=> Creates(w)) /\ (Deletes(w)' <=> Deletes(w)) /\ (ForProject(w)' <=> ForProject(w))
             /\ req'[h].at = at /\ \A w \in Workers \ {h} : req'[w] = req[w]
    <2>1. DeletionOK(req[h]) /\ Deletes(h)
        BY <1>2, <1>3 DEF DeletionGoes, Deletes
    <2>2. /\ TypedRequests(ProjectWork, ProjectPlaces)'
          /\ Ours(ProjectWork, h)' /\ req'[h] # NoReq /\ req'[h].op = "delete project" /\ req'[h].on = req[h].on /\ req'[h].at = at
          /\ req'[h].data = data /\ req'[h].sure = req[h].sure /\ DeletionOK(req'[h])
          /\ \A w \in Workers \ {h} : req'[w] = req[w]
        BY ONLY <1>1, <1>3, <2>1, h \in Workers, DeletionMoves
    <2>3. \A w \in Workers : ProjectRequest(w)'
        BY <2>2 DEF ProjectInv, ProjectRequests, ProjectRequest, Creates, Switches, Deletes
    <2>4. \A w \in Workers : (Creates(w)' <=> Creates(w)) /\ (Deletes(w)' <=> Deletes(w)) /\ (ForProject(w)' <=> ForProject(w))
        BY <2>1, <2>2 DEF Creates, Deletes, ForProject
    <2> QED BY <2>1, <2>2, <2>3, <2>4 DEF ProjectRequests
<1>4. \A w \in Workers : CreationOK(w) /\ ProjectDeletionOK(w)
    BY DEF ProjectInv, ProjectOK
<1>5. CASE DropSchema(h) /\ req[h].at = "schema" /\ DeletionGoes(h, "row", NoData, {})
    <2>1. /\ ProjectRequests' /\ Deletes(h)
          /\ \A w \in Workers : (Creates(w)' <=> Creates(w)) /\ (Deletes(w)' <=> Deletes(w)) /\ (ForProject(w)' <=> ForProject(w))
          /\ req'[h].at = "row" /\ \A w \in Workers \ {h} : req'[w] = req[w]
        BY <1>3, <1>5
    <2>2. ~project'.schema /\ project'.row = project.row /\ ProjectTyped' /\ UNCHANGED <<disabled, toldAlive, toldOff>>
        BY <1>5 DEF ProjectInv, ProjectTyped, DropSchema
    <2>3. doubt' = doubt
        BY <1>5 DEF DeletionGoes
    <2>4. ASSUME NEW w \in Workers, Creates(w) PROVE ~ForProject(w) /\ ProjectDoubted
        BY <1>4, <2>1, <2>4 DEF CreationOK, ProjectDeletionOK
    <2>5. ASSUME NEW w \in Workers PROVE CreationOK(w)' /\ ProjectDeletionOK(w)'
        <3>1. CreationOK(w)'
            BY <2>1, <2>3, <2>4 DEF CreationOK, ProjectDoubted
        <3>2. ProjectDeletionOK(w)'
            BY <1>4, <2>1, <2>2, <2>3 DEF ProjectDeletionOK, ProjectDoubted
        <3> QED BY <3>1, <3>2
    <2>6. ProjectKept' /\ SwitchKept'
        BY <2>1, <2>2, <2>3 DEF ProjectInv, ProjectOK, ProjectKept, SwitchKept, ProjectDoubted, SwitchDoubted
    <2> QED BY <2>1, <2>2, <2>5, <2>6 DEF ProjectInv, ProjectOK
<1>6. CASE DeleteRow(h) /\ req[h].at = "row" /\ DeletionGoes(h, "uploads", req[h].data, {})
    <2>1. /\ ProjectRequests' /\ Deletes(h)
          /\ \A w \in Workers : (Creates(w)' <=> Creates(w)) /\ (Deletes(w)' <=> Deletes(w)) /\ (ForProject(w)' <=> ForProject(w))
          /\ req'[h].at = "uploads" /\ \A w \in Workers \ {h} : req'[w] = req[w]
        BY <1>3, <1>6
    <2>2. project'.schema = project.schema /\ ~project'.row /\ ~toldAlive' /\ ProjectTyped' /\ UNCHANGED <<disabled, toldOff>>
        BY <1>6 DEF ProjectInv, ProjectTyped, DeleteRow
    <2>3. doubt' = doubt
        BY <1>6 DEF DeletionGoes
    <2>4. ASSUME NEW w \in Workers PROVE CreationOK(w)' /\ ProjectDeletionOK(w)'
        <3>1. CreationOK(w)'
            BY <1>4, <2>1, <2>2, <2>3 DEF CreationOK, ProjectDoubted
        <3>2. Deletes(w) /\ w # h => ~ForProject(w)
            BY <1>4, <2>1 DEF ProjectDeletionOK
        <3>3. Deletes(h) /\ ForProject(h) => ~project.schema
            BY <1>4, <1>6 DEF ProjectDeletionOK
        <3>4. ProjectDeletionOK(w)'
            BY <1>4, <2>1, <2>2, <2>3, <3>2, <3>3 DEF ProjectDeletionOK, ProjectDoubted
        <3> QED BY <3>1, <3>4
    <2>5. ~ProjectDoubted => ~project.schema
        BY <1>4, <1>6, <2>1 DEF ProjectDeletionOK
    <2>6. ProjectKept' /\ SwitchKept'
        BY <2>2, <2>3, <2>5 DEF ProjectInv, ProjectOK, ProjectKept, SwitchKept, ProjectDoubted, SwitchDoubted, ProjectTyped
    <2> QED BY <2>1, <2>2, <2>4, <2>6 DEF ProjectInv, ProjectOK
<1>7. ASSUME NEW at, NEW data, NEW more, DeletionGoes(h, at, data, more), at \notin {"row", "uploads"},
             req[h].at \notin {"schema", "row", "uploads"}, FilesOnly(more) \/ more \subseteq {PluginObject},
             UNCHANGED projectVars
      PROVE  ProjectInv'
    <2>1. /\ ProjectRequests' /\ Deletes(h)
          /\ \A w \in Workers : (Creates(w)' <=> Creates(w)) /\ (Deletes(w)' <=> Deletes(w)) /\ (ForProject(w)' <=> ForProject(w))
          /\ req'[h].at = at /\ \A w \in Workers \ {h} : req'[w] = req[w]
        BY <1>3, <1>7
    <2>2. (ProjectDoubted' <=> ProjectDoubted) /\ (SwitchDoubted' <=> SwitchDoubted)
        <3>1. ProjectObject \notin more /\ SwitchObject \notin more
            BY <1>7 DEF FilesOnly, FileObject, ProjectObject, SwitchObject, PluginObject
        <3> QED BY <1>7, <3>1 DEF DeletionGoes, ProjectDoubted, SwitchDoubted
    <2>3. ASSUME NEW w \in Workers PROVE CreationOK(w)' /\ ProjectDeletionOK(w)'
        <3>1. Creates(w) => w # h
            BY <2>1 DEF Creates, Deletes
        <3> QED BY <1>4, <1>7, <2>1, <2>2, <3>1 DEF CreationOK, ProjectDeletionOK, projectVars
    <2>4. ProjectKept' /\ SwitchKept'
        <3>1. \A w \in Workers : (Creates(w) /\ req[w].at = "row") <=> (Creates(w)' /\ req'[w].at = "row")
            BY <2>1 DEF Creates, Deletes
        <3>2. \A w \in Workers : (Deletes(w) /\ req[w].at = "row") <=> (Deletes(w)' /\ req'[w].at = "row")
            BY <1>7, <2>1
        <3> QED BY <1>7, <2>2, <3>1, <3>2 DEF ProjectInv, ProjectOK, ProjectKept, SwitchKept, projectVars
    <2>5. ProjectTyped'
        BY <1>7 DEF ProjectInv, ProjectTyped, projectVars
    <2> QED BY <2>1, <2>3, <2>4, <2>5 DEF ProjectInv, ProjectOK
<1>8. CASE DeletionEnds(h) /\ UNCHANGED projectVars
    <2>1. /\ ProjectRequests' /\ ~Creates(h)' /\ ~Deletes(h)' /\ Deletes(h)
          /\ \A w \in Workers \ {h} : /\ req'[w] = req[w]
                                      /\ (Creates(w)' <=> Creates(w)) /\ (Deletes(w)' <=> Deletes(w))
                                      /\ (ForProject(w)' <=> ForProject(w))
        BY <1>8, ProjectEnds DEF DeletionEnds, Deletes
    <2>2. SwitchDoubted => SwitchDoubted'
        BY <1>8 DEF DeletionEnds, SwitchDoubted, ProjectObject, SwitchObject
    <2>3. ProjectDoubted /\ ~ProjectDoubted' => ForProject(h) /\ req[h].at = "uploads"
        BY <1>8 DEF DeletionEnds, ProjectDoubted, ForProject
    <2>4. ~ProjectDoubted' => req[h].at \in {"find", "uploads"}
        BY <1>8 DEF DeletionEnds, ProjectDoubted
    <2>5. ASSUME NEW w \in Workers PROVE CreationOK(w)' /\ ProjectDeletionOK(w)'
        <3>1. Creates(w) \/ (Deletes(w) /\ w # h) => ~(ProjectDoubted /\ ~ProjectDoubted')
            BY <1>4, <2>1, <2>3 DEF ProjectDeletionOK
        <3>2. Creates(w) => w # h
            BY <2>1 DEF Creates, Deletes
        <3>3. CreationOK(w)'
            BY <1>4, <1>8, <2>1, <3>1, <3>2 DEF CreationOK, projectVars
        <3>4. ProjectDeletionOK(w)'
            BY <1>4, <1>8, <2>1, <3>1 DEF ProjectDeletionOK, projectVars
        <3> QED BY <3>3, <3>4
    <2>6. ProjectKept'
        <3> SUFFICES ASSUME ~ProjectDoubted' PROVE ProjectKept'
            BY DEF ProjectKept
        <3>1. CASE ProjectDoubted \/ req[h].at = "uploads"
            <4>1. ForProject(h) /\ req[h].at = "uploads"
                BY <1>4, <2>1, <2>3, <3>1 DEF ProjectDeletionOK
            <4>2. ~project.schema /\ ~project.row /\ ~toldAlive
                BY <1>4, <2>1, <4>1 DEF ProjectDeletionOK
            <4> QED BY <1>8, <4>2 DEF ProjectInv, ProjectTyped, ProjectKept, projectVars
        <3>2. CASE ~ProjectDoubted /\ req[h].at = "find"
            <4>1. /\ project.row = toldAlive
                  /\ toldAlive => project.schema \/ \E w \in Workers : Deletes(w) /\ req[w].at = "row"
                  /\ (project.schema /\ ~toldAlive) => \E w \in Workers : Creates(w) /\ req[w].at = "row"
                BY <3>2 DEF ProjectInv, ProjectOK, ProjectKept
            <4>2. ~Creates(h)
                BY <2>1 DEF Creates, Deletes
            <4> QED BY <1>8, <2>1, <3>2, <4>1, <4>2 DEF ProjectKept, projectVars
        <3> QED BY <2>4, <3>1, <3>2
    <2>7. SwitchKept' /\ ProjectTyped'
        BY <1>8, <2>2 DEF ProjectInv, ProjectOK, SwitchKept, ProjectTyped, projectVars
    <2> QED BY <2>1, <2>5, <2>6, <2>7 DEF ProjectInv, ProjectOK
<1>9. CASE Arrived(h, "delete project", Deleted, "find", NoData) /\ UNCHANGED projectVars
    <2>1. /\ TypedRequests(ProjectWork, ProjectPlaces)'
          /\ ~Ours(ProjectWork, h) /\ Ours(ProjectWork, h)' /\ req'[h].op = "delete project" /\ req'[h].on = Deleted
          /\ req'[h].at = "find" /\ req'[h].sure = Deleted \ Hit("delete project", Deleted) /\ DeletionOK(req'[h])
          /\ \A w \in Workers \ {h} : Stays(ProjectWork, w) /\ SureOf(w, "delete project", Deleted)
        BY ONLY <1>1, <1>9, h \in Workers, DeletionArrives
    <2>2. ProjectRequest(h)' /\ req'[h] # NoReq
        BY <2>1 DEF ProjectRequest, Creates, Switches, Deletes, Ours
    <2>3. ProjectObject \in Deleted /\ doubt' = doubt \cup Hit("delete project", Deleted)
        BY <1>9 DEF Deleted, Arrived
    <2> QED BY <1>1, <1>9, <2>1, <2>2, <2>3, ProjectArrives
<1>10. \/ DropSchema(h) /\ req[h].at = "schema" /\ DeletionGoes(h, "row", NoData, {})
       \/ DeleteRow(h) /\ req[h].at = "row" /\ DeletionGoes(h, "uploads", req[h].data, {})
       \/ /\ UNCHANGED projectVars
          /\ \/ Arrived(h, "delete project", Deleted, "find", NoData)
             \/ \E at, data, more :
                   /\ DeletionGoes(h, at, data, more) /\ at \notin {"row", "uploads"}
                   /\ req[h].at \notin {"schema", "row", "uploads"}
                   /\ FilesOnly(more) \/ more \subseteq {PluginObject}
             \/ DeletionEnds(h)
    BY <1>1, <1>2, DeletionIs
<1> QED BY <1>5, <1>6, <1>7, <1>8, <1>9, <1>10

\* The worker starts again.
LEMMA ProjectRestart ==
    ASSUME ProjectInv, Restart
    PROVE  ProjectInv'
<1>1. /\ TypedRequests(ProjectWork, ProjectPlaces)' /\ doubt' = (doubt \cup Cut) \ MonObjects
      /\ \A w \in Workers : ~Ours(ProjectWork, w)'
    <2>1. TokenObjects \cap ProjectPlaces = {} /\ MonObjects \cap ProjectPlaces = {}
        BY DEF TokenObjects, TokenObject, MonObjects, MonObject, ProjectPlaces, ProjectObject, SwitchObject
    <2> QED BY <2>1, RestartStays DEF ProjectInv, ProjectRequests, Ours, ProjectWork
<1>2. \A w \in Workers : ~Creates(w)' /\ ~Switches(w)' /\ ~Deletes(w)'
    BY <1>1 DEF Ours, Creates, Switches, Deletes, ProjectWork
<1>3. UNCHANGED projectVars
    BY DEF Restart
<1>4. /\ ProjectDoubted => ProjectDoubted'
      /\ SwitchDoubted => SwitchDoubted'
      /\ ProjectObject \in Cut => ProjectDoubted'
    BY <1>1 DEF ProjectDoubted, SwitchDoubted, MonObjects, MonObject, ProjectObject, SwitchObject
<1>5. ASSUME NEW w \in Workers, Creates(w) \/ Deletes(w) PROVE ProjectDoubted'
    <2>1. req[w].op \in Operations /\ req[w] # NoReq /\ ProjectObject \in req[w].on
        BY <1>5 DEF Creates, Deletes, Operations, ProjectInv, ProjectRequests, ProjectRequest, DeletionOK, Deleted
    <2>2. ProjectObject \in CutOff(req[w])
        BY <1>5, <2>1, CutOffIs DEF Creates, Deletes
    <2> QED BY <1>4, <2>1, <2>2, CutOffDoubts
<1>6. ProjectOK'
    BY <1>2, <1>3, <1>4, <1>5 DEF ProjectInv, ProjectOK, ProjectKept, SwitchKept, CreationOK, ProjectDeletionOK, projectVars
<1> QED BY <1>1, <1>2, <1>3, <1>6 DEF ProjectInv, ProjectTyped, ProjectRequests, ProjectRequest, projectVars

\* Redis comes back empty.
LEMMA ProjectLost ==
    ASSUME ProjectInv, RedisLost
    PROVE  ProjectInv'
<1>1. /\ TypedRequests(ProjectWork, ProjectPlaces)'
      /\ \A w \in Workers : /\ Stays(ProjectWork, w)
                            /\ req[w] # NoReq => req'[w].sure = req[w].sure \ (TokenObjects \cup {SwitchObject})
      /\ \A o \in doubt : o \in doubt'
      /\ \A o \in doubt' : o \in doubt \/ o \in TokenObjects \cup {SwitchObject}
    BY LostStays DEF ProjectInv, ProjectRequests
<1>2. ProjectObject \notin TokenObjects \cup {SwitchObject}
    BY DEF TokenObjects, TokenObject, ProjectObject, SwitchObject
<1>3. \A w \in Workers : SameWork(w) /\ ProjectRequest(w)'
    BY <1>1, ProjectStays DEF ProjectInv, ProjectRequests
<1>4. \A w \in Workers : Creates(w) \/ Deletes(w) => (ForProject(w)' <=> ForProject(w))
    BY <1>1, <1>2 DEF ForProject, Creates, Deletes
<1>5. ProjectDoubted' <=> ProjectDoubted
    BY <1>1, <1>2 DEF ProjectDoubted
<1>6. UNCHANGED <<project, toldAlive>> /\ disabled' = FALSE /\ toldOff' = FALSE
    BY DEF RedisLost
<1>7. ASSUME NEW w \in Workers PROVE CreationOK(w)' /\ ProjectDeletionOK(w)'
    <2>1. CreationOK(w) /\ ProjectDeletionOK(w)
        BY DEF ProjectInv, ProjectOK
    <2>2. CreationOK(w)'
        BY <1>3, <1>4, <1>5, <1>6, <2>1 DEF CreationOK, SameWork
    <2>3. ProjectDeletionOK(w)'
        BY <1>3, <1>4, <1>5, <1>6, <2>1 DEF ProjectDeletionOK, SameWork
    <2> QED BY <2>2, <2>3
<1>8. ProjectKept' /\ SwitchKept' /\ ProjectTyped'
    BY <1>3, <1>5, <1>6 DEF ProjectInv, ProjectOK, ProjectKept, SwitchKept, ProjectTyped, SameWork
<1> QED BY <1>1, <1>3, <1>7, <1>8 DEF ProjectInv, ProjectOK, ProjectRequests

\* Every step keeps the invariant.
LEMMA ProjectNext ==
    ASSUME ProjectInv, [Next]_vars
    PROVE  ProjectInv'
<1>1. TypedRequests(ProjectWork, ProjectPlaces) /\ RequestsOf(ProjectWork, ProjectPlaces)
    BY DEF ProjectInv, ProjectRequests, TypedRequests
<1>2. CASE UNCHANGED vars
    <2>1. UNCHANGED <<req, doubt, calls>> /\ UNCHANGED projectVars
        BY <1>2 DEF vars, baseVars, projectVars
    <2>2. TypedRequests(ProjectWork, ProjectPlaces)' /\ \A w \in Workers : Stays(ProjectWork, w) /\ req'[w] = req[w]
        BY <1>1, <2>1, UnchangedStays
    <2> QED BY <2>1, <2>2, ProjectSame DEF ProjectDoubted, SwitchDoubted
<1>3. ASSUME NEW w \in Workers, ProjectStep(w) PROVE ProjectInv'
    BY <1>3, ProjectBegins, SchemaMade, RowMade, FlagSet, ProjectFailsKeeps DEF ProjectStep
<1>4. ASSUME NEW w \in Workers, Deletion(w) PROVE ProjectInv'
    BY <1>4, ProjectErased
<1>5. /\ \A x : TokenObject(x) \notin ProjectPlaces /\ PluginObject \notin ProjectPlaces /\ LayoutObject \notin ProjectPlaces
      /\ \A x : SessionObject(x) \notin ProjectPlaces /\ PlayerObject(x) \notin ProjectPlaces
      /\ \A x : MonObject(x) \notin ProjectPlaces /\ FileObject(x) \notin ProjectPlaces
      /\ FileObjects \cap ProjectPlaces = {} /\ TokenObjects \cap ProjectPlaces = {}
    BY DEF FileObjects, FileObject, TokenObject, TokenObjects, PluginObject, LayoutObject, ProjectObject, SwitchObject,
           SessionObject, PlayerObject, MonObject, ProjectPlaces
<1>6. ASSUME NEW w \in Workers, UNCHANGED projectVars,
             TokenStep(w) \/ HookStep(w) \/ MonitorStep(w) \/ StudioStep(w) \/ QuotaStep(w) \/ PlayerStep(w) \/ FileStep(w)
      PROVE  ProjectInv'
    <2>1. ProjectWork \cap TokenOps = {} /\ ProjectWork \cap HookRequests = {} /\ ProjectWork \cap (MonOps \cup {"start monitors"}) = {}
        BY DEF ProjectWork, TokenOps, HookRequests, HookOps, MonOps
    <2>2. ProjectWork \cap StudioOps = {} /\ ProjectWork \cap QuotaOps = {} /\ ProjectWork \cap PlayerOps = {} /\ ProjectWork \cap FileOps = {}
        BY DEF ProjectWork, StudioOps, PluginOps, QuotaOps, PlayerOps, UseOps, FileOps
    <2>3. Aside(ProjectWork, ProjectPlaces)
        BY <1>1, <1>5, <1>6, <2>1, <2>2, TokenStepAside, HookStepAside, MonitorStepAside, StudioStepAside, QuotaStepAside,
           PlayerStepAside, FileStepAside
    <2> QED BY <1>6, <2>3, ProjectAside
<1>7. ASSUME UNCHANGED projectVars,
             \/ TokenTime \/ Delivery \/ MonitorTimers \/ Counting \/ QuotaTime \/ PlayerTime \/ ForgetProject
             \/ StudioStatement
      PROVE  ProjectInv'
    <2>1. Aside(ProjectWork, ProjectPlaces)
        BY <1>1, <1>5, <1>7, OthersAside, StatementAside
    <2> QED BY <1>7, <2>1, ProjectAside
<1> QED BY <1>2, <1>3, <1>4, <1>6, <1>7, ProjectRestart, ProjectLost DEF Next, projectVars

\* It holds when the worker starts.
LEMMA ProjectStart ==
    ASSUME Init
    PROVE  ProjectInv
<1>1. PICK s \in Scenarios : BaseInit(s) /\ disabled = FALSE /\ toldAlive = s.project.row /\ toldOff = FALSE
    BY DEF Init
<1>2. PICK there \in BOOLEAN : s.project = [row |-> there, schema |-> there]
    BY <1>1, ControlAssumption
<1>3. project = [row |-> there, schema |-> there] /\ toldAlive = there /\ disabled = FALSE /\ toldOff = FALSE
    BY <1>1, <1>2 DEF BaseInit
<1>4. TypedRequests(ProjectWork, ProjectPlaces) /\ doubt = {} /\ \A w \in Workers : req[w] = NoReq
    BY NoneOurs
<1>5. ProjectTyped /\ project.row = toldAlive /\ project.schema = toldAlive
    BY <1>3 DEF ProjectTyped
<1>6. ProjectRequests
    BY <1>4 DEF ProjectRequests, ProjectRequest, Creates, Switches, Deletes
<1>7. ProjectOK
    BY <1>3, <1>4, <1>5 DEF ProjectOK, ProjectKept, SwitchKept, CreationOK, ProjectDeletionOK, Creates, Deletes
<1> QED BY <1>5, <1>6, <1>7 DEF ProjectInv

\* The project's row and schema are there together, as the control plane was told, and its switch is as it was told.
THEOREM ProjectIsAsTold == Spec => []ProjectAgrees
<1>1. ProjectInv => ProjectAgrees
    <2> SUFFICES ASSUME ProjectInv PROVE ProjectAgrees
        OBVIOUS
    <2>1. ASSUME Idle(ProjectObject), ~ProjectDoubted PROVE project = [row |-> toldAlive, schema |-> toldAlive]
        <3>1. \A w \in Workers : req[w] # NoReq => ProjectObject \notin req[w].on
            BY <2>1 DEF Idle, Busy
        <3>2. \A w \in Workers : ~Creates(w) /\ ~Deletes(w)
            BY <3>1 DEF ProjectInv, ProjectRequests, ProjectRequest, DeletionOK, Deleted, Creates, Deletes
        <3>3. project.row = toldAlive /\ project.schema = toldAlive
            BY <2>1, <3>2 DEF ProjectInv, ProjectOK, ProjectKept, ProjectTyped
        <3> QED BY <3>3 DEF ProjectInv, ProjectTyped
    <2> QED BY <2>1 DEF ProjectAgrees, ProjectDoubted, SwitchDoubted, ProjectInv, ProjectOK, SwitchKept
<1> QED BY <1>1, ProjectStart, ProjectNext, PTL DEF Spec

----------------------------------------------------------------------------
(***************************************************************************)
(* Tokens: the keys in Redis, the rows of the table, and what the control  *)
(* plane was told last.  For each token that is not in doubt, the await of *)
(* the request at work on it says which of the three are already new and   *)
(* which are still old; with no such request they agree.                   *)
(***************************************************************************)
TokenWork == {"create token", "revoke token", "restore tokens", "delete project"}
Creating(w, t) == req[w] # NoReq /\ req[w].op = "create token" /\ req[w].data.t = t
Revoking(w, t) == req[w] # NoReq /\ req[w].op = "revoke token" /\ req[w].data.t = t
Synced(w, t) == Creating(w, t) \/ Revoking(w, t)
Restoring(w) == req[w] # NoReq /\ req[w].op = "restore tokens"
Erases(w) == Deletes(w) /\ req[w].at \notin {"find", "uploads"}
Erasing == \E w \in Workers : Erases(w)
ForToken(w, t) == TokenObject(t) \in req[w].sure
TokenInDoubt(t) == TokenObject(t) \in doubt
Live(t) == told[t] # NoToken /\ ~Expired(told[t])

\* Where a restore is with a token: it has its row still to go through, is about to set its
\* key, or has gone through it.
Listed(w) == Restoring(w) /\ req[w].at # "list"
Pending(w, t) == Listed(w) /\ t \in req[w].data.left
Setting(w, t) == Listed(w) /\ req[w].at = "set" /\ req[w].data.t = t
Done(w, t) == Listed(w) /\ ~Pending(w, t) /\ ~Setting(w, t)
Found(w, t) == req[w].data.rows[t]

TokenRequest(w) ==
    /\ (req[w] # NoReq /\ req[w].op \in {"create token", "revoke token"}) =>
        /\ w \in Handlers /\ req[w].data \in [t : Tokens, new : TokenRow]
        /\ req[w].on = {TokenObject(req[w].data.t)} /\ req[w].at \in {"key", "row"}
        /\ req[w].op = "revoke token" => req[w].data.new = NoToken
    /\ Restoring(w) =>
        /\ req[w].on = TokenObjects /\ req[w].at \in {"list", "next", "set"}
        /\ req[w].at = "list" => req[w].data = NoData
        /\ req[w].at = "next" => req[w].data \in [rows : [Tokens -> TokenRow], left : SUBSET Tokens]
        /\ req[w].at = "set" => req[w].data \in [rows : [Tokens -> TokenRow], left : SUBSET Tokens, t : Tokens]
    /\ Deletes(w) => DeletionOK(req[w])
TokenRequests == TypedRequests(TokenWork, TokenObjects) /\ \A w \in Workers : TokenRequest(w)
TokenTyped ==
    /\ keys \in [Tokens -> TokenRow] /\ rows \in [Tokens -> TokenRow] /\ told \in [Tokens -> TokenRow] /\ late \in BOOLEAN

\* A tokens/sync that is sure of its token is alone with it, but for other revocations and,
\* when it is one itself, deletions of the project.
SyncAlone(w, t) ==
    Synced(w, t) =>
        /\ \A x \in Workers : Restoring(x) => ~ForToken(w, t) /\ TokenInDoubt(t)
        /\ \A x \in Workers : (x # w /\ Synced(x, t) /\ Creating(w, t)) => ~ForToken(w, t) /\ ~ForToken(x, t)
        /\ Creating(w, t) => IF ForToken(w, t) THEN \A x \in Workers : ~Deletes(x) ELSE TokenInDoubt(t)

\* It has made the key that it is to make, and a key that has been revoked stays away.
KeySynced(w, t) ==
    (Synced(w, t) /\ req[w].at = "row") =>
        /\ ForToken(w, t) => keys[t] = req[w].data.new \/ (keys[t] = NoToken /\ Expired(req[w].data.new))
        /\ (Revoking(w, t) /\ ~TokenInDoubt(t)) => keys[t] = NoToken

\* What a restore has read is what the control plane was told, or the row is not.
RestoreOK(w, t) ==
    /\ Pending(w, t) => Found(w, t) = told[t] \/ t \in rowless
    /\ Setting(w, t) => Found(w, t) = told[t] \/ (t \in rowless /\ (t \in lost \/ ~Live(t)))
    /\ (Done(w, t) /\ ForToken(w, t) /\ t \notin rowless /\ Live(t)) => keys[t] = told[t]

TokenKept(t) ==
    /\ keys[t] = NoToken \/ keys[t] = told[t] \/ t \in rowless \/ \E w \in Workers : Creating(w, t) /\ req[w].at = "row"
    /\ Live(t) => keys[t] = told[t] \/ t \in lost \/ \E w \in Workers : Synced(w, t) /\ req[w].at = "row"
    /\ t \notin rowless => rows[t] = told[t] \/ (rows[t] = NoToken /\ Expired(told[t]))
TokenOK(t) ==
    /\ \A w \in Workers : SyncAlone(w, t) /\ KeySynced(w, t)
    /\ (~TokenInDoubt(t) /\ ~Erasing) => TokenKept(t) /\ \A w \in Workers : RestoreOK(w, t)
TokensInv == TokenTyped /\ TokenRequests /\ \A t \in Tokens : TokenOK(t)

\* What is the same of a request for a token after a step.
SameSync(w, t) ==
    /\ Creating(w, t)' <=> Creating(w, t)
    /\ Revoking(w, t)' <=> Revoking(w, t)
    /\ Synced(w, t) => req'[w].at = req[w].at /\ req'[w].data = req[w].data
SameRestore(w, t) ==
    /\ Restoring(w)' <=> Restoring(w)
    /\ Pending(w, t)' <=> Pending(w, t)
    /\ Setting(w, t)' <=> Setting(w, t)
    /\ Done(w, t)' <=> Done(w, t)
    /\ Pending(w, t) \/ Setting(w, t) => req'[w].data.rows[t] = req[w].data.rows[t]
SameDeletion(w) ==
    /\ Deletes(w)' <=> Deletes(w)
    /\ Erases(w)' <=> Erases(w)
SameFor(w, t) == SameSync(w, t) /\ SameRestore(w, t) /\ SameDeletion(w)

\* A request that stays is the same.
LEMMA TokenStays ==
    ASSUME NEW w, Stays(TokenWork, w), TokenRequest(w)
    PROVE  TokenRequest(w)' /\ \A t : SameFor(w, t)
<1>1. /\ Restoring(w)' <=> Restoring(w)
      /\ Deletes(w)' <=> Deletes(w)
      /\ (req[w] # NoReq /\ req[w].op = "create token") <=> (req'[w] # NoReq /\ req'[w].op = "create token")
      /\ (req[w] # NoReq /\ req[w].op = "revoke token") <=> (req'[w] # NoReq /\ req'[w].op = "revoke token")
      /\ (req[w] # NoReq /\ req[w].op \in TokenWork) =>
            /\ req'[w].op = req[w].op /\ req'[w].on = req[w].on /\ req'[w].at = req[w].at /\ req'[w].data = req[w].data
    BY DEF Stays, Ours, TokenWork, Restoring, Deletes
<1>2. ASSUME NEW t PROVE SameSync(w, t)
    BY <1>1 DEF SameSync, Creating, Revoking, Synced, TokenWork
<1>3. ASSUME NEW t PROVE SameRestore(w, t)
    BY <1>1 DEF SameRestore, Restoring, Listed, Pending, Setting, Done, TokenWork
<1>4. SameDeletion(w)
    BY <1>1 DEF SameDeletion, Deletes, Erases, TokenWork
<1>5. TokenRequest(w)'
    <2>1. (req'[w] # NoReq /\ req'[w].op \in {"create token", "revoke token"}) =>
            /\ w \in Handlers /\ req'[w].data \in [t : Tokens, new : TokenRow]
            /\ req'[w].on = {TokenObject(req'[w].data.t)} /\ req'[w].at \in {"key", "row"}
            /\ req'[w].op = "revoke token" => req'[w].data.new = NoToken
        BY <1>1 DEF TokenRequest, TokenWork
    <2>2. Restoring(w)' =>
            /\ req'[w].on = TokenObjects /\ req'[w].at \in {"list", "next", "set"}
            /\ req'[w].at = "list" => req'[w].data = NoData
            /\ req'[w].at = "next" => req'[w].data \in [rows : [Tokens -> TokenRow], left : SUBSET Tokens]
            /\ req'[w].at = "set" => req'[w].data \in [rows : [Tokens -> TokenRow], left : SUBSET Tokens, t : Tokens]
        BY <1>1 DEF TokenRequest, TokenWork, Restoring
    <2>3. Deletes(w)' => DeletionOK(req'[w])
        BY <1>1 DEF TokenRequest, TokenWork, Deletes, DeletionOK
    <2> QED BY <2>1, <2>2, <2>3 DEF TokenRequest
<1> QED BY <1>2, <1>3, <1>4, <1>5 DEF SameFor

\* What is kept of a token that a step leaves, with the requests that sync it.
LEMMA KeptStays ==
    ASSUME NEW t, TokenKept(t), \A w \in Workers : SameSync(w, t), keys'[t] = keys[t], rows'[t] = rows[t],
           told'[t] = told[t], late' = late, t \in lost' <=> t \in lost, t \in rowless' <=> t \in rowless
    PROVE  TokenKept(t)'
<1>1. /\ Live(t)' <=> Live(t)
      /\ Expired(told[t])' <=> Expired(told[t])
    BY DEF Live, Expired
<1>2. keys'[t] = NoToken \/ keys'[t] = told'[t] \/ t \in rowless' \/ \E w \in Workers : Creating(w, t)' /\ req'[w].at = "row"
    <2> SUFFICES ASSUME keys'[t] # NoToken, keys'[t] # told'[t], t \notin rowless'
                 PROVE  \E w \in Workers : Creating(w, t)' /\ req'[w].at = "row"
        OBVIOUS
    <2>1. PICK w \in Workers : Creating(w, t) /\ req[w].at = "row"
        BY DEF TokenKept
    <2>2. Creating(w, t)' /\ req'[w].at = "row"
        BY <2>1 DEF SameSync, Synced
    <2> QED BY <2>2
<1>3. Live(t)' => keys'[t] = told'[t] \/ t \in lost' \/ \E w \in Workers : Synced(w, t)' /\ req'[w].at = "row"
    <2> SUFFICES ASSUME Live(t)', keys'[t] # told'[t], t \notin lost'
                 PROVE  \E w \in Workers : Synced(w, t)' /\ req'[w].at = "row"
        OBVIOUS
    <2>1. PICK w \in Workers : Synced(w, t) /\ req[w].at = "row"
        BY <1>1 DEF TokenKept
    <2>2. Synced(w, t)' /\ req'[w].at = "row"
        BY <2>1 DEF SameSync, Synced
    <2> QED BY <2>2
<1>4. t \notin rowless' => rows'[t] = told'[t] \/ (rows'[t] = NoToken /\ Expired(told[t])')
    BY <1>1 DEF TokenKept
<1> QED BY <1>2, <1>3, <1>4 DEF TokenKept

\* What a token and the requests about it are after a step that leaves both.
SameToken(t) ==
    /\ \A w \in Workers : SameFor(w, t) /\ (Synced(w, t) \/ Restoring(w) => (ForToken(w, t)' <=> ForToken(w, t)))
    /\ TokenInDoubt(t)' <=> TokenInDoubt(t)
    /\ keys'[t] = keys[t] /\ rows'[t] = rows[t] /\ told'[t] = told[t] /\ late' = late
    /\ (t \in lost)' <=> t \in lost
    /\ (t \in rowless)' <=> t \in rowless
\* A step that leaves a token and its requests alone keeps what is known of the token.
LEMMA TokenSame ==
    ASSUME NEW t, TokenOK(t), SameToken(t)
    PROVE  TokenOK(t)'
<1>1. /\ \A w \in Workers : /\ SameSync(w, t) /\ SameRestore(w, t) /\ SameDeletion(w)
                            /\ Synced(w, t)' <=> Synced(w, t)
                            /\ Synced(w, t) \/ Restoring(w) => (ForToken(w, t)' <=> ForToken(w, t))
      /\ TokenInDoubt(t)' <=> TokenInDoubt(t)
      /\ Live(t)' <=> Live(t)
      /\ \A k : Expired(k)' <=> Expired(k)
    BY DEF SameToken, SameFor, SameSync, Synced, Live, Expired
<1>2. Erasing' <=> Erasing
    BY <1>1 DEF Erasing, SameDeletion
<1>3. ASSUME NEW w \in Workers PROVE SyncAlone(w, t)'
    <2>1. SyncAlone(w, t)
        BY DEF TokenOK
    <2> QED BY <1>1, <2>1 DEF SyncAlone, SameSync, SameRestore, SameDeletion
<1>4. ASSUME NEW w \in Workers PROVE KeySynced(w, t)'
    <2>1. KeySynced(w, t)
        BY DEF TokenOK
    <2> QED BY <1>1, <2>1 DEF KeySynced, SameSync, SameToken, Expired
<1>5. ASSUME TokenKept(t) PROVE TokenKept(t)'
    BY <1>1, <1>5, KeptStays DEF SameToken
<1>6. ASSUME NEW w \in Workers, RestoreOK(w, t) PROVE RestoreOK(w, t)'
    <2>1. Pending(w, t) \/ Setting(w, t) => Found(w, t)' = Found(w, t)
        BY <1>1 DEF SameRestore, Found
    <2>2. Done(w, t) => Restoring(w)
        BY DEF Done, Listed
    <2> QED BY <1>1, <1>6, <2>1, <2>2 DEF RestoreOK, SameRestore, SameToken
<1> QED BY <1>1, <1>2, <1>3, <1>4, <1>5, <1>6 DEF TokenOK

\* The requests stay and so do the tokens.
LEMMA TokensSame ==
    ASSUME TokensInv, TypedRequests(TokenWork, TokenObjects)', \A w \in Workers : Stays(TokenWork, w),
           \A w \in Workers, t \in Tokens : Ours(TokenWork, w) => (ForToken(w, t)' <=> ForToken(w, t)),
           \A t \in Tokens : TokenInDoubt(t)' <=> TokenInDoubt(t),
           UNCHANGED tokenVars
    PROVE  TokensInv'
<1>1. \A w \in Workers : TokenRequest(w)' /\ \A t : SameFor(w, t)
    BY TokenStays DEF TokensInv, TokenRequests
<1>2. ASSUME NEW t \in Tokens PROVE TokenOK(t)'
    <2>1. \A w \in Workers : Synced(w, t) \/ Restoring(w) => Ours(TokenWork, w)
        BY DEF Synced, Creating, Revoking, Restoring, Ours, TokenWork
    <2>2. SameToken(t)
        BY <1>1, <2>1 DEF SameToken, tokenVars
    <2> QED BY <2>2, TokenSame DEF TokensInv
<1>3. TokenTyped'
    BY DEF TokensInv, TokenTyped, tokenVars
<1> QED BY <1>1, <1>2, <1>3 DEF TokensInv, TokenRequests

\* As a step aside does.
LEMMA TokensAside ==
    ASSUME TokensInv, Aside(TokenWork, TokenObjects), UNCHANGED tokenVars
    PROVE  TokensInv'
<1>1. /\ TypedRequests(TokenWork, TokenObjects)'
      /\ \A w \in Workers : Stays(TokenWork, w) /\ (Ours(TokenWork, w) => req'[w].sure \cap TokenObjects = req[w].sure \cap TokenObjects)
    BY AsideStays DEF TokensInv, TokenRequests
<1>2. \A t \in Tokens : TokenObject(t) \in TokenObjects
    BY DEF TokenObjects
<1>3. \A w \in Workers, t \in Tokens : Ours(TokenWork, w) => (ForToken(w, t)' <=> ForToken(w, t))
    BY <1>1, <1>2 DEF ForToken
<1>4. \A t \in Tokens : TokenInDoubt(t)' <=> TokenInDoubt(t)
    BY <1>2 DEF Aside, TokenInDoubt
<1> QED BY <1>1, <1>3, <1>4, TokensSame

\* What a request has to do with a token.
Works(w, t) == Synced(w, t) \/ Restoring(w) \/ Deletes(w)
\* A request works on a token exactly when the token is among its objects.
LEMMA WorksIs ==
    ASSUME TokenRequests, NEW w \in Workers, NEW t \in Tokens
    PROVE  Works(w, t) <=> (req[w] # NoReq /\ TokenObject(t) \in req[w].on)
<1>1. TokenObject(t) \in TokenObjects /\ TokenObjects \subseteq Deleted /\ \A x : TokenObject(x) = TokenObject(t) => x = t
    BY DEF TokenObjects, Deleted, TokenObject
<1>2. ASSUME Works(w, t) PROVE req[w] # NoReq /\ TokenObject(t) \in req[w].on
    <2>1. CASE Synced(w, t)
        BY <2>1 DEF Synced, Creating, Revoking, TokenRequests, TokenRequest
    <2>2. CASE Restoring(w) \/ Deletes(w)
        BY <1>1, <2>2 DEF Restoring, Deletes, TokenRequests, TokenRequest, DeletionOK
    <2> QED BY <1>2, <2>1, <2>2 DEF Works
<1>3. ASSUME req[w] # NoReq, TokenObject(t) \in req[w].on PROVE Works(w, t)
    <2>1. req[w].op \in TokenWork
        BY <1>1, <1>3 DEF TokenRequests, TypedRequests, RequestsOf
    <2>2. CASE req[w].op \in {"create token", "revoke token"}
        <3>1. req[w].data.t = t
            BY <1>1, <1>3, <2>2 DEF TokenRequests, TokenRequest
        <3> QED BY <1>3, <2>2, <3>1 DEF Works, Synced, Creating, Revoking
    <2>3. CASE req[w].op \in {"restore tokens", "delete project"}
        BY <1>3, <2>3 DEF Works, Restoring, Deletes
    <2> QED BY <2>1, <2>2, <2>3 DEF TokenWork
<1> QED BY <1>2, <1>3

\* A request arrives: it and what it overlaps are in doubt of the token.
LEMMA TokensArrive ==
    ASSUME TokensInv, NEW h \in Workers, NEW op \in TokenWork, NEW on,
           TypedRequests(TokenWork, TokenObjects)', ~Ours(TokenWork, h), TokenRequest(h)',
           req'[h] # NoReq, req'[h].op = op, req'[h].on = on, req'[h].sure = on \ Hit(op, on),
           req'[h].at \in {"key", "list", "find"}, op = "restore tokens" => req'[h].at = "list",
           op = "delete project" => req'[h].at = "find",
           doubt' = doubt \cup Hit(op, on),
           \A w \in Workers \ {h} : Stays(TokenWork, w) /\ SureOf(w, op, on),
           UNCHANGED tokenVars
    PROVE  TokensInv'
<1>1. \A w \in Workers \ {h} : TokenRequest(w)' /\ \A t : SameFor(w, t)
    BY TokenStays DEF TokensInv, TokenRequests
<1>2. TokenRequests' /\ TokenTyped'
    BY <1>1 DEF TokensInv, TokenRequests, TokenTyped, tokenVars
<1>3. ASSUME NEW t \in Tokens PROVE TokenOK(t)'
    <2> DEFINE Here == TokenObject(t) \in on
    <2> DEFINE Clash(w) == Here /\ Works(w, t) /\ {req[w].op, op} \in Conflicts
    <2>1. ~Works(h, t)
        BY DEF Works, Synced, Creating, Revoking, Restoring, Deletes, Ours, TokenWork
    <2>2. Works(h, t)' <=> Here
        <3>1. TokenRequests' => (Works(h, t)' <=> (req'[h] # NoReq /\ TokenObject(t) \in req'[h].on))
            <4>1. TokenObject(t) \in TokenObjects /\ TokenObjects \subseteq Deleted /\ \A x : TokenObject(x) = TokenObject(t) => x = t
                BY DEF TokenObjects, Deleted, TokenObject
            <4>2. ASSUME op \in {"create token", "revoke token"} PROVE (TokenObject(t) \in req'[h].on) <=> (req'[h].data.t = t)
                <5>1. req'[h].on = {TokenObject(req'[h].data.t)}
                    BY <4>2 DEF TokenRequest
                <5> QED BY <4>1, <5>1
            <4>3. ASSUME op \in {"restore tokens", "delete project"} PROVE TokenObject(t) \in req'[h].on
                BY <4>1, <4>3 DEF TokenRequest, Restoring, Deletes, DeletionOK
            <4> QED BY <4>2, <4>3 DEF Works, Synced, Creating, Revoking, Restoring, Deletes, TokenWork
        <3> QED BY <1>2, <3>1
    <2>3. \A w \in Workers \ {h} : (Synced(w, t)' <=> Synced(w, t)) /\ (Works(w, t)' <=> Works(w, t))
        BY <1>1 DEF SameFor, SameSync, SameRestore, SameDeletion, Synced, Works
    <2>4. \A w \in Workers : Works(w, t) <=> (req[w] # NoReq /\ TokenObject(t) \in req[w].on)
        BY WorksIs DEF TokensInv
    <2>5. TokenObject(t) \in Hit(op, on) <=> \E w \in Workers : Clash(w)
        <3>1. \A w \in Workers : (w \in Disturbed(op, TokenObject(t)) /\ Here) <=> Clash(w)
            BY <2>4 DEF Disturbed, Busy
        <3>2. Disturbed(op, TokenObject(t)) \subseteq Workers
            BY DEF Disturbed, Busy
        <3> QED BY <3>1, <3>2 DEF Hit
    <2>6. \A w \in Workers \ {h} : Works(w, t) => (ForToken(w, t)' <=> ForToken(w, t) /\ ~Clash(w))
        <3> SUFFICES ASSUME NEW w \in Workers \ {h}, Works(w, t) PROVE ForToken(w, t)' <=> (ForToken(w, t) /\ ~Clash(w))
            OBVIOUS
        <3>1. req[w] # NoReq
            BY <2>4
        <3> QED BY <3>1 DEF SureOf, ForToken
    <2>7. ForToken(h, t)' <=> Here /\ ~\E w \in Workers : Clash(w)
        BY <2>5 DEF ForToken
    <2>8. TokenInDoubt(t)' <=> TokenInDoubt(t) \/ \E w \in Workers : Clash(w)
        BY <2>5 DEF TokenInDoubt
    <2>9. \A w \in Workers : Clash(w) <=>
            /\ Here
            /\ \/ op = "create token" /\ Works(w, t)
               \/ op = "revoke token" /\ (Creating(w, t) \/ Restoring(w))
               \/ op = "restore tokens" /\ Synced(w, t)
               \/ op = "delete project" /\ (Creating(w, t) \/ Deletes(w))
        <3>1. /\ {"create token", "create token"} \in Conflicts /\ {"revoke token", "create token"} \in Conflicts
              /\ {"restore tokens", "create token"} \in Conflicts /\ {"delete project", "create token"} \in Conflicts
            BY DEF Conflicts
        <3>2. /\ {"create token", "revoke token"} \in Conflicts /\ {"restore tokens", "revoke token"} \in Conflicts
              /\ {"create token", "restore tokens"} \in Conflicts /\ {"revoke token", "restore tokens"} \in Conflicts
            BY DEF Conflicts
        <3>3. {"create token", "delete project"} \in Conflicts /\ {"delete project", "delete project"} \in Conflicts
            BY DEF Conflicts
        <3>4. ASSUME NEW w \in Workers, Works(w, t)
              PROVE  {req[w].op, op} \in Conflicts <=>
                        \/ op = "create token"
                        \/ op = "revoke token" /\ req[w].op \in {"create token", "restore tokens"}
                        \/ op = "restore tokens" /\ req[w].op \in {"create token", "revoke token"}
                        \/ op = "delete project" /\ req[w].op \in {"create token", "delete project"}
            <4>1. req[w].op \in TokenWork
                BY <3>4 DEF Works, Synced, Creating, Revoking, Restoring, Deletes, TokenWork
            <4> QED BY <3>1, <3>2, <3>3, <4>1, ConflictFree DEF TokenWork
        <3> QED BY <3>4 DEF Works, Synced, Creating, Revoking, Restoring, Deletes, TokenWork
    <2> HIDE DEF Clash, Here
    <2>10. /\ op = "create token" /\ Here => Creating(h, t)' /\ ~Revoking(h, t)' /\ ~Restoring(h)' /\ ~Deletes(h)'
           /\ op = "revoke token" /\ Here => ~Creating(h, t)' /\ Revoking(h, t)' /\ ~Restoring(h)' /\ ~Deletes(h)'
           /\ op = "restore tokens" => Restoring(h)' /\ ~Synced(h, t)' /\ ~Deletes(h)'
           /\ op = "delete project" => Deletes(h)' /\ ~Synced(h, t)' /\ ~Restoring(h)'
        BY <2>2 DEF Works, Synced, Creating, Revoking, Restoring, Deletes
    <2>11. ~Here => ~Works(h, t)'
        BY <2>2
    <2>12. Erasing' <=> Erasing
        <3>1. ~Erases(h) /\ ~Erases(h)'
            BY <2>1, <2>10 DEF Works, Erases, Deletes
        <3> QED BY <1>1, <3>1 DEF Erasing, SameFor, SameDeletion
    <2>13. ASSUME NEW w \in Workers PROVE SyncAlone(w, t)'
        <3>1. CASE w = h
            <4> SUFFICES ASSUME Synced(h, t)' PROVE SyncAlone(h, t)'
                BY <3>1 DEF SyncAlone
            <4>1. Here /\ op \in {"create token", "revoke token"}
                BY <2>10, <2>11 DEF Works, TokenWork
            <4>2. \A x \in Workers : Restoring(x)' => Clash(x)
                <5>1. ASSUME NEW x \in Workers, Restoring(x)' PROVE Clash(x)
                    <6>1. x # h /\ Restoring(x)
                        BY <1>1, <2>10, <4>1, <5>1 DEF SameFor, SameRestore
                    <6> QED BY <2>9, <4>1, <6>1 DEF Works
                <5> QED BY <5>1
            <4>3. ASSUME NEW x \in Workers, x # h, Synced(x, t)', Creating(h, t)' PROVE ~ForToken(h, t)' /\ ~ForToken(x, t)'
                <5>1. Synced(x, t) /\ op = "create token"
                    BY <2>3, <2>10, <4>1, <4>3
                <5>2. Clash(x)
                    BY <2>9, <4>1, <5>1 DEF Works
                <5> QED BY <2>6, <2>7, <4>3, <5>1, <5>2 DEF Works
            <4>4. ASSUME NEW x \in Workers, Deletes(x)', Creating(h, t)' PROVE ~ForToken(h, t)'
                <5>1. op = "create token" /\ x # h
                    BY <2>10, <4>1, <4>4
                <5>2. Deletes(x)
                    BY <1>1, <4>4, <5>1 DEF SameFor, SameDeletion
                <5>3. Clash(x)
                    BY <2>9, <4>1, <5>1, <5>2 DEF Works
                <5> QED BY <2>7, <5>3
            <4>5. ~ForToken(h, t)' => TokenInDoubt(t)'
                BY <2>7, <2>8, <4>1
            <4>6. ASSUME NEW x \in Workers, Restoring(x)' PROVE ~ForToken(h, t)' /\ TokenInDoubt(t)'
                BY <2>7, <2>8, <4>2, <4>6
            <4> QED BY <4>3, <4>4, <4>5, <4>6 DEF SyncAlone
        <3>2. CASE w # h
            <4>1. SyncAlone(w, t) /\ SameFor(w, t) /\ (Synced(w, t)' <=> Synced(w, t)) /\ (Creating(w, t)' <=> Creating(w, t))
                BY <1>1, <2>3, <3>2 DEF TokensInv, TokenOK, SameFor, SameSync
            <4> SUFFICES ASSUME Synced(w, t) PROVE SyncAlone(w, t)'
                BY <4>1 DEF SyncAlone
            <4>2. ForToken(w, t)' <=> ForToken(w, t) /\ ~Clash(w)
                BY <2>6, <3>2 DEF Works
            <4>3. ASSUME NEW x \in Workers, Restoring(x)' PROVE ~ForToken(w, t)' /\ TokenInDoubt(t)'
                <5>1. CASE x = h
                    <6>1. op = "restore tokens" /\ Here
                        BY <2>2, <2>10, <4>3, <5>1 DEF Restoring, Works
                    <6>2. Clash(w)
                        BY <2>9, <6>1
                    <6> QED BY <2>8, <4>2, <6>2
                <5>2. CASE x # h
                    <6>1. Restoring(x)
                        BY <1>1, <4>3, <5>2 DEF SameFor, SameRestore
                    <6> QED BY <2>8, <4>1, <4>2, <6>1 DEF SyncAlone
                <5> QED BY <5>1, <5>2
            <4>4. ASSUME NEW x \in Workers, x # w, Synced(x, t)', Creating(w, t)' PROVE ~ForToken(w, t)' /\ ~ForToken(x, t)'
                <5>1. CASE x = h
                    <6>1. Here /\ op \in {"create token", "revoke token"}
                        BY <2>10, <2>11, <4>4, <5>1 DEF Works, TokenWork
                    <6>2. Clash(w)
                        BY <2>9, <4>1, <4>4, <6>1 DEF Works
                    <6> QED BY <2>7, <4>2, <5>1, <6>2
                <5>2. CASE x # h
                    <6>1. Synced(x, t)
                        BY <2>3, <4>4, <5>2
                    <6>2. ForToken(x, t)' => ForToken(x, t)
                        BY <2>6, <5>2, <6>1 DEF Works
                    <6> QED BY <4>1, <4>2, <4>4, <6>1, <6>2 DEF SyncAlone
                <5> QED BY <5>1, <5>2
            <4>5. ASSUME Creating(w, t)', ForToken(w, t)', NEW x \in Workers, Deletes(x)' PROVE FALSE
                <5>1. CASE x = h
                    <6>1. op = "delete project" /\ Here
                        BY <2>2, <2>10, <4>5, <5>1 DEF Deletes, Works
                    <6> QED BY <2>9, <4>1, <4>2, <4>5, <6>1
                <5>2. CASE x # h
                    <6>1. Deletes(x)
                        BY <1>1, <4>5, <5>2 DEF SameFor, SameDeletion
                    <6> QED BY <4>1, <4>2, <4>5, <6>1 DEF SyncAlone
                <5> QED BY <5>1, <5>2
            <4>6. Creating(w, t)' /\ ~ForToken(w, t)' => TokenInDoubt(t)'
                BY <2>8, <4>1, <4>2 DEF SyncAlone
            <4> QED BY <4>3, <4>4, <4>5, <4>6 DEF SyncAlone
        <3> QED BY <3>1, <3>2
    <2>14. ASSUME NEW w \in Workers PROVE KeySynced(w, t)'
        <3>1. CASE w = h
            BY <3>1 DEF KeySynced
        <3>2. CASE w # h
            <4>1. KeySynced(w, t) /\ SameSync(w, t) /\ (Synced(w, t)' <=> Synced(w, t))
                BY <1>1, <2>3, <3>2 DEF TokensInv, TokenOK, SameFor
            <4>2. Synced(w, t) => (ForToken(w, t)' => ForToken(w, t)) /\ (TokenInDoubt(t) => TokenInDoubt(t)')
                BY <2>6, <2>8, <3>2 DEF Works
            <4> QED BY <4>1, <4>2 DEF KeySynced, SameSync, tokenVars, Expired
        <3> QED BY <3>1, <3>2
    <2>15. ASSUME ~TokenInDoubt(t)', ~Erasing' PROVE TokenKept(t)' /\ \A w \in Workers : RestoreOK(w, t)'
        <3>1. ~TokenInDoubt(t) /\ ~Erasing /\ \A w \in Workers : ~Clash(w)
            BY <2>8, <2>12, <2>15
        <3>2. TokenKept(t) /\ \A w \in Workers : RestoreOK(w, t)
            BY <3>1 DEF TokensInv, TokenOK
        <3>3. ASSUME NEW w \in Workers, Synced(w, t), req[w].at = "row" PROVE Synced(w, t)' /\ req'[w].at = "row" /\ (Creating(w, t) => Creating(w, t)')
            <4>1. w # h
                BY <2>1, <3>3 DEF Works
            <4> QED BY <1>1, <2>3, <3>3, <4>1 DEF SameFor, SameSync
        <3>4. TokenKept(t)'
            <4>1. keys'[t] = NoToken \/ keys'[t] = told'[t] \/ t \in rowless' \/ \E w \in Workers : Creating(w, t)' /\ req'[w].at = "row"
                <5>1. CASE \E w \in Workers : Creating(w, t) /\ req[w].at = "row"
                    <6>1. PICK w \in Workers : Creating(w, t) /\ req[w].at = "row"
                        BY <5>1
                    <6>2. Creating(w, t)' /\ req'[w].at = "row"
                        BY <3>3, <6>1 DEF Synced
                    <6> QED BY <6>2
                <5>2. CASE ~\E w \in Workers : Creating(w, t) /\ req[w].at = "row"
                    BY <3>2, <5>2 DEF TokenKept, tokenVars
                <5> QED BY <5>1, <5>2
            <4>2. Live(t)' => keys'[t] = told'[t] \/ t \in lost' \/ \E w \in Workers : Synced(w, t)' /\ req'[w].at = "row"
                <5>1. CASE \E w \in Workers : Synced(w, t) /\ req[w].at = "row"
                    <6>1. PICK w \in Workers : Synced(w, t) /\ req[w].at = "row"
                        BY <5>1
                    <6>2. Synced(w, t)' /\ req'[w].at = "row"
                        BY <3>3, <6>1
                    <6> QED BY <6>2
                <5>2. CASE ~\E w \in Workers : Synced(w, t) /\ req[w].at = "row"
                    BY <3>2, <5>2 DEF TokenKept, tokenVars, Live, Expired
                <5> QED BY <5>1, <5>2
            <4>3. t \notin rowless' => rows'[t] = told'[t] \/ (rows'[t] = NoToken /\ Expired(told[t])')
                BY <3>2 DEF TokenKept, tokenVars, Expired
            <4> QED BY <4>1, <4>2, <4>3 DEF TokenKept
        <3>5. ASSUME NEW w \in Workers PROVE RestoreOK(w, t)'
            <4>1. CASE w = h
                <5>1. ~Listed(h)'
                    BY DEF Listed, Restoring
                <5> QED BY <4>1, <5>1 DEF RestoreOK, Pending, Setting, Done
            <4>2. CASE w # h
                <5>1. RestoreOK(w, t) /\ SameRestore(w, t) /\ (Done(w, t) => Works(w, t))
                    BY <1>1, <3>2, <4>2 DEF SameFor, Done, Listed, Works
                <5>2. Done(w, t) => (ForToken(w, t)' => ForToken(w, t))
                    BY <2>6, <4>2, <5>1
                <5>3. Pending(w, t) \/ Setting(w, t) => Found(w, t)' = Found(w, t)
                    BY <5>1 DEF SameRestore, Found
                <5>4. Live(t)' <=> Live(t)
                    BY DEF Live, Expired, tokenVars
                <5> QED BY <5>1, <5>2, <5>3, <5>4 DEF RestoreOK, SameRestore, tokenVars
            <4> QED BY <4>1, <4>2
        <3> QED BY <3>4, <3>5
    <2> QED BY <2>13, <2>14, <2>15 DEF TokenOK
<1> QED BY <1>2, <1>3 DEF TokensInv

\* A request about tokens arrives.
LEMMA TokenBegins ==
    ASSUME TokensInv, NEW h \in Workers, SyncCreate(h) \/ SyncRevoke(h) \/ Restore(h)
    PROVE  TokensInv'
<1>1. TypedRequests(TokenWork, TokenObjects) /\ RequestsOf(TokenWork, TokenObjects) /\ calls \in Nat
    BY DEF TokensInv, TokenRequests, TypedRequests, RequestsOf
<1>2. ASSUME NEW o \in {"create token", "revoke token"}, NEW t \in Tokens, NEW new \in TokenRow,
             o = "revoke token" => new = NoToken,
             Begin(h, o, {TokenObject(t)}, "key", [t |-> t, new |-> new]), UNCHANGED tokenVars
      PROVE  TokensInv'
    <2>1. PICK on, at, data : on = {TokenObject(t)} /\ at = "key" /\ data = [t |-> t, new |-> new]
        OBVIOUS
    <2>2. Arrived(h, o, on, at, data) /\ h \in Handlers
        BY <1>1, <1>2, <2>1, CalledArrives DEF Begin, Called
    <2>3. data \in [t : Tokens, new : TokenRow] /\ data.t = t /\ data.new = new
        BY <2>1
    <2>4. o \in TokenWork /\ o \in Operations /\ on \subseteq Objects /\ at \in Awaits /\ data \in RequestData
        BY <1>2, <2>1, <2>3 DEF TokenWork, Operations, Objects, Awaits, RequestData, TokenObjects
    <2>5. /\ TypedRequests(TokenWork, TokenObjects)'
          /\ ~Ours(TokenWork, h) /\ Ours(TokenWork, h)'
          /\ req'[h].op = o /\ req'[h].on = on /\ req'[h].at = at /\ req'[h].data = data
          /\ req'[h].sure = on \ Hit(o, on)
          /\ \A w \in Workers \ {h} : Stays(TokenWork, w) /\ SureOf(w, o, on)
        BY ONLY <1>1, <2>2, <2>4, h \in Workers, ArrivedStays
    <2>6. TokenRequest(h)' /\ req'[h] # NoReq
        BY <1>2, <2>1, <2>2, <2>3, <2>5 DEF TokenRequest, Restoring, Deletes, Ours
    <2>7. doubt' = doubt \cup Hit(o, on)
        BY <2>2 DEF Arrived
    <2>8. o \notin {"restore tokens", "delete project"} /\ req'[h].at \in {"key", "list", "find"}
        BY <1>2, <2>1, <2>5
    <2> QED BY <1>2, <2>4, <2>5, <2>6, <2>7, <2>8, TokensArrive
<1>3. CASE SyncCreate(h)
    <2>1. PICK t \in Tokens, dies \in BOOLEAN :
            Begin(h, "create token", {TokenObject(t)}, "key", [t |-> t, new |-> [rev |-> calls, dies |-> dies]]) /\ UNCHANGED tokenVars
        BY <1>3 DEF SyncCreate
    <2>2. PICK new : new = [rev |-> calls, dies |-> dies]
        OBVIOUS
    <2>3. new \in TokenRow
        BY <1>1, <2>2 DEF TokenRow
    <2> QED BY <1>2, <2>1, <2>2, <2>3
<1>4. CASE SyncRevoke(h)
    <2>1. PICK t \in Tokens :
            Begin(h, "revoke token", {TokenObject(t)}, "key", [t |-> t, new |-> NoToken]) /\ UNCHANGED tokenVars
        BY <1>4 DEF SyncRevoke
    <2>2. NoToken \in TokenRow
        BY DEF NoToken, TokenRow
    <2> QED BY <1>2, <2>1, <2>2
<1>5. CASE Restore(h)
    <2>1. PICK o, on, at, data : o = "restore tokens" /\ on = TokenObjects /\ at = "list" /\ data = NoData
        OBVIOUS
    <2>2. Arrived(h, o, on, at, data) /\ UNCHANGED tokenVars
        BY <1>1, <1>5, <2>1, CalledArrives DEF Restore, Begin
    <2>3. o \in TokenWork /\ o \in Operations /\ on \subseteq Objects /\ at \in Awaits /\ data \in RequestData
        BY <2>1 DEF TokenWork, Operations, Objects, Awaits, RequestData
    <2>4. /\ TypedRequests(TokenWork, TokenObjects)'
          /\ ~Ours(TokenWork, h) /\ Ours(TokenWork, h)'
          /\ req'[h].op = o /\ req'[h].on = on /\ req'[h].at = at /\ req'[h].data = data
          /\ req'[h].sure = on \ Hit(o, on)
          /\ \A w \in Workers \ {h} : Stays(TokenWork, w) /\ SureOf(w, o, on)
        BY ONLY <1>1, <2>2, <2>3, h \in Workers, ArrivedStays
    <2>5. TokenRequest(h)' /\ req'[h] # NoReq
        BY <2>1, <2>4 DEF TokenRequest, Restoring, Deletes, Ours
    <2>6. doubt' = doubt \cup Hit(o, on)
        BY <2>2 DEF Arrived
    <2>7. o # "delete project" /\ req'[h].at \in {"key", "list", "find"} /\ req'[h].at = "list"
        BY <2>1, <2>4
    <2> QED BY <2>2, <2>3, <2>4, <2>5, <2>6, <2>7, TokensArrive
<1> QED BY <1>3, <1>4, <1>5

\* What a request that moves on or ends leaves of the others.
LEMMA TokenEnds ==
    ASSUME TokensInv, NEW h \in Workers, Put(h, NoReq), calls' = calls
    PROVE  /\ TokenRequests'
           /\ \A t : ~Works(h, t)'
           /\ \A w \in Workers \ {h} : req'[w] = req[w] /\ \A t : SameFor(w, t) /\ (ForToken(w, t)' <=> ForToken(w, t))
<1>1. /\ TypedRequests(TokenWork, TokenObjects)' /\ req'[h] = NoReq
      /\ \A w \in Workers \ {h} : req'[w] = req[w]
    BY EndedStays DEF TokensInv, TokenRequests
<1>2. \A t : ~Works(h, t)'
    BY <1>1 DEF Works, Synced, Creating, Revoking, Restoring, Deletes
<1>3. TokenRequest(h)'
    BY <1>1 DEF TokenRequest, Restoring, Deletes
<1>4. ASSUME NEW w \in Workers \ {h} PROVE TokenRequest(w)' /\ \A t : SameFor(w, t) /\ (ForToken(w, t)' <=> ForToken(w, t))
    <2>1. req'[w] = req[w] /\ TokenRequest(w)
        BY <1>1 DEF TokensInv, TokenRequests
    <2>2. Stays(TokenWork, w)
        BY <2>1, SameStays
    <2> QED BY <2>1, <2>2, TokenStays DEF ForToken
<1> QED BY <1>1, <1>2, <1>3, <1>4 DEF TokenRequests

\* A token's request that moves on leaves the other requests, and every token's part in them, alone.
LEMMA TokenMoves ==
    ASSUME TokensInv, NEW h \in Workers, Ours(TokenWork, h), NEW at, NEW data,
           Put(h, Moved(req[h], at, data)), calls' = calls, at \in Awaits, data \in RequestData
    PROVE  /\ TypedRequests(TokenWork, TokenObjects)' /\ TokenRequest(h)' => TokenRequests'
           /\ TypedRequests(TokenWork, TokenObjects)'
           /\ Ours(TokenWork, h)' /\ req'[h] # NoReq /\ req'[h].op = req[h].op /\ req'[h].on = req[h].on /\ req'[h].at = at
           /\ req'[h].data = data /\ req'[h].sure = req[h].sure
           /\ \A w \in Workers \ {h} : req'[w] = req[w] /\ \A t : SameFor(w, t) /\ (ForToken(w, t)' <=> ForToken(w, t))
<1>1. TypedRequests(TokenWork, TokenObjects)
    BY DEF TokensInv, TokenRequests
<1>2. /\ TypedRequests(TokenWork, TokenObjects)'
      /\ Ours(TokenWork, h)' /\ req'[h] # NoReq /\ req'[h].op = req[h].op /\ req'[h].on = req[h].on /\ req'[h].at = at
      /\ req'[h].data = data /\ req'[h].sure = req[h].sure
      /\ \A w \in Workers \ {h} : req'[w] = req[w]
    BY ONLY <1>1, h \in Workers, Ours(TokenWork, h), Put(h, Moved(req[h], at, data)), calls' = calls, at \in Awaits,
            data \in RequestData, MovedStays
<1>3. ASSUME NEW w \in Workers \ {h} PROVE TokenRequest(w)' /\ \A t : SameFor(w, t) /\ (ForToken(w, t)' <=> ForToken(w, t))
    <2>1. req'[w] = req[w] /\ TokenRequest(w)
        BY <1>2 DEF TokensInv, TokenRequests
    <2>2. Stays(TokenWork, w)
        BY <2>1, SameStays
    <2> QED BY <2>1, <2>2, TokenStays DEF ForToken
<1> QED BY <1>2, <1>3 DEF TokenRequests

\* What a step that starts no request about a token keeps of their being alone.
LEMMA AloneStays ==
    ASSUME NEW t, TokenOK(t),
           \A w \in Workers : /\ Creating(w, t)' => Creating(w, t)
                              /\ Revoking(w, t)' => Revoking(w, t)
                              /\ Restoring(w)' => Restoring(w)
                              /\ Deletes(w)' => Deletes(w)
                              /\ Synced(w, t)' => (ForToken(w, t)' <=> ForToken(w, t)),
           \/ TokenInDoubt(t)' \/ ~TokenInDoubt(t)
           \/ \A w \in Workers : /\ Creating(w, t)' => ForToken(w, t)
                                 /\ Synced(w, t)' => \A x \in Workers : ~Restoring(x)'
    PROVE  \A w \in Workers : SyncAlone(w, t)'
<1> SUFFICES ASSUME NEW w \in Workers PROVE SyncAlone(w, t)'
    OBVIOUS
<1>1. SyncAlone(w, t) /\ \A x \in Workers : Synced(x, t)' => Synced(x, t)
    BY DEF TokenOK, Synced
<1> QED BY <1>1 DEF SyncAlone

\* What two requests that sync a token may be to each other.
LEMMA SyncsTogether ==
    ASSUME NEW t, TokenOK(t), NEW h \in Workers, NEW w \in Workers, w # h, Synced(h, t), Synced(w, t)
    PROVE  \/ ~ForToken(h, t) /\ ~ForToken(w, t) /\ (Creating(h, t) => TokenInDoubt(t))
           \/ Revoking(h, t) /\ Revoking(w, t) /\ ~Creating(h, t) /\ ~Creating(w, t)
<1>1. SyncAlone(h, t) /\ SyncAlone(w, t)
    BY DEF TokenOK
<1> QED BY <1>1 DEF SyncAlone, Synced

\* The key is made or deleted, with or without an answer of Redis.
LEMMA SyncedKey ==
    ASSUME TokensInv, NEW h \in Workers, SyncKey(h) \/ SyncKeyFails(h)
    PROVE  TokensInv'
<1>1. TypedRequests(TokenWork, TokenObjects) /\ RequestsOf(TokenWork, TokenObjects)
    BY DEF TokensInv, TokenRequests, TypedRequests
<1>2. req[h] # NoReq /\ req[h].op \in {"create token", "revoke token"} /\ req[h].at = "key" /\ Ours(TokenWork, h) /\ TokenRequest(h)
    BY DEF SyncKey, SyncKeyFails, Syncing, At, Ours, TokenWork, TokensInv, TokenRequests
<1>3. PICK t \in Tokens, new \in TokenRow : req[h].data.t = t /\ req[h].data.new = new
    BY <1>2 DEF TokenRequest
<1>4. /\ req[h].data \in [t : Tokens, new : TokenRow] /\ req[h].on = {TokenObject(t)}
      /\ req[h].op = "revoke token" => new = NoToken
    BY <1>2, <1>3 DEF TokenRequest
<1>5. /\ Synced(h, t) /\ ~Restoring(h) /\ ~Deletes(h) /\ \A x : x # t => ~Synced(h, x)
      /\ Revoking(h, t) => new = NoToken
    BY <1>2, <1>3, <1>4 DEF Synced, Creating, Revoking, Restoring, Deletes
<1>6. keys \in [Tokens -> TokenRow] /\ NoToken \in TokenRow
    BY DEF TokensInv, TokenTyped, NoToken, TokenRow
<1>7. \A x : x # t => TokenObject(x) # TokenObject(t)
    BY DEF TokenObject
<1>8. ASSUME NEW w \in Workers \ {h}, Synced(w, t), req[w].at = "row",
             SameFor(w, t), ForToken(w, t)' <=> ForToken(w, t), keys'[t] \in {keys[t], new}, late' = late,
             TokenInDoubt(t) => TokenInDoubt(t)'
      PROVE  KeySynced(w, t)'
    <2>1. KeySynced(w, t) /\ TokenOK(t)
        BY DEF TokensInv, TokenOK
    <2>2. /\ Synced(w, t)' /\ (Revoking(w, t)' <=> Revoking(w, t)) /\ req'[w].data = req[w].data
        BY <1>8 DEF SameFor, SameSync, Synced
    <2>3. CASE ~ForToken(h, t) /\ ~ForToken(w, t) /\ (Creating(h, t) => TokenInDoubt(t))
        <3>1. Revoking(h, t) \/ TokenInDoubt(t)'
            BY <1>5, <1>8, <2>3 DEF Synced
        <3>2. (Revoking(w, t)' /\ ~TokenInDoubt(t)') => keys'[t] = NoToken
            BY <1>5, <1>8, <2>1, <2>2, <3>1 DEF KeySynced
        <3> QED BY <1>8, <2>3, <3>2 DEF KeySynced
    <2>4. CASE Revoking(h, t) /\ Revoking(w, t)
        <3>1. TokenRequest(w)
            BY DEF TokensInv, TokenRequests
        <3>2. req[w].data.new = NoToken
            BY <2>4, <3>1 DEF TokenRequest, Revoking
        <3>3. ForToken(w, t)' => keys'[t] = NoToken
            BY <1>5, <1>8, <2>1, <2>4, <3>2 DEF KeySynced
        <3>4. (Revoking(w, t)' /\ ~TokenInDoubt(t)') => keys'[t] = NoToken
            BY <1>5, <1>8, <2>1, <2>4 DEF KeySynced
        <3> QED BY <2>2, <3>2, <3>3, <3>4 DEF KeySynced
    <2> QED BY <1>5, <1>8, <2>1, <2>3, <2>4, SyncsTogether
<1>9. CASE SyncKey(h)
    <2>1. PICK at, data : at = "row" /\ data = req[h].data
        OBVIOUS
    <2>2. at \in Awaits /\ data \in RequestData
        BY <1>4, <2>1 DEF Awaits, RequestData
    <2>3. Go(h, "row", req[h].data) /\ keys' = [keys EXCEPT ![t] = new] /\ UNCHANGED <<rows, late, told, lost, rowless>>
        BY <1>3, <1>9 DEF SyncKey
    <2>4. Put(h, Moved(req[h], at, data)) /\ UNCHANGED <<doubt, calls, menu>>
        BY <1>1, <1>2, <2>1, <2>3, GoPuts
    <2>5. /\ TypedRequests(TokenWork, TokenObjects)' /\ TokenRequest(h)' => TokenRequests'
          /\ TypedRequests(TokenWork, TokenObjects)'
          /\ Ours(TokenWork, h)' /\ req'[h] # NoReq /\ req'[h].op = req[h].op /\ req'[h].on = req[h].on /\ req'[h].at = at
          /\ req'[h].data = data /\ req'[h].sure = req[h].sure
          /\ \A w \in Workers \ {h} : req'[w] = req[w] /\ \A x : SameFor(w, x) /\ (ForToken(w, x)' <=> ForToken(w, x))
        BY ONLY TokensInv, <1>2, <2>2, <2>4, h \in Workers, TokenMoves
    <2>6. TokenRequest(h)'
        BY <1>2, <1>4, <2>1, <2>5 DEF TokenRequest, Restoring, Deletes
    <2>7. /\ \A x : (Creating(h, x)' <=> Creating(h, x)) /\ (Revoking(h, x)' <=> Revoking(h, x)) /\ (ForToken(h, x)' <=> ForToken(h, x))
          /\ ~Restoring(h)' /\ ~Deletes(h)' /\ req'[h].at = "row"
        BY <1>2, <2>1, <2>5 DEF Creating, Revoking, ForToken, Restoring, Deletes
    <2>8. ASSUME NEW x \in Tokens, x # t PROVE TokenOK(x)'
        <3>1. SameFor(h, x)
            BY <1>5, <2>7, <2>8 DEF SameFor, SameSync, SameRestore, SameDeletion, Synced, Pending, Setting, Done, Listed, Erases
        <3>2. keys'[x] = keys[x] /\ (TokenInDoubt(x)' <=> TokenInDoubt(x))
            BY <1>6, <2>3, <2>4, <2>8 DEF TokenInDoubt
        <3>3. SameToken(x)
            BY <2>3, <2>5, <2>7, <3>1, <3>2 DEF SameToken
        <3> QED BY <3>3, TokenSame DEF TokensInv
    <2>9. TokenOK(t)'
        <3>1. keys'[t] = new /\ (TokenInDoubt(t)' <=> TokenInDoubt(t)) /\ TokenOK(t)
            BY <1>6, <2>3, <2>4 DEF TokenInDoubt, TokensInv
        <3>2. \A w \in Workers : /\ Creating(w, t)' => Creating(w, t)
                                 /\ Revoking(w, t)' => Revoking(w, t)
                                 /\ Restoring(w)' => Restoring(w)
                                 /\ Deletes(w)' => Deletes(w)
                                 /\ Synced(w, t)' => (ForToken(w, t)' <=> ForToken(w, t))
            BY <2>5, <2>7 DEF SameFor, SameSync, SameRestore, SameDeletion
        <3>3. \A w \in Workers : SyncAlone(w, t)'
            BY <3>1, <3>2, AloneStays
        <3>4. ASSUME NEW w \in Workers PROVE KeySynced(w, t)'
            <4>1. CASE w = h
                <5>1. req'[h].data.new = new /\ (Revoking(h, t)' => new = NoToken)
                    BY <1>3, <1>5, <2>1, <2>5, <2>7
                <5> QED BY <3>1, <4>1, <5>1 DEF KeySynced
            <4>2. CASE w # h /\ ~(Synced(w, t) /\ req[w].at = "row")
                BY <2>5, <4>2 DEF KeySynced, SameFor, SameSync, Synced
            <4>3. CASE w # h /\ Synced(w, t) /\ req[w].at = "row"
                BY <1>8, <2>3, <2>5, <3>1, <4>3
            <4> QED BY <4>1, <4>2, <4>3
        <3>5. ASSUME ~TokenInDoubt(t)', ~Erasing' PROVE TokenKept(t)' /\ \A w \in Workers : RestoreOK(w, t)'
            <4>1. ~TokenInDoubt(t) /\ ~Erasing
                BY <2>5, <2>7, <3>1, <3>5, <1>5 DEF Erasing, Erases, SameFor, SameDeletion
            <4>2. \A w \in Workers : ~Restoring(w)'
                BY <1>5, <3>1, <3>2, <4>1 DEF TokenOK, SyncAlone
            <4>3. TokenKept(t)
                BY <3>1, <4>1 DEF TokenOK
            <4>4. Synced(h, t)' /\ req'[h].at = "row"
                BY <1>5, <2>7 DEF Synced
            <4>5. keys'[t] = NoToken \/ (Creating(h, t)' /\ req'[h].at = "row")
                BY <1>5, <2>7, <3>1 DEF Synced
            <4>6. t \notin rowless' => rows'[t] = told'[t] \/ (rows'[t] = NoToken /\ Expired(told[t])')
                BY <2>3, <4>3 DEF TokenKept, Expired
            <4>7. TokenKept(t)'
                BY <4>4, <4>5, <4>6 DEF TokenKept
            <4>8. \A w \in Workers : RestoreOK(w, t)'
                BY <4>2 DEF RestoreOK, Pending, Setting, Done, Listed
            <4> QED BY <4>7, <4>8
        <3> QED BY <3>3, <3>4, <3>5 DEF TokenOK
    <2>10. TokenTyped'
        BY <1>6, <2>3 DEF TokensInv, TokenTyped
    <2> QED BY <2>5, <2>6, <2>8, <2>9, <2>10 DEF TokensInv
<1>10. CASE SyncKeyFails(h)
    <2>1. /\ keys' \in {keys, [keys EXCEPT ![t] = new]} /\ Fail(h, {TokenObject(t)})
          /\ UNCHANGED <<rows, late, told, lost, rowless>>
        BY <1>3, <1>10 DEF SyncKeyFails
    <2>2. Put(h, NoReq) /\ doubt' = doubt \cup {TokenObject(t)} /\ UNCHANGED <<calls, menu>>
        BY <1>1, <2>1, EndPuts
    <2>3. /\ TokenRequests'
          /\ \A x : ~Works(h, x)'
          /\ \A w \in Workers \ {h} : req'[w] = req[w] /\ \A x : SameFor(w, x) /\ (ForToken(w, x)' <=> ForToken(w, x))
        BY <2>2, TokenEnds
    <2>4. \A x : ~Creating(h, x)' /\ ~Revoking(h, x)' /\ ~Restoring(h)' /\ ~Deletes(h)'
        BY <2>3 DEF Works, Synced
    <2>5. ASSUME NEW x \in Tokens, x # t PROVE TokenOK(x)'
        <3>1. SameFor(h, x) /\ ~Synced(h, x)
            BY <1>5, <2>4, <2>5 DEF SameFor, SameSync, SameRestore, SameDeletion, Synced, Pending, Setting, Done, Listed, Erases
        <3>2. keys'[x] = keys[x] /\ (TokenInDoubt(x)' <=> TokenInDoubt(x))
            BY <1>6, <1>7, <2>1, <2>2, <2>5 DEF TokenInDoubt
        <3>3. SameToken(x)
            BY <1>5, <2>1, <2>3, <3>1, <3>2 DEF SameToken
        <3> QED BY <3>3, TokenSame DEF TokensInv
    <2>6. TokenOK(t)'
        <3>1. keys'[t] \in {keys[t], new} /\ TokenInDoubt(t)' /\ TokenOK(t)
            BY <1>6, <2>1, <2>2 DEF TokenInDoubt, TokensInv
        <3>2. \A w \in Workers : /\ Creating(w, t)' => Creating(w, t)
                                 /\ Revoking(w, t)' => Revoking(w, t)
                                 /\ Restoring(w)' => Restoring(w)
                                 /\ Deletes(w)' => Deletes(w)
                                 /\ Synced(w, t)' => (ForToken(w, t)' <=> ForToken(w, t))
            BY <2>3, <2>4 DEF SameFor, SameSync, SameRestore, SameDeletion, Synced
        <3>3. \A w \in Workers : SyncAlone(w, t)'
            BY <3>1, <3>2, AloneStays
        <3>4. ASSUME NEW w \in Workers PROVE KeySynced(w, t)'
            <4>1. CASE w = h
                BY <2>4, <4>1 DEF KeySynced, Synced
            <4>2. CASE w # h /\ ~(Synced(w, t) /\ req[w].at = "row")
                BY <2>3, <4>2 DEF KeySynced, SameFor, SameSync, Synced
            <4>3. CASE w # h /\ Synced(w, t) /\ req[w].at = "row"
                BY <1>8, <2>1, <2>3, <3>1, <4>3
            <4> QED BY <4>1, <4>2, <4>3
        <3> QED BY <3>1, <3>3, <3>4 DEF TokenOK
    <2>7. TokenTyped'
        BY <1>6, <2>1 DEF TokensInv, TokenTyped
    <2> QED BY <2>3, <2>5, <2>6, <2>7 DEF TokensInv
<1> QED BY <1>9, <1>10

\* The row follows, or its failure is swallowed: the sync is answered.
LEMMA SyncedRow ==
    ASSUME TokensInv, NEW h \in Workers, SyncRow(h) \/ SyncRowFails(h)
    PROVE  TokensInv'
<1>1. TypedRequests(TokenWork, TokenObjects) /\ RequestsOf(TokenWork, TokenObjects)
    BY DEF TokensInv, TokenRequests, TypedRequests
<1>2. req[h] # NoReq /\ req[h].op \in {"create token", "revoke token"} /\ req[h].at = "row" /\ Ours(TokenWork, h) /\ TokenRequest(h)
    BY DEF SyncRow, SyncRowFails, Syncing, At, Ours, TokenWork, TokensInv, TokenRequests
<1>3. PICK t \in Tokens, new \in TokenRow : req[h].data.t = t /\ req[h].data.new = new
    BY <1>2 DEF TokenRequest
<1>4. /\ req[h].on = {TokenObject(t)} /\ req[h].sure \subseteq req[h].on
      /\ req[h].op = "revoke token" => new = NoToken
    BY <1>1, <1>2, <1>3 DEF TokenRequest, RequestsOf
<1>5. /\ Synced(h, t) /\ ~Restoring(h) /\ ~Deletes(h) /\ \A x : x # t => ~Synced(h, x)
      /\ Revoking(h, t) => new = NoToken
    BY <1>2, <1>3, <1>4 DEF Synced, Creating, Revoking, Restoring, Deletes
<1>6. TokenTyped
    BY DEF TokensInv
<1>7. \A x : x # t => TokenObject(x) # TokenObject(t)
    BY DEF TokenObject
<1>8. /\ \/ rows' = [rows EXCEPT ![t] = new] /\ rowless' = rowless \ {t}
         \/ rows' = rows /\ rowless' = rowless \cup {t}
      /\ told' = [told EXCEPT ![t] = new] /\ lost' = WholeAgain(h) /\ UNCHANGED <<keys, late>>
      /\ Finish(h, {TokenObject(t)}) \/ FinishAnyway(h, {TokenObject(t)})
    BY <1>3 DEF SyncRow, SyncRowFails
<1>9. Put(h, NoReq) /\ doubt' = doubt \ ({TokenObject(t)} \cap req[h].sure) /\ UNCHANGED <<calls, menu>>
    BY <1>1, <1>8, EndPuts
<1>10. /\ TokenRequests'
       /\ \A x : ~Works(h, x)'
       /\ \A w \in Workers \ {h} : req'[w] = req[w] /\ \A x : SameFor(w, x) /\ (ForToken(w, x)' <=> ForToken(w, x))
    BY <1>9, TokenEnds
<1>11. \A x : ~Creating(h, x)' /\ ~Revoking(h, x)' /\ ~Restoring(h)' /\ ~Deletes(h)'
    BY <1>10 DEF Works, Synced
<1>12. TokenTyped'
    BY <1>6, <1>8 DEF TokenTyped
<1>13. ASSUME NEW x \in Tokens, x # t PROVE TokenOK(x)'
    <2>1. SameFor(h, x) /\ ~Synced(h, x)
        BY <1>5, <1>11, <1>13 DEF SameFor, SameSync, SameRestore, SameDeletion, Synced, Pending, Setting, Done, Listed, Erases
    <2>2. keys'[x] = keys[x] /\ rows'[x] = rows[x] /\ told'[x] = told[x] /\ late' = late /\ (x \in rowless' <=> x \in rowless)
        BY <1>6, <1>8, <1>13 DEF TokenTyped
    <2>3. TokenInDoubt(x)' <=> TokenInDoubt(x)
        BY <1>7, <1>9, <1>13 DEF TokenInDoubt
    <2>4. x \in lost' <=> x \in lost
        BY <1>4, <1>7, <1>8, <1>13 DEF WholeAgain
    <2>5. SameToken(x)
        BY <1>5, <1>10, <2>1, <2>2, <2>3, <2>4 DEF SameToken
    <2> QED BY <2>5, TokenSame DEF TokensInv
<1>14. TokenOK(t)'
    <2>1. TokenOK(t) /\ SyncAlone(h, t) /\ KeySynced(h, t) /\ TokenRequest(h)
        BY DEF TokensInv, TokenOK, TokenRequests
    <2>2. /\ TokenInDoubt(t)' <=> TokenInDoubt(t) /\ ~ForToken(h, t)
          /\ keys'[t] = keys[t] /\ told'[t] = new
        BY <1>6, <1>8, <1>9 DEF TokenInDoubt, ForToken, TokenTyped
    <2>3. \A w \in Workers : /\ Creating(w, t)' => Creating(w, t)
                             /\ Revoking(w, t)' => Revoking(w, t)
                             /\ Restoring(w)' => Restoring(w)
                             /\ Deletes(w)' => Deletes(w)
                             /\ Synced(w, t)' => (ForToken(w, t)' <=> ForToken(w, t))
        BY <1>10, <1>11 DEF SameFor, SameSync, SameRestore, SameDeletion, Synced
    <2>4. ForToken(h, t) => \A x \in Workers : ~Restoring(x) /\ (x # h => ~Creating(x, t))
        <3>1. ForToken(h, t) => \A x \in Workers : ~Restoring(x)
            BY <1>5, <2>1 DEF SyncAlone
        <3>2. ASSUME NEW x \in Workers, x # h, Creating(x, t) PROVE ~ForToken(h, t)
            BY <1>5, <2>1, <3>2, SyncsTogether DEF Synced
        <3> QED BY <3>1, <3>2
    <2>5. \A w \in Workers : SyncAlone(w, t)'
        <3>1. \/ TokenInDoubt(t)' \/ ~TokenInDoubt(t)
              \/ \A w \in Workers : /\ Creating(w, t)' => ForToken(w, t)
                                    /\ Synced(w, t)' => \A x \in Workers : ~Restoring(x)'
            BY <1>11, <2>2, <2>3, <2>4
        <3> QED BY <2>1, <2>3, <3>1, AloneStays
    <2>6. ASSUME NEW w \in Workers PROVE KeySynced(w, t)'
        <3>1. CASE w = h
            BY <1>11, <3>1 DEF KeySynced, Synced
        <3>2. CASE w # h
            <4>1. KeySynced(w, t) /\ SameSync(w, t) /\ (ForToken(w, t)' <=> ForToken(w, t))
                BY <1>10, <2>1, <3>2 DEF TokenOK, SameFor
            <4>2. ASSUME Revoking(w, t)', req'[w].at = "row", ~TokenInDoubt(t)' PROVE keys'[t] = NoToken
                <5>1. Revoking(w, t) /\ req[w].at = "row"
                    BY <1>10, <2>3, <3>2, <4>2
                <5>2. CASE ~TokenInDoubt(t)
                    BY <2>2, <4>1, <5>1, <5>2 DEF KeySynced, Synced
                <5>3. CASE ForToken(h, t)
                    <6>1. Revoking(h, t)
                        BY <1>5, <2>1, <3>2, <5>1, <5>3, SyncsTogether DEF Synced
                    <6> QED BY <1>2, <1>3, <1>5, <2>1, <2>2, <5>3, <6>1 DEF KeySynced
                <5> QED BY <2>2, <4>2, <5>2, <5>3
            <4>3. (Synced(w, t)' /\ req'[w].at = "row" /\ ForToken(w, t)') =>
                    keys'[t] = req'[w].data.new \/ (keys'[t] = NoToken /\ Expired(req[w].data.new)')
                <5>1. Expired(req[w].data.new)' <=> Expired(req'[w].data.new)
                    BY <1>8, <1>10, <3>2 DEF Expired
                <5> QED BY <1>8, <1>10, <2>2, <3>2, <4>1, <5>1 DEF KeySynced, SameSync, Synced, Expired
            <4> QED BY <4>2, <4>3 DEF KeySynced
        <3> QED BY <3>1, <3>2
    <2>7. ASSUME ~TokenInDoubt(t)', ~Erasing' PROVE TokenKept(t)' /\ \A w \in Workers : RestoreOK(w, t)'
        <3>1. ~ForToken(h, t) => ~TokenInDoubt(t)
            BY <2>2, <2>7
        <3>2. keys[t] = new \/ (keys[t] = NoToken /\ Expired(new))
            <4>1. CASE ForToken(h, t)
                BY <1>2, <1>3, <1>5, <2>1, <4>1 DEF KeySynced
            <4>2. CASE ~ForToken(h, t)
                <5>1. Revoking(h, t)
                    BY <1>5, <2>1, <3>1, <4>2 DEF SyncAlone, Synced
                <5> QED BY <1>2, <1>5, <2>1, <3>1, <4>2, <5>1 DEF KeySynced
            <4> QED BY <4>1, <4>2
        <3>3. \A x \in Workers : ~Restoring(x)'
            BY <1>5, <2>1, <2>3, <3>1 DEF SyncAlone
        <3>4. t \notin rowless' => rows'[t] = told'[t]
            BY <1>6, <1>8, <2>2 DEF TokenTyped
        <3>5. keys'[t] = NoToken \/ keys'[t] = told'[t]
            BY <2>2, <3>2
        <3>6. Live(t)' => keys'[t] = told'[t]
            BY <1>8, <2>2, <3>2 DEF Live, Expired
        <3>7. TokenKept(t)'
            BY <3>4, <3>5, <3>6 DEF TokenKept
        <3> QED BY <3>3, <3>7 DEF RestoreOK, Pending, Setting, Done, Listed
    <2> QED BY <2>5, <2>6, <2>7 DEF TokenOK
<1> QED BY <1>10, <1>12, <1>13, <1>14 DEF TokensInv

\* While a restore is at work every sync of a token is in doubt of it, so what a step of the
\* restore has to keep is what is known of a token that nothing syncs.
LEMMA RestoreKeeps ==
    ASSUME TokensInv, NEW h \in Workers, Restoring(h), NEW t \in Tokens,
           \A w \in Workers \ {h} : SameFor(w, t) /\ (ForToken(w, t)' <=> ForToken(w, t)),
           ~Synced(h, t)', ~Deletes(h)', doubt' = doubt,
           (/\ ~TokenInDoubt(t) /\ TokenKept(t) /\ \A w \in Workers : RestoreOK(w, t)
            /\ \A w \in Workers : ~Synced(w, t)) => TokenKept(t)' /\ \A w \in Workers : RestoreOK(w, t)'
    PROVE  TokenOK(t)'
<1>1. TokenOK(t) /\ (TokenInDoubt(t)' <=> TokenInDoubt(t)) /\ ~Deletes(h)
    BY DEF TokensInv, TokenInDoubt, Restoring, Deletes
<1>2. \A w \in Workers : /\ Creating(w, t)' => Creating(w, t)
                         /\ Revoking(w, t)' => Revoking(w, t)
                         /\ Restoring(w)' => Restoring(w)
                         /\ Deletes(w)' => Deletes(w)
                         /\ Synced(w, t)' => (ForToken(w, t)' <=> ForToken(w, t))
    BY DEF SameFor, SameSync, SameRestore, SameDeletion, Synced
<1>3. \A w \in Workers : SyncAlone(w, t)'
    BY <1>1, <1>2, AloneStays
<1>4. \A w \in Workers : Synced(w, t) => ~ForToken(w, t) /\ TokenInDoubt(t)
    BY <1>1 DEF TokenOK, SyncAlone
<1>5. ASSUME NEW w \in Workers PROVE KeySynced(w, t)'
    <2>1. Synced(w, t)' => ~ForToken(w, t)' /\ TokenInDoubt(t)'
        BY <1>1, <1>2, <1>4 DEF Synced
    <2> QED BY <2>1 DEF KeySynced
<1>6. Erasing' <=> Erasing
    BY <1>1 DEF Erasing, Erases, SameFor, SameDeletion
<1>7. ASSUME ~TokenInDoubt(t)', ~Erasing' PROVE TokenKept(t)' /\ \A w \in Workers : RestoreOK(w, t)'
    BY <1>1, <1>4, <1>6, <1>7 DEF TokenOK
<1> QED BY <1>3, <1>5, <1>7 DEF TokenOK

\* What another restore has of it.
LEMMA RestoreSame ==
    ASSUME NEW w, NEW t, RestoreOK(w, t), SameFor(w, t), ForToken(w, t)' <=> ForToken(w, t),
           told'[t] = told[t], late' = late, rowless' = rowless, (t \in lost /\ t \in rowless) => t \in lost',
           keys'[t] = keys[t] \/ keys'[t] = told[t] \/ t \in rowless
    PROVE  RestoreOK(w, t)'
<1>1. /\ Pending(w, t)' <=> Pending(w, t)
      /\ Setting(w, t)' <=> Setting(w, t)
      /\ Done(w, t)' <=> Done(w, t)
      /\ Live(t)' <=> Live(t)
      /\ Pending(w, t) \/ Setting(w, t) => Found(w, t)' = Found(w, t)
    BY DEF SameFor, SameRestore, Live, Expired, Found
<1> QED BY <1>1 DEF RestoreOK

\* What of a token nothing syncs.
LEMMA KeptPlain ==
    ASSUME NEW t, \A w \in Workers : ~Synced(w, t)
    PROVE  TokenKept(t) <=>
             /\ keys[t] = NoToken \/ keys[t] = told[t] \/ t \in rowless
             /\ Live(t) => keys[t] = told[t] \/ t \in lost
             /\ t \notin rowless => rows[t] = told[t] \/ (rows[t] = NoToken /\ Expired(told[t]))
BY DEF TokenKept, Synced

\* A restore moves on.
LEMMA RestoreMoves ==
    ASSUME TokensInv, NEW h \in Workers, Restoring(h), NEW at \in {"next", "set"}, NEW data,
           at = "next" => data \in [rows : [Tokens -> TokenRow], left : SUBSET Tokens],
           at = "set" => data \in [rows : [Tokens -> TokenRow], left : SUBSET Tokens, t : Tokens],
           Go(h, at, data)
    PROVE  /\ TokenRequests' /\ doubt' = doubt
           /\ Restoring(h)' /\ req'[h].at = at /\ req'[h].data = data
           /\ \A t : ~Synced(h, t)' /\ ~Deletes(h)' /\ ~Synced(h, t) /\ ~Deletes(h) /\ (ForToken(h, t)' <=> ForToken(h, t))
           /\ \A w \in Workers \ {h} : \A t : SameFor(w, t) /\ (ForToken(w, t)' <=> ForToken(w, t))
<1>1. TypedRequests(TokenWork, TokenObjects) /\ RequestsOf(TokenWork, TokenObjects) /\ Ours(TokenWork, h) /\ TokenRequest(h)
    BY DEF TokensInv, TokenRequests, TypedRequests, Ours, Restoring, TokenWork
<1>2. at \in Awaits /\ data \in RequestData
    <2>1. CASE at = "next"
        BY <2>1 DEF Awaits, RequestData
    <2>2. CASE at = "set"
        BY <2>2 DEF Awaits, RequestData
    <2> QED BY <2>1, <2>2
<1>3. Put(h, Moved(req[h], at, data)) /\ UNCHANGED <<doubt, calls, menu>>
    BY <1>1, GoPuts DEF Ours
<1>4. /\ TypedRequests(TokenWork, TokenObjects)' /\ TokenRequest(h)' => TokenRequests'
      /\ TypedRequests(TokenWork, TokenObjects)'
      /\ Ours(TokenWork, h)' /\ req'[h] # NoReq /\ req'[h].op = req[h].op /\ req'[h].on = req[h].on /\ req'[h].at = at
      /\ req'[h].data = data /\ req'[h].sure = req[h].sure
      /\ \A w \in Workers \ {h} : req'[w] = req[w] /\ \A x : SameFor(w, x) /\ (ForToken(w, x)' <=> ForToken(w, x))
    BY ONLY TokensInv, <1>1, <1>2, <1>3, h \in Workers, TokenMoves
<1>5. TokenRequest(h)'
    BY <1>1, <1>4 DEF TokenRequest, Restoring, Deletes
<1> QED BY <1>3, <1>4, <1>5 DEF Restoring, Synced, Creating, Revoking, Deletes, ForToken

\* The rows are listed.
LEMMA RowsListed ==
    ASSUME TokensInv, NEW h \in Workers, ListRows(h)
    PROVE  TokensInv'
<1>1. Restoring(h) /\ req[h].at = "list" /\ TokenTyped
    BY DEF ListRows, At, Restoring, TokensInv
<1>2. PICK at, data : at = "next" /\ data = [rows |-> rows, left |-> {t \in Tokens : rows[t] # NoToken}]
    OBVIOUS
<1>3. /\ data.rows = rows /\ data.left = {t \in Tokens : rows[t] # NoToken}
      /\ data \in [rows : [Tokens -> TokenRow], left : SUBSET Tokens]
    BY <1>1, <1>2 DEF TokenTyped
<1>4. Go(h, at, data) /\ UNCHANGED tokenVars
    BY <1>2 DEF ListRows
<1>5. /\ TokenRequests' /\ doubt' = doubt
      /\ Restoring(h)' /\ req'[h].at = at /\ req'[h].data = data
      /\ \A t : ~Synced(h, t)' /\ ~Deletes(h)' /\ ~Synced(h, t) /\ ~Deletes(h) /\ (ForToken(h, t)' <=> ForToken(h, t))
      /\ \A w \in Workers \ {h} : \A t : SameFor(w, t) /\ (ForToken(w, t)' <=> ForToken(w, t))
    <2>1. at \in {"next", "set"} /\ at # "set"
        BY <1>2
    <2> QED BY <1>1, <1>3, <1>4, <2>1, RestoreMoves
<1>6. ASSUME NEW t \in Tokens PROVE TokenOK(t)'
    <2>1. ASSUME TokenKept(t), \A w \in Workers : RestoreOK(w, t), \A w \in Workers : ~Synced(w, t)
          PROVE  TokenKept(t)' /\ \A w \in Workers : RestoreOK(w, t)'
        <3>1. \A w \in Workers : ~Synced(w, t)'
            BY <1>5, <2>1 DEF SameFor, SameSync, Synced
        <3>2. TokenKept(t)'
            BY <1>4, <2>1, <3>1 DEF TokenKept, Synced, Live, Expired, tokenVars
        <3>3. \A w \in Workers \ {h} : RestoreOK(w, t)'
            BY <1>4, <1>5, <2>1, RestoreSame DEF tokenVars
        <3>4. RestoreOK(h, t)'
            <4>1. /\ Pending(h, t)' <=> rows[t] # NoToken
                  /\ ~Setting(h, t)' /\ Found(h, t)' = rows[t]
                BY <1>2, <1>3, <1>5 DEF Pending, Setting, Listed, Found
            <4>2. Done(h, t)' => rows[t] = NoToken
                BY <1>2, <1>5, <4>1 DEF Done, Listed
            <4>3. t \notin rowless => rows[t] = told[t] \/ (rows[t] = NoToken /\ Expired(told[t]))
                BY <2>1 DEF TokenKept
            <4> QED BY <1>4, <4>1, <4>2, <4>3 DEF RestoreOK, Live, Expired, tokenVars
        <3> QED BY <3>2, <3>3, <3>4
    <2> QED BY <1>1, <1>5, <2>1, RestoreKeeps
<1>7. TokenTyped'
    BY <1>1, <1>4 DEF TokenTyped, tokenVars
<1> QED BY <1>5, <1>6, <1>7 DEF TokensInv

\* What a token is that the restore does not come to with a step.
LEMMA RestorePasses ==
    ASSUME TokensInv, NEW h \in Workers, Restoring(h), Restoring(h)', NEW t \in Tokens,
           \A w \in Workers \ {h} : SameFor(w, t) /\ (ForToken(w, t)' <=> ForToken(w, t)),
           ~Synced(h, t)', ~Deletes(h)', ForToken(h, t)' <=> ForToken(h, t), doubt' = doubt,
           req[h].at # "list", req'[h].at # "list", req'[h].data.rows[t] = req[h].data.rows[t],
           t \in req'[h].data.left <=> t \in req[h].data.left,
           ~Setting(h, t), ~Setting(h, t)',
           keys'[t] = keys[t], rows'[t] = rows[t], told'[t] = told[t], late' = late, lost' = lost, rowless' = rowless
    PROVE  TokenOK(t)'
<1>1. ~Synced(h, t) /\ ~Deletes(h)
    BY DEF Restoring, Synced, Creating, Revoking, Deletes
<1>2. SameRestore(h, t)
    BY DEF SameRestore, Pending, Done, Listed
<1>3. SameFor(h, t)
    BY <1>1, <1>2 DEF SameFor, SameSync, SameDeletion, Erases, Synced
<1>4. SameToken(t)
    BY <1>1, <1>3 DEF SameToken, TokenInDoubt
<1> QED BY <1>4, TokenSame DEF TokensInv

\* The row of an expired token is dropped.
LEMMA ExpiredDropped ==
    ASSUME TokensInv, NEW h \in Workers, DropExpired(h)
    PROVE  TokensInv'
<1>1. Restoring(h) /\ req[h].at = "next" /\ TokenTyped /\ TokenRequest(h)
    BY DEF DropExpired, At, Restoring, TokensInv, TokenRequests
<1>2. PICK d \in [rows : [Tokens -> TokenRow], left : SUBSET Tokens] : d = req[h].data
    BY <1>1 DEF TokenRequest
<1>3. PICK t \in d.left : /\ Expired(d.rows[t])
                          /\ rows' = [rows EXCEPT ![t] = NoToken]
                          /\ Go(h, "next", [d EXCEPT !.left = @ \ {t}])
                          /\ UNCHANGED <<keys, late, told, lost, rowless>>
    BY <1>2 DEF DropExpired
<1>4. t \in Tokens
    BY <1>2, <1>3
<1>5. PICK at, data : at = "next" /\ data = [d EXCEPT !.left = @ \ {t}]
    OBVIOUS
<1>6. /\ data.rows = d.rows /\ data.left = d.left \ {t}
      /\ data \in [rows : [Tokens -> TokenRow], left : SUBSET Tokens]
    BY <1>2, <1>5
<1>7. /\ TokenRequests' /\ doubt' = doubt
      /\ Restoring(h)' /\ req'[h].at = at /\ req'[h].data = data
      /\ \A x : ~Synced(h, x)' /\ ~Deletes(h)' /\ ~Synced(h, x) /\ ~Deletes(h) /\ (ForToken(h, x)' <=> ForToken(h, x))
      /\ \A w \in Workers \ {h} : \A x : SameFor(w, x) /\ (ForToken(w, x)' <=> ForToken(w, x))
    <2>1. at \in {"next", "set"} /\ at # "set" /\ Go(h, at, data)
        BY <1>3, <1>5
    <2> QED BY <1>1, <1>6, <2>1, RestoreMoves
<1>8. ASSUME NEW x \in Tokens, x # t PROVE TokenOK(x)'
    <2>1. rows'[x] = rows[x]
        BY <1>1, <1>3, <1>4, <1>8 DEF TokenTyped
    <2>2. /\ req[h].at # "list" /\ req'[h].at # "list" /\ req'[h].data.rows[x] = req[h].data.rows[x]
          /\ x \in req'[h].data.left <=> x \in req[h].data.left
          /\ ~Setting(h, x) /\ ~Setting(h, x)'
        BY <1>1, <1>2, <1>5, <1>6, <1>7, <1>8 DEF Setting
    <2> QED BY <1>1, <1>3, <1>7, <2>1, <2>2, RestorePasses
<1>9. TokenOK(t)'
    <2>1. ASSUME TokenKept(t), \A w \in Workers : RestoreOK(w, t), \A w \in Workers : ~Synced(w, t)
          PROVE  TokenKept(t)' /\ \A w \in Workers : RestoreOK(w, t)'
        <3>1. \A w \in Workers : ~Synced(w, t)'
            BY <1>7, <2>1 DEF SameFor, SameSync, Synced
        <3>2. Pending(h, t) /\ Found(h, t) = d.rows[t]
            BY <1>1, <1>2, <1>3 DEF Pending, Listed, Found
        <3>3. t \notin rowless => Expired(told[t])
            BY <1>3, <2>1, <3>2 DEF RestoreOK
        <3>4. rows'[t] = NoToken
            BY <1>1, <1>3, <1>4 DEF TokenTyped
        <3>5. TokenKept(t)'
            BY <1>3, <2>1, <3>1, <3>3, <3>4 DEF TokenKept, Synced, Live, Expired
        <3>6. \A w \in Workers \ {h} : RestoreOK(w, t)'
            BY <1>3, <1>7, <2>1, RestoreSame
        <3>7. RestoreOK(h, t)'
            <4>1. ~Pending(h, t)' /\ ~Setting(h, t)'
                BY <1>5, <1>6, <1>7 DEF Pending, Setting
            <4>2. t \notin rowless' => ~Live(t)'
                BY <1>3, <3>3 DEF Live, Expired
            <4> QED BY <4>1, <4>2 DEF RestoreOK
        <3> QED BY <3>5, <3>6, <3>7
    <2> QED BY <1>1, <1>4, <1>7, <2>1, RestoreKeeps
<1>10. TokenTyped'
    BY <1>1, <1>3 DEF TokenTyped, NoToken, TokenRow
<1> QED BY <1>7, <1>8, <1>9, <1>10 DEF TokensInv

\* Redis is asked for a key: the restore is to set it, or leaves what it holds.
LEMMA KeyAsked ==
    ASSUME TokensInv, NEW h \in Workers, GetKey(h)
    PROVE  TokensInv'
<1>1. Restoring(h) /\ req[h].at = "next" /\ TokenTyped /\ TokenRequest(h)
    BY DEF GetKey, At, Restoring, TokensInv, TokenRequests
<1>2. PICK d \in [rows : [Tokens -> TokenRow], left : SUBSET Tokens] : d = req[h].data
    BY <1>1 DEF TokenRequest
<1>3. PICK t \in d.left : IF keys[t] = NoToken THEN Go(h, "set", [rows |-> d.rows, left |-> d.left \ {t}, t |-> t])
                          ELSE Go(h, "next", [d EXCEPT !.left = @ \ {t}])
    BY <1>2 DEF GetKey
<1>4. t \in Tokens /\ UNCHANGED tokenVars
    BY <1>2, <1>3 DEF GetKey
<1>5. ASSUME NEW x \in Tokens, ~TokenInDoubt(x), TokenKept(x), \A w \in Workers : RestoreOK(w, x), \A w \in Workers : ~Synced(w, x),
             \A w \in Workers \ {h} : SameFor(w, x) /\ (ForToken(w, x)' <=> ForToken(w, x)), ~Synced(h, x)', RestoreOK(h, x)'
      PROVE  TokenKept(x)' /\ \A w \in Workers : RestoreOK(w, x)'
    <2>1. \A w \in Workers : ~Synced(w, x)'
        BY <1>5 DEF SameFor, SameSync, Synced
    <2>2. TokenKept(x)'
        BY <1>4, <1>5, <2>1 DEF TokenKept, Synced, Live, Expired, tokenVars
    <2>3. \A w \in Workers \ {h} : RestoreOK(w, x)'
        BY <1>4, <1>5, RestoreSame DEF tokenVars
    <2> QED BY <1>5, <2>2, <2>3
<1>6. CASE keys[t] = NoToken
    <2>1. PICK at, data : at = "set" /\ data = [rows |-> d.rows, left |-> d.left \ {t}, t |-> t]
        OBVIOUS
    <2>2. /\ data.rows = d.rows /\ data.left = d.left \ {t} /\ data.t = t
          /\ data \in [rows : [Tokens -> TokenRow], left : SUBSET Tokens, t : Tokens]
        BY <1>2, <1>4, <2>1
    <2>3. /\ TokenRequests' /\ doubt' = doubt
          /\ Restoring(h)' /\ req'[h].at = at /\ req'[h].data = data
          /\ \A x : ~Synced(h, x)' /\ ~Deletes(h)' /\ ~Synced(h, x) /\ ~Deletes(h) /\ (ForToken(h, x)' <=> ForToken(h, x))
          /\ \A w \in Workers \ {h} : \A x : SameFor(w, x) /\ (ForToken(w, x)' <=> ForToken(w, x))
        <3>1. at \in {"next", "set"} /\ at # "next" /\ Go(h, at, data)
            BY <1>3, <1>6, <2>1
        <3> QED BY <1>1, <2>2, <3>1, RestoreMoves
    <2>4. ASSUME NEW x \in Tokens, x # t PROVE TokenOK(x)'
        <3>1. /\ req[h].at # "list" /\ req'[h].at # "list" /\ req'[h].data.rows[x] = req[h].data.rows[x]
              /\ x \in req'[h].data.left <=> x \in req[h].data.left
              /\ ~Setting(h, x) /\ ~Setting(h, x)'
            BY <1>1, <1>2, <2>1, <2>2, <2>3, <2>4 DEF Setting
        <3> QED BY <1>1, <1>4, <2>3, <3>1, RestorePasses DEF tokenVars
    <2>5. TokenOK(t)'
        <3>1. ASSUME ~TokenInDoubt(t), TokenKept(t), \A w \in Workers : RestoreOK(w, t), \A w \in Workers : ~Synced(w, t)
              PROVE  TokenKept(t)' /\ \A w \in Workers : RestoreOK(w, t)'
            <4>1. Pending(h, t) /\ Found(h, t) = d.rows[t]
                BY <1>1, <1>2, <1>3 DEF Pending, Listed, Found
            <4>2. t \in lost \/ ~Live(t)
                BY <1>6, <3>1, KeptPlain DEF Live
            <4>3. RestoreOK(h, t)'
                <5>1. ~Pending(h, t)' /\ Setting(h, t)' /\ Found(h, t)' = d.rows[t]
                    BY <2>1, <2>2, <2>3 DEF Pending, Setting, Listed, Found
                <5>2. d.rows[t] = told[t] \/ t \in rowless
                    BY <3>1, <4>1 DEF RestoreOK
                <5>3. (t \in lost \/ ~Live(t))'
                    BY <1>4, <4>2 DEF tokenVars, Live, Expired
                <5>4. ~Done(h, t)'
                    BY <5>1 DEF Done
                <5> QED BY <1>4, <5>1, <5>2, <5>3, <5>4 DEF RestoreOK, tokenVars
            <4> QED BY <1>4, <1>5, <2>3, <3>1, <4>3
        <3> QED BY <1>1, <1>4, <2>3, <3>1, RestoreKeeps
    <2>6. TokenTyped'
        BY <1>1, <1>4 DEF TokenTyped, tokenVars
    <2> QED BY <2>3, <2>4, <2>5, <2>6 DEF TokensInv
<1>7. CASE keys[t] # NoToken
    <2>1. PICK at, data : at = "next" /\ data = [d EXCEPT !.left = @ \ {t}]
        OBVIOUS
    <2>2. /\ data.rows = d.rows /\ data.left = d.left \ {t}
          /\ data \in [rows : [Tokens -> TokenRow], left : SUBSET Tokens]
        BY <1>2, <2>1
    <2>3. /\ TokenRequests' /\ doubt' = doubt
          /\ Restoring(h)' /\ req'[h].at = at /\ req'[h].data = data
          /\ \A x : ~Synced(h, x)' /\ ~Deletes(h)' /\ ~Synced(h, x) /\ ~Deletes(h) /\ (ForToken(h, x)' <=> ForToken(h, x))
          /\ \A w \in Workers \ {h} : \A x : SameFor(w, x) /\ (ForToken(w, x)' <=> ForToken(w, x))
        <3>1. at \in {"next", "set"} /\ at # "set" /\ Go(h, at, data)
            BY <1>3, <1>7, <2>1
        <3> QED BY <1>1, <2>2, <3>1, RestoreMoves
    <2>4. ASSUME NEW x \in Tokens, x # t PROVE TokenOK(x)'
        <3>1. /\ req[h].at # "list" /\ req'[h].at # "list" /\ req'[h].data.rows[x] = req[h].data.rows[x]
              /\ x \in req'[h].data.left <=> x \in req[h].data.left
              /\ ~Setting(h, x) /\ ~Setting(h, x)'
            BY <1>1, <1>2, <2>1, <2>2, <2>3, <2>4 DEF Setting
        <3> QED BY <1>1, <1>4, <2>3, <3>1, RestorePasses DEF tokenVars
    <2>5. TokenOK(t)'
        <3>1. ASSUME ~TokenInDoubt(t), TokenKept(t), \A w \in Workers : RestoreOK(w, t), \A w \in Workers : ~Synced(w, t)
              PROVE  TokenKept(t)' /\ \A w \in Workers : RestoreOK(w, t)'
            <4>1. keys[t] = told[t] \/ t \in rowless
                BY <1>7, <3>1, KeptPlain
            <4>2. ~Pending(h, t)' /\ ~Setting(h, t)'
                BY <2>1, <2>2, <2>3 DEF Pending, Setting
            <4>3. RestoreOK(h, t)'
                BY <1>4, <4>1, <4>2 DEF RestoreOK, tokenVars
            <4> QED BY <1>4, <1>5, <2>3, <3>1, <4>3
        <3> QED BY <1>1, <1>4, <2>3, <3>1, RestoreKeeps
    <2>6. TokenTyped'
        BY <1>1, <1>4 DEF TokenTyped, tokenVars
    <2> QED BY <2>3, <2>4, <2>5, <2>6 DEF TokensInv
<1> QED BY <1>6, <1>7

\* The key is set from the row that was read.
LEMMA KeyRestored ==
    ASSUME TokensInv, NEW h \in Workers, SetKey(h)
    PROVE  TokensInv'
<1>1. Restoring(h) /\ req[h].at = "set" /\ TokenTyped /\ TokenRequest(h)
    BY DEF SetKey, At, Restoring, TokensInv, TokenRequests
<1>2. PICK d \in [rows : [Tokens -> TokenRow], left : SUBSET Tokens, t : Tokens] : d = req[h].data
    BY <1>1 DEF TokenRequest
<1>3. PICK t \in Tokens : t = d.t
    BY <1>2
<1>4. PICK at, data : at = "next" /\ data = [rows |-> d.rows, left |-> d.left]
    OBVIOUS
<1>5. /\ data.rows = d.rows /\ data.left = d.left
      /\ data \in [rows : [Tokens -> TokenRow], left : SUBSET Tokens]
    BY <1>2, <1>4
<1>6. /\ keys' = [keys EXCEPT ![t] = d.rows[t]] /\ Go(h, at, data)
      /\ UNCHANGED <<rows, late, told, lost, rowless>>
    BY <1>2, <1>3, <1>4 DEF SetKey
<1>7. /\ TokenRequests' /\ doubt' = doubt
      /\ Restoring(h)' /\ req'[h].at = at /\ req'[h].data = data
      /\ \A x : ~Synced(h, x)' /\ ~Deletes(h)' /\ ~Synced(h, x) /\ ~Deletes(h) /\ (ForToken(h, x)' <=> ForToken(h, x))
      /\ \A w \in Workers \ {h} : \A x : SameFor(w, x) /\ (ForToken(w, x)' <=> ForToken(w, x))
    <2>1. at \in {"next", "set"} /\ at # "set"
        BY <1>4
    <2> QED BY <1>1, <1>5, <1>6, <2>1, RestoreMoves
<1>8. ASSUME NEW x \in Tokens, x # t PROVE TokenOK(x)'
    <2>1. keys'[x] = keys[x]
        BY <1>1, <1>6, <1>8 DEF TokenTyped
    <2>2. /\ req[h].at # "list" /\ req'[h].at # "list" /\ req'[h].data.rows[x] = req[h].data.rows[x]
          /\ x \in req'[h].data.left <=> x \in req[h].data.left
          /\ ~Setting(h, x) /\ ~Setting(h, x)'
        BY <1>1, <1>2, <1>3, <1>4, <1>5, <1>7, <1>8 DEF Setting
    <2> QED BY <1>1, <1>6, <1>7, <2>1, <2>2, RestorePasses
<1>9. TokenOK(t)'
    <2>1. ASSUME TokenKept(t), \A w \in Workers : RestoreOK(w, t), \A w \in Workers : ~Synced(w, t)
          PROVE  TokenKept(t)' /\ \A w \in Workers : RestoreOK(w, t)'
        <3>1. \A w \in Workers : ~Synced(w, t)'
            BY <1>7, <2>1 DEF SameFor, SameSync, Synced
        <3>2. Setting(h, t) /\ Found(h, t) = d.rows[t]
            BY <1>1, <1>2, <1>3 DEF Setting, Listed, Found
        <3>3. d.rows[t] = told[t] \/ (t \in rowless /\ (t \in lost \/ ~Live(t)))
            BY <2>1, <3>2 DEF RestoreOK
        <3>4. keys'[t] = d.rows[t]
            BY <1>1, <1>6 DEF TokenTyped
        <3>5. TokenKept(t)'
            BY <1>6, <2>1, <3>1, <3>3, <3>4 DEF TokenKept, Synced, Live, Expired
        <3>6. \A w \in Workers \ {h} : RestoreOK(w, t)'
            BY <1>6, <1>7, <2>1, <3>3, <3>4, RestoreSame
        <3>7. RestoreOK(h, t)'
            <4>1. ~Setting(h, t)' /\ Found(h, t)' = d.rows[t]
                BY <1>4, <1>5, <1>7 DEF Setting, Found
            <4> QED BY <1>6, <3>3, <3>4, <4>1 DEF RestoreOK
        <3> QED BY <3>5, <3>6, <3>7
    <2> QED BY <1>1, <1>7, <2>1, RestoreKeeps
<1>10. TokenTyped'
    BY <1>1, <1>2, <1>6 DEF TokenTyped
<1> QED BY <1>7, <1>8, <1>9, <1>10 DEF TokensInv

\* A restore ends, or fails.
LEMMA RestoreOver ==
    ASSUME TokensInv, NEW h \in Workers, RestoreEnds(h) \/ RestoreFails(h)
    PROVE  TokensInv'
<1>1. TypedRequests(TokenWork, TokenObjects) /\ RequestsOf(TokenWork, TokenObjects) /\ TokenTyped
    BY DEF TokensInv, TokenRequests, TypedRequests
<1>2. Restoring(h) /\ TokenRequest(h)
    BY DEF RestoreEnds, RestoreFails, At, Restoring, TokensInv, TokenRequests
<1>3. Put(h, NoReq) /\ doubt' = doubt /\ UNCHANGED <<calls, menu>>
    <2>1. CASE Finish(h, {})
        <3>1. doubt' = doubt \ ({} \cap req[h].sure) /\ Put(h, NoReq) /\ UNCHANGED <<calls, menu>>
            BY <1>1, <2>1, EndPuts
        <3>2. doubt \ ({} \cap req[h].sure) = doubt
            OBVIOUS
        <3> QED BY <3>1, <3>2
    <2>2. CASE Fail(h, {})
        <3>1. doubt' = doubt \cup {} /\ Put(h, NoReq) /\ UNCHANGED <<calls, menu>>
            BY <1>1, <2>2, EndPuts
        <3> QED BY <3>1
    <2> QED BY <2>1, <2>2 DEF RestoreEnds, RestoreFails
<1>4. /\ TokenRequests'
      /\ \A x : ~Works(h, x)'
      /\ \A w \in Workers \ {h} : req'[w] = req[w] /\ \A x : SameFor(w, x) /\ (ForToken(w, x)' <=> ForToken(w, x))
    BY <1>3, TokenEnds
<1>5. /\ UNCHANGED <<keys, rows, late, told, rowless>>
      /\ \/ lost' = lost
         \/ /\ lost' = WholeAgain(h) \cup (lost \cap rowless)
            /\ req[h].at = "next" /\ req[h].data.left = {}
    BY DEF RestoreEnds, RestoreFails, At, tokenVars
<1>6. ASSUME NEW t \in Tokens PROVE TokenOK(t)'
    <2>1. ~Synced(h, t)' /\ ~Deletes(h)' /\ ~Restoring(h)' /\ ~Synced(h, t)
        BY <1>2, <1>4 DEF Works, Synced, Creating, Revoking, Restoring
    <2>2. ASSUME TokenKept(t), \A w \in Workers : RestoreOK(w, t), \A w \in Workers : ~Synced(w, t)
          PROVE  TokenKept(t)' /\ \A w \in Workers : RestoreOK(w, t)'
        <3>1. \A w \in Workers : ~Synced(w, t)'
            BY <1>4, <2>1, <2>2 DEF SameFor, SameSync, Synced
        <3>2. (t \in lost /\ t \in rowless) => t \in lost'
            BY <1>5
        <3>3. ASSUME t \in lost, t \notin lost', Live(t) PROVE keys[t] = told[t]
            <4>1. /\ lost' = WholeAgain(h) \cup (lost \cap rowless)
                  /\ req[h].at = "next" /\ req[h].data.left = {}
                BY <1>5, <3>3
            <4>2. ForToken(h, t) /\ t \notin rowless
                BY <3>3, <4>1 DEF WholeAgain, ForToken
            <4>3. Done(h, t)
                BY <1>2, <4>1 DEF Done, Listed, Pending, Setting
            <4> QED BY <2>2, <3>3, <4>2, <4>3 DEF RestoreOK
        <3>4. TokenKept(t)'
            BY <1>5, <2>2, <3>1, <3>3 DEF TokenKept, Synced, Live, Expired
        <3>5. \A w \in Workers \ {h} : RestoreOK(w, t)'
            BY <1>4, <1>5, <2>2, <3>2, RestoreSame
        <3>6. RestoreOK(h, t)'
            BY <2>1 DEF RestoreOK, Pending, Setting, Done, Listed
        <3> QED BY <3>4, <3>5, <3>6
    <2> QED BY <1>2, <1>3, <1>4, <2>1, <2>2, RestoreKeeps
<1>7. TokenTyped'
    BY <1>1, <1>5 DEF TokenTyped
<1> QED BY <1>4, <1>6, <1>7 DEF TokensInv

\* The expiry passes, and what has expired goes.
LEMMA TokensExpire ==
    ASSUME TokensInv, TokenTime
    PROVE  TokensInv'
<1>1. UNCHANGED <<req, doubt, calls, told, lost, rowless>> /\ TokenTyped
    BY DEF TokenTime, Expire, ExpireRestored, CleanUp, baseVars, TokensInv
<1>2. TypedRequests(TokenWork, TokenObjects)' /\ \A w \in Workers : Stays(TokenWork, w) /\ req'[w] = req[w]
    BY <1>1, UnchangedStays DEF TokensInv, TokenRequests
<1>3. \A w \in Workers : TokenRequest(w)' /\ \A t : SameFor(w, t) /\ (ForToken(w, t)' <=> ForToken(w, t))
    BY <1>2, TokenStays DEF TokensInv, TokenRequests, ForToken
<1>4. \A t : TokenInDoubt(t)' <=> TokenInDoubt(t)
    BY <1>1 DEF TokenInDoubt
<1>5. Erasing' <=> Erasing
    BY <1>3 DEF Erasing, SameFor, SameDeletion
<1>6. \/ /\ late' = TRUE /\ rows' = rows
         /\ keys' = [t \in Tokens |-> IF keys[t].dies THEN NoToken ELSE keys[t]]
      \/ /\ late' = late /\ keys' = keys
         /\ rows' = [t \in Tokens |-> IF Expired(rows[t]) THEN NoToken ELSE rows[t]]
    BY DEF TokenTime, Expire, ExpireRestored, CleanUp
<1>7. ~NoToken.dies /\ NoToken \in TokenRow
    BY DEF NoToken, TokenRow
<1>8. TokenTyped'
    BY <1>1, <1>6, <1>7 DEF TokenTyped
<1>9. ASSUME NEW t \in Tokens PROVE TokenOK(t)'
    <2>1. TokenOK(t)
        BY DEF TokensInv
    <2>2. \A k : Expired(k) => Expired(k)'
        BY <1>6 DEF Expired, TokenTyped
    <2>3. /\ keys'[t] = keys[t] \/ (keys[t].dies /\ late' = TRUE /\ keys'[t] = NoToken)
          /\ rows'[t] = rows[t] \/ (Expired(rows[t]) /\ rows'[t] = NoToken)
          /\ told'[t] = told[t]
        BY <1>1, <1>6 DEF TokenTyped
    <2>4. \A w \in Workers : /\ Creating(w, t)' <=> Creating(w, t)
                             /\ Revoking(w, t)' <=> Revoking(w, t)
                             /\ Synced(w, t)' <=> Synced(w, t)
                             /\ Restoring(w)' <=> Restoring(w)
                             /\ Deletes(w)' <=> Deletes(w)
                             /\ ForToken(w, t)' <=> ForToken(w, t)
        BY <1>3 DEF SameFor, SameSync, SameRestore, SameDeletion, Synced
    <2>5. \A w \in Workers : SyncAlone(w, t)'
        BY <1>4, <2>1, <2>4, AloneStays
    <2>6. ASSUME NEW w \in Workers PROVE KeySynced(w, t)'
        <3>1. KeySynced(w, t)
            BY <2>1 DEF TokenOK
        <3>2. ASSUME NEW new, keys[t] = new \/ (keys[t] = NoToken /\ Expired(new))
              PROVE  keys'[t] = new \/ (keys'[t] = NoToken /\ Expired(new)')
            <4>1. CASE keys[t] = new
                BY <2>3, <4>1 DEF Expired
            <4>2. CASE keys[t] = NoToken /\ Expired(new)
                BY <1>7, <2>2, <2>3, <4>2
            <4> QED BY <3>2, <4>1, <4>2
        <3>3. (Synced(w, t)' /\ req'[w].at = "row" /\ ForToken(w, t)') =>
                keys'[t] = req'[w].data.new \/ (keys'[t] = NoToken /\ Expired(req[w].data.new)')
            <4> SUFFICES ASSUME Synced(w, t)', req'[w].at = "row", ForToken(w, t)'
                         PROVE  keys'[t] = req'[w].data.new \/ (keys'[t] = NoToken /\ Expired(req[w].data.new)')
                OBVIOUS
            <4>1. PICK new : new = req[w].data.new
                OBVIOUS
            <4>2. keys[t] = new \/ (keys[t] = NoToken /\ Expired(new))
                BY <1>2, <2>4, <3>1, <4>1 DEF KeySynced
            <4>3. keys'[t] = new \/ (keys'[t] = NoToken /\ Expired(new)')
                BY <3>2, <4>2
            <4>4. req'[w].data.new = new
                BY <1>2, <4>1
            <4> QED BY <4>3, <4>4 DEF Expired
        <3>4. (Revoking(w, t)' /\ req'[w].at = "row" /\ ~TokenInDoubt(t)') => keys'[t] = NoToken
            BY <1>2, <1>4, <1>7, <2>3, <2>4, <3>1 DEF KeySynced, Synced
        <3> QED BY <3>3, <3>4 DEF KeySynced, Expired
    <2>7. ASSUME ~TokenInDoubt(t)', ~Erasing' PROVE TokenKept(t)' /\ \A w \in Workers : RestoreOK(w, t)'
        <3>1. TokenKept(t) /\ \A w \in Workers : RestoreOK(w, t)
            BY <1>4, <1>5, <2>1, <2>7 DEF TokenOK
        <3>2. Live(t)' => Live(t) /\ (keys[t] = told[t] => keys'[t] = told'[t])
            BY <1>6, <2>2, <2>3 DEF Live, Expired
        <3>3. keys'[t] = NoToken \/ keys'[t] = told'[t] \/ t \in rowless' \/ \E w \in Workers : Creating(w, t)' /\ req'[w].at = "row"
            <4>1. CASE \E w \in Workers : Creating(w, t) /\ req[w].at = "row"
                <5>1. PICK w \in Workers : Creating(w, t) /\ req[w].at = "row"
                    BY <4>1
                <5>2. Creating(w, t)' /\ req'[w].at = "row"
                    BY <1>2, <2>4, <5>1
                <5> QED BY <5>2
            <4>2. CASE ~\E w \in Workers : Creating(w, t) /\ req[w].at = "row"
                BY <1>1, <2>3, <3>1, <4>2 DEF TokenKept
            <4> QED BY <4>1, <4>2
        <3>4. Live(t)' => keys'[t] = told'[t] \/ t \in lost' \/ \E w \in Workers : Synced(w, t)' /\ req'[w].at = "row"
            <4>1. CASE \E w \in Workers : Synced(w, t) /\ req[w].at = "row"
                <5>1. PICK w \in Workers : Synced(w, t) /\ req[w].at = "row"
                    BY <4>1
                <5>2. Synced(w, t)' /\ req'[w].at = "row"
                    BY <1>2, <2>4, <5>1
                <5> QED BY <5>2
            <4>2. CASE ~\E w \in Workers : Synced(w, t) /\ req[w].at = "row"
                BY <1>1, <3>1, <3>2, <4>2 DEF TokenKept
            <4> QED BY <4>1, <4>2
        <3>5. t \notin rowless' => rows'[t] = told'[t] \/ (rows'[t] = NoToken /\ Expired(told[t])')
            BY <1>1, <2>2, <2>3, <3>1 DEF TokenKept
        <3>6. TokenKept(t)'
            BY <2>3, <3>3, <3>4, <3>5 DEF TokenKept, Expired
        <3>7. ASSUME NEW w \in Workers PROVE RestoreOK(w, t)'
            <4>1. /\ Pending(w, t)' <=> Pending(w, t)
                  /\ Setting(w, t)' <=> Setting(w, t)
                  /\ Done(w, t)' <=> Done(w, t)
                  /\ Found(w, t)' = Found(w, t)
                BY <1>2, <1>3 DEF SameFor, SameRestore, Found
            <4>2. RestoreOK(w, t)
                BY <3>1
            <4>3. Pending(w, t)' => Found(w, t)' = told'[t] \/ t \in rowless'
                BY <1>1, <4>1, <4>2 DEF RestoreOK
            <4>4. Setting(w, t)' => Found(w, t)' = told'[t] \/ (t \in rowless' /\ (t \in lost' \/ ~Live(t)'))
                BY <1>1, <3>2, <4>1, <4>2 DEF RestoreOK
            <4>5. (Done(w, t)' /\ ForToken(w, t)' /\ t \notin rowless' /\ Live(t)') => keys'[t] = told'[t]
                BY <1>1, <2>4, <3>2, <4>1, <4>2 DEF RestoreOK
            <4> QED BY <4>3, <4>4, <4>5 DEF RestoreOK
        <3> QED BY <3>6, <3>7
    <2> QED BY <2>5, <2>6, <2>7 DEF TokenOK
<1> QED BY <1>2, <1>3, <1>8, <1>9 DEF TokensInv, TokenRequests

\* What a step of a deletion does to the tokens.
LEMMA DeletionTokens ==
    ASSUME NEW h, Deletion(h), TokenTyped
    PROVE  \/ DeleteRow(h)
           \/ /\ UNCHANGED <<late, told, lost, rowless>>
              /\ UNCHANGED tokenVars \/ (req[h] # NoReq /\ req[h].op = "delete project" /\ req[h].at \in {"token rows", "keys"})
              /\ keys' \in [Tokens -> TokenRow] /\ rows' \in [Tokens -> TokenRow]
              /\ \A t \in Tokens : keys'[t] \in {keys[t], NoToken}
<1>1. NoToken \in TokenRow
    BY DEF NoToken, TokenRow
<1>2. UNCHANGED tokenVars => /\ UNCHANGED <<late, told, lost, rowless>>
                             /\ keys' \in [Tokens -> TokenRow] /\ rows' \in [Tokens -> TokenRow]
                             /\ \A t \in Tokens : keys'[t] \in {keys[t], NoToken}
    BY DEF tokenVars, TokenTyped
<1>3. \/ UNCHANGED tokenVars \/ DeleteTokenRows(h) \/ DeleteKey(h) \/ DeleteRow(h)
    BY DEF Deletion, RowDeletion, DeleteProject, FindProject, DeletePlugins, DeleteRawLogs, DeleteHooks, PluckHashes,
           DeleteStepFails, DeleteKeysFail, DeleteFails, DropSchema
<1>4. CASE DeleteTokenRows(h)
    BY <1>1, <1>4 DEF DeleteTokenRows, Deleting, At, TokenTyped
<1>5. CASE DeleteKey(h)
    <2>1. PICK t \in req[h].data.left : keys' = [keys EXCEPT ![t] = NoToken]
        BY <1>5 DEF DeleteKey
    <2>2. keys' \in [Tokens -> TokenRow] /\ \A x \in Tokens : keys'[x] \in {keys[x], NoToken}
        BY <1>1, <2>1 DEF TokenTyped
    <2> QED BY <1>5, <2>2 DEF DeleteKey, Deleting, At, TokenTyped
<1> QED BY <1>2, <1>3, <1>4, <1>5

\* A sync that is sure of its token while the project is being deleted is a revocation.
LEMMA SyncsErased ==
    ASSUME TokensInv, NEW h \in Workers, Deletes(h), NEW t \in Tokens, NEW w \in Workers, KeySynced(w, t), Synced(w, t),
           SameFor(w, t), Synced(w, t)', ForToken(w, t)' <=> ForToken(w, t), keys'[t] \in {keys[t], NoToken}, late' = late,
           TokenInDoubt(t) => TokenInDoubt(t)'
    PROVE  KeySynced(w, t)'
<1>1. req'[w].at = req[w].at /\ req'[w].data = req[w].data /\ (Revoking(w, t)' <=> Revoking(w, t))
    BY DEF SameFor, SameSync
<1>2. ForToken(w, t) => Revoking(w, t)
    BY DEF TokensInv, TokenOK, SyncAlone, Synced
<1>3. Revoking(w, t) => req[w].data.new = NoToken
    BY DEF TokensInv, TokenRequests, TokenRequest, Revoking
<1>4. (req'[w].at = "row" /\ ForToken(w, t)') => keys'[t] = NoToken /\ req'[w].data.new = NoToken
    BY <1>1, <1>2, <1>3 DEF KeySynced
<1>5. (req'[w].at = "row" /\ Revoking(w, t)' /\ ~TokenInDoubt(t)') => keys'[t] = NoToken
    BY <1>1 DEF KeySynced
<1> QED BY <1>4, <1>5 DEF KeySynced

\* A step of a deletion.
LEMMA TokensErased ==
    ASSUME TokensInv, NEW h \in Workers, Deletion(h)
    PROVE  TokensInv'
<1>1. TypedRequests(TokenWork, TokenObjects) /\ RequestsOf(TokenWork, TokenObjects) /\ "delete project" \in TokenWork /\ TokenTyped
    BY DEF TokensInv, TokenRequests, TypedRequests, TokenWork
<1>2. TokenRequest(h) /\ (req[h] # NoReq => DeletionOK(req[h]))
    BY DEF TokensInv, TokenRequests, TokenRequest, Deletes, DeletionOK
<1>3. \/ DeleteRow(h)
      \/ /\ UNCHANGED <<late, told, lost, rowless>>
         /\ UNCHANGED tokenVars \/ (req[h] # NoReq /\ req[h].op = "delete project" /\ req[h].at \in {"token rows", "keys"})
         /\ keys' \in [Tokens -> TokenRow] /\ rows' \in [Tokens -> TokenRow]
         /\ \A t \in Tokens : keys'[t] \in {keys[t], NoToken}
    BY <1>1, DeletionTokens
<1>4. ASSUME NEW at, NEW data, NEW more, DeletionGoes(h, at, data, more)
      PROVE  /\ TokenRequests' /\ Deletes(h) /\ Deletes(h)' /\ req'[h].at = at
             /\ \A t : ~Synced(h, t) /\ ~Synced(h, t)' /\ ~Restoring(h) /\ ~Restoring(h)'
             /\ \A w \in Workers \ {h} : \A t : SameFor(w, t) /\ (ForToken(w, t)' <=> ForToken(w, t))
    <2>1. DeletionOK(req[h]) /\ Deletes(h)
        BY <1>2, <1>4 DEF DeletionGoes, Deletes
    <2>2. /\ TypedRequests(TokenWork, TokenObjects)'
          /\ Ours(TokenWork, h)' /\ req'[h] # NoReq /\ req'[h].op = "delete project" /\ req'[h].on = req[h].on /\ req'[h].at = at
          /\ req'[h].data = data /\ req'[h].sure = req[h].sure /\ DeletionOK(req'[h])
          /\ \A w \in Workers \ {h} : req'[w] = req[w]
        BY ONLY <1>1, <1>4, <2>1, h \in Workers, DeletionMoves
    <2>3. ASSUME NEW w \in Workers \ {h} PROVE TokenRequest(w)' /\ \A t : SameFor(w, t) /\ (ForToken(w, t)' <=> ForToken(w, t))
        <3>1. req'[w] = req[w] /\ TokenRequest(w)
            BY <2>2 DEF TokensInv, TokenRequests
        <3>2. Stays(TokenWork, w)
            BY <3>1, SameStays
        <3> QED BY <3>1, <3>2, TokenStays DEF ForToken
    <2>4. TokenRequest(h)'
        BY <2>2 DEF TokenRequest, Restoring, Deletes
    <2> QED BY <2>1, <2>2, <2>3, <2>4 DEF TokenRequests, Deletes, Synced, Creating, Revoking, Restoring
<1>5. ASSUME NEW t \in Tokens, Deletes(h), ~Synced(h, t), ~Synced(h, t)', ~Restoring(h)',
             \A w \in Workers \ {h} : SameFor(w, t) /\ (ForToken(w, t)' <=> ForToken(w, t)),
             TokenInDoubt(t) => TokenInDoubt(t)', keys'[t] \in {keys[t], NoToken}, late' = late
      PROVE  \A w \in Workers : SyncAlone(w, t)' /\ KeySynced(w, t)'
    <2>1. \A w \in Workers : /\ Creating(w, t)' => Creating(w, t)
                             /\ Revoking(w, t)' => Revoking(w, t)
                             /\ Restoring(w)' => Restoring(w)
                             /\ Deletes(w)' => Deletes(w)
                             /\ Synced(w, t)' => (ForToken(w, t)' <=> ForToken(w, t))
        BY <1>5 DEF SameFor, SameSync, SameRestore, SameDeletion, Synced
    <2>2. TokenOK(t)
        BY DEF TokensInv
    <2>3. \A w \in Workers : SyncAlone(w, t)'
        BY <1>5, <2>1, <2>2, AloneStays
    <2>4. ASSUME NEW w \in Workers PROVE KeySynced(w, t)'
        <3>1. CASE ~Synced(w, t)'
            BY <3>1 DEF KeySynced
        <3>2. CASE Synced(w, t)'
            <4>1. w # h /\ Synced(w, t) /\ KeySynced(w, t)
                BY <1>5, <2>1, <2>2, <3>2 DEF Synced, TokenOK
            <4> QED BY <1>5, <3>2, <4>1, SyncsErased
        <3> QED BY <3>1, <3>2
    <2> QED BY <2>3, <2>4
<1>6. CASE DropSchema(h) /\ req[h].at = "schema" /\ DeletionGoes(h, "row", NoData, {})
    <2>1. /\ TokenRequests' /\ Deletes(h) /\ Deletes(h)' /\ req'[h].at = "row"
          /\ \A t : ~Synced(h, t) /\ ~Synced(h, t)' /\ ~Restoring(h) /\ ~Restoring(h)'
          /\ \A w \in Workers \ {h} : \A t : SameFor(w, t) /\ (ForToken(w, t)' <=> ForToken(w, t))
        BY <1>4, <1>6
    <2>2. UNCHANGED tokenVars /\ doubt' = doubt
        BY <1>6 DEF DropSchema, DeletionGoes
    <2>3. ASSUME NEW t \in Tokens PROVE TokenOK(t)'
        <3>1. (TokenInDoubt(t) => TokenInDoubt(t)') /\ keys'[t] \in {keys[t], NoToken} /\ late' = late
            BY <2>2 DEF TokenInDoubt, tokenVars
        <3>2. Erasing'
            BY <2>1 DEF Erasing, Erases
        <3> QED BY <1>5, <2>1, <3>1, <3>2 DEF TokenOK
    <2>4. TokenTyped'
        BY <1>1, <2>2 DEF TokenTyped, tokenVars
    <2> QED BY <2>1, <2>3, <2>4 DEF TokensInv
<1>7. CASE DeleteRow(h) /\ req[h].at = "row" /\ DeletionGoes(h, "uploads", req[h].data, {})
    <2>1. /\ TokenRequests' /\ Deletes(h) /\ Deletes(h)' /\ req'[h].at = "uploads"
          /\ \A t : ~Synced(h, t) /\ ~Synced(h, t)' /\ ~Restoring(h) /\ ~Restoring(h)'
          /\ \A w \in Workers \ {h} : \A t : SameFor(w, t) /\ (ForToken(w, t)' <=> ForToken(w, t))
        BY <1>4, <1>7
    <2>2. /\ told' = [t \in Tokens |-> NoToken] /\ rowless' = Tokens
          /\ UNCHANGED <<keys, rows, late, lost>> /\ doubt' = doubt
        BY <1>7 DEF DeleteRow, DeletionGoes
    <2>3. ASSUME NEW t \in Tokens PROVE TokenOK(t)'
        <3>1. (TokenInDoubt(t) => TokenInDoubt(t)') /\ keys'[t] \in {keys[t], NoToken} /\ late' = late
            BY <2>2 DEF TokenInDoubt
        <3>2. t \in rowless' /\ ~Live(t)'
            BY <2>2 DEF Live
        <3>3. TokenKept(t)' /\ \A w \in Workers : RestoreOK(w, t)'
            BY <3>2 DEF TokenKept, RestoreOK
        <3> QED BY <1>5, <2>1, <3>1, <3>3 DEF TokenOK
    <2>4. TokenTyped'
        BY <1>1, <2>2 DEF TokenTyped, NoToken, TokenRow
    <2> QED BY <2>1, <2>3, <2>4 DEF TokensInv
<1>8. ASSUME NEW at, NEW data, NEW more, DeletionGoes(h, at, data, more), at \notin {"row", "uploads"},
             req[h].at \notin {"schema", "row", "uploads"}, FilesOnly(more) \/ more \subseteq {PluginObject}
      PROVE  TokensInv'
    <2>1. /\ TokenRequests' /\ Deletes(h) /\ Deletes(h)' /\ req'[h].at = at
          /\ \A t : ~Synced(h, t) /\ ~Synced(h, t)' /\ ~Restoring(h) /\ ~Restoring(h)'
          /\ \A w \in Workers \ {h} : \A t : SameFor(w, t) /\ (ForToken(w, t)' <=> ForToken(w, t))
        BY <1>4, <1>8
    <2>2. ~DeleteRow(h)
        BY <1>8 DEF DeleteRow, Deleting, At
    <2>3. at \notin {"find", "uploads"}
        BY <1>8 DEF DeletionGoes, Later
    <2>4. ASSUME NEW t \in Tokens PROVE TokenOK(t)'
        <3>1. (TokenInDoubt(t) => TokenInDoubt(t)') /\ keys'[t] \in {keys[t], NoToken} /\ late' = late
            BY <1>3, <1>8, <2>2 DEF TokenInDoubt, DeletionGoes
        <3>2. Erasing'
            BY <2>1, <2>3 DEF Erasing, Erases
        <3> QED BY <1>5, <2>1, <3>1, <3>2 DEF TokenOK
    <2>5. TokenTyped'
        BY <1>1, <1>3, <2>2 DEF TokenTyped
    <2> QED BY <2>1, <2>4, <2>5 DEF TokensInv
<1>9. CASE DeletionEnds(h)
    <2>1. /\ TokenRequests'
          /\ \A t : ~Works(h, t)'
          /\ \A w \in Workers \ {h} : req'[w] = req[w] /\ \A t : SameFor(w, t) /\ (ForToken(w, t)' <=> ForToken(w, t))
        BY <1>9, TokenEnds DEF DeletionEnds
    <2>2. Deletes(h) /\ \A t : ~Synced(h, t) /\ ~Synced(h, t)' /\ ~Restoring(h) /\ ~Restoring(h)' /\ ~Deletes(h)'
        BY <1>9, <2>1 DEF DeletionEnds, Works, Deletes, Synced, Creating, Revoking, Restoring
    <2>3. req[h].at \in {"find", "schema", "row", "uploads"}
        BY <1>9 DEF DeletionEnds
    <2>4. ~DeleteRow(h)
        <3>1. DeleteRow(h) => req'[h] # NoReq
            <4>1. DeleteRow(h) => Put(h, Moved(req[h], "uploads", req[h].data))
                BY <1>1, GoPuts DEF DeleteRow, Deleting, At, GoOn
            <4>2. Put(h, Moved(req[h], "uploads", req[h].data)) => req'[h] = Moved(req[h], "uploads", req[h].data)
                BY DEF Put
            <4>3. DeleteRow(h) => DeletionGoes(h, "uploads", req[h].data, {})
                <5>1. DeleteRow(h) => Go(h, "uploads", req[h].data) /\ req[h] # NoReq /\ req[h].op = "delete project" /\ req[h].at = "row"
                    BY DEF DeleteRow, Deleting, At, GoOn
                <5>2. DeleteRow(h) => doubt' = doubt \cup {} /\ UNCHANGED <<calls, menu>>
                    BY <5>1 DEF Go
                <5>3. DeleteRow(h) => req[h].data \in DeletionData
                    BY <1>2, <5>1 DEF DeletionOK
                <5> QED BY <4>1, <5>1, <5>2, <5>3 DEF DeletionGoes, Later
            <4> QED BY <1>4, <4>3 DEF Deletes
        <3> QED BY <1>9, <3>1 DEF DeletionEnds, Put
    <2>5. UNCHANGED tokenVars
        BY <1>3, <2>3, <2>4
    <2>6. \A t \in Tokens : TokenInDoubt(t) => TokenInDoubt(t)'
        BY <1>9 DEF DeletionEnds, TokenInDoubt, TokenObject, ProjectObject
    <2>7. ASSUME NEW t \in Tokens PROVE TokenOK(t)'
        <3>1. keys'[t] \in {keys[t], NoToken} /\ late' = late
            BY <2>5 DEF tokenVars
        <3>2. \A w \in Workers : SyncAlone(w, t)' /\ KeySynced(w, t)'
            BY <1>5, <2>1, <2>2, <2>6, <3>1
        <3>3. CASE req[h].at \in {"schema", "row"}
            <4>1. TokenInDoubt(t)'
                BY <1>9, <3>3 DEF DeletionEnds, TokenInDoubt, TokenObjects
            <4> QED BY <3>2, <4>1 DEF TokenOK
        <3>4. CASE req[h].at \in {"find", "uploads"}
            <4>1. TokenInDoubt(t)' <=> TokenInDoubt(t)
                BY <1>9, <3>4 DEF DeletionEnds, TokenInDoubt, TokenObject, ProjectObject
            <4>2. Erasing' <=> Erasing
                BY <2>1, <2>2, <3>4 DEF Erasing, Erases, SameFor, SameDeletion
            <4>3. ASSUME ~TokenInDoubt(t)', ~Erasing' PROVE TokenKept(t)' /\ \A w \in Workers : RestoreOK(w, t)'
                <5>1. TokenKept(t) /\ \A w \in Workers : RestoreOK(w, t)
                    BY <4>1, <4>2, <4>3 DEF TokensInv, TokenOK
                <5>2. \A w \in Workers : SameSync(w, t)
                    BY <2>1, <2>2 DEF SameFor, SameSync, Synced
                <5>3. TokenKept(t)'
                    BY <2>5, <5>1, <5>2, KeptStays DEF tokenVars
                <5>4. \A w \in Workers \ {h} : RestoreOK(w, t)'
                    BY <2>1, <2>5, <5>1, RestoreSame DEF tokenVars
                <5>5. RestoreOK(h, t)'
                    BY <2>2 DEF RestoreOK, Pending, Setting, Done, Listed
                <5> QED BY <5>3, <5>4, <5>5
            <4> QED BY <3>2, <4>3 DEF TokenOK
        <3> QED BY <2>3, <3>3, <3>4
    <2>8. TokenTyped'
        BY <1>1, <2>5 DEF TokenTyped, tokenVars
    <2> QED BY <2>1, <2>7, <2>8 DEF TokensInv
<1>10. CASE Arrived(h, "delete project", Deleted, "find", NoData) /\ UNCHANGED tokenVars
    <2>1. /\ TypedRequests(TokenWork, TokenObjects)'
          /\ ~Ours(TokenWork, h) /\ Ours(TokenWork, h)' /\ req'[h].op = "delete project" /\ req'[h].on = Deleted
          /\ req'[h].at = "find" /\ req'[h].sure = Deleted \ Hit("delete project", Deleted) /\ DeletionOK(req'[h])
          /\ \A w \in Workers \ {h} : Stays(TokenWork, w) /\ SureOf(w, "delete project", Deleted)
        BY ONLY <1>1, <1>10, h \in Workers, DeletionArrives
    <2>2. TokenRequest(h)' /\ req'[h] # NoReq
        BY <2>1 DEF TokenRequest, Restoring, Deletes, Ours
    <2>3. doubt' = doubt \cup Hit("delete project", Deleted)
        BY <1>10 DEF Arrived
    <2>4. req'[h].at \in {"key", "list", "find"}
        BY <2>1
    <2> QED BY <1>1, <1>10, <2>1, <2>2, <2>3, <2>4, TokensArrive
<1>11. Arrived(h, "delete project", Deleted, "find", NoData) => UNCHANGED tokenVars
    <2>1. Arrived(h, "delete project", Deleted, "find", NoData) => req[h] = NoReq
        BY DEF Arrived
    <2>2. DeleteRow(h) => req[h] # NoReq
        BY DEF DeleteRow, Deleting, At
    <2> QED BY <1>3, <2>1, <2>2
<1>12. \/ DropSchema(h) /\ req[h].at = "schema" /\ DeletionGoes(h, "row", NoData, {})
       \/ DeleteRow(h) /\ req[h].at = "row" /\ DeletionGoes(h, "uploads", req[h].data, {})
       \/ /\ UNCHANGED projectVars
          /\ \/ Arrived(h, "delete project", Deleted, "find", NoData)
             \/ \E at, data, more :
                   /\ DeletionGoes(h, at, data, more) /\ at \notin {"row", "uploads"}
                   /\ req[h].at \notin {"schema", "row", "uploads"}
                   /\ FilesOnly(more) \/ more \subseteq {PluginObject}
             \/ DeletionEnds(h)
    BY <1>1, <1>2, DeletionIs
<1> QED BY <1>6, <1>7, <1>8, <1>9, <1>10, <1>11, <1>12

\* The worker starts again: every sync it cut off is in doubt.
LEMMA TokensRestart ==
    ASSUME TokensInv, Restart
    PROVE  TokensInv'
<1>1. /\ TypedRequests(TokenWork, TokenObjects)' /\ doubt' = (doubt \cup Cut) \ MonObjects
      /\ \A w \in Workers : Ours(TokenWork, w)' =>
            \/ /\ req'[w].op = "restore tokens" /\ req'[w].on = TokenObjects
               /\ req'[w].at = "list" /\ req'[w].data = NoData
            \/ /\ req'[w].op = "start monitors" /\ req'[w].on = MonObjects
               /\ req'[w].at = "list" /\ req'[w].data = NoData
    <2>1. MonObjects \cap TokenObjects = {} /\ "restore tokens" \in TokenWork
        BY DEF MonObjects, MonObject, TokenObjects, TokenObject, TokenWork
    <2> QED BY <2>1, RestartStays DEF TokensInv, TokenRequests
<1>2. UNCHANGED tokenVars
    BY DEF Restart
<1>3. /\ \A w \in Workers : ~Listed(w)' /\ \A t : ~Synced(w, t)'
      /\ \A w \in Workers : ~Deletes(w)'
    BY <1>1 DEF Ours, TokenWork, Synced, Creating, Revoking, Deletes, Listed, Restoring
<1>4. \A w \in Workers : TokenRequest(w)'
    BY <1>1 DEF TokenRequest, Restoring, Deletes, Ours, TokenWork
<1>5. \A t \in Tokens : TokenInDoubt(t) \/ TokenObject(t) \in Cut => TokenInDoubt(t)'
    BY <1>1 DEF TokenInDoubt, MonObjects, MonObject, TokenObject
<1>6. ASSUME NEW w \in Workers, NEW t \in Tokens, Synced(w, t) \/ Deletes(w) PROVE TokenInDoubt(t)'
    <2>1. req[w] # NoReq /\ req[w].op \in Operations
        BY <1>6 DEF Synced, Creating, Revoking, Deletes, Operations
    <2>2. TokenObject(t) \in CutOff(req[w])
        <3>1. CASE Synced(w, t)
            <4>1. TokenObject(t) \in req[w].on /\ req[w].op \in {"create token", "revoke token"}
                BY <3>1 DEF Synced, Creating, Revoking, TokensInv, TokenRequests, TokenRequest
            <4> QED BY <2>1, <4>1, CutOffIs
        <3>2. CASE Deletes(w)
            BY <2>1, <3>2, CutOffIs DEF Deletes, TokenObjects
        <3> QED BY <1>6, <3>1, <3>2
    <2> QED BY <1>5, <2>1, <2>2, CutOffDoubts
<1>7. ASSUME NEW t \in Tokens PROVE TokenOK(t)'
    <2>1. \A w \in Workers : SyncAlone(w, t)' /\ KeySynced(w, t)' /\ RestoreOK(w, t)'
        BY <1>3 DEF SyncAlone, KeySynced, RestoreOK, Pending, Setting, Done
    <2>2. ASSUME ~TokenInDoubt(t)' PROVE TokenKept(t)'
        <3>1. ~TokenInDoubt(t) /\ \A w \in Workers : ~Synced(w, t) /\ ~Deletes(w)
            BY <1>5, <1>6, <2>2
        <3>2. TokenKept(t)
            BY <3>1 DEF TokensInv, TokenOK, Erasing, Erases
        <3> QED BY <1>2, <1>3, <3>1, <3>2 DEF TokenKept, Synced, Live, Expired, tokenVars
    <2> QED BY <2>1, <2>2 DEF TokenOK
<1>8. TokenTyped'
    BY <1>2 DEF TokensInv, TokenTyped, tokenVars
<1> QED BY <1>1, <1>4, <1>7, <1>8 DEF TokensInv, TokenRequests

\* Redis comes back empty.
LEMMA TokensLost ==
    ASSUME TokensInv, RedisLost
    PROVE  TokensInv'
<1>1. /\ TypedRequests(TokenWork, TokenObjects)'
      /\ \A w \in Workers : /\ Stays(TokenWork, w)
                            /\ req[w] # NoReq => req'[w].sure = req[w].sure \ (TokenObjects \cup {SwitchObject})
      /\ \A o \in doubt : o \in doubt'
      /\ \A w \in Handlers : (req[w] # NoReq /\ req[w].op # "delete project") =>
            \A o \in req[w].on : o \in TokenObjects \cup {SwitchObject} => o \in doubt'
    BY LostStays DEF TokensInv, TokenRequests
<1>2. \A w \in Workers : TokenRequest(w)' /\ \A t : SameFor(w, t)
    BY <1>1, TokenStays DEF TokensInv, TokenRequests
<1>3. keys' = [t \in Tokens |-> NoToken] /\ lost' = Tokens /\ UNCHANGED <<rows, late, told, rowless>>
    BY DEF RedisLost
<1>4. ASSUME NEW t \in Tokens PROVE TokenOK(t)'
    <2>1. TokenObject(t) \in TokenObjects /\ TokenOK(t) /\ keys'[t] = NoToken /\ t \in lost'
        BY <1>3 DEF TokenObjects, TokensInv
    <2>2. TokenInDoubt(t) => TokenInDoubt(t)'
        BY <1>1 DEF TokenInDoubt
    <2>3. ASSUME NEW w \in Workers, Synced(w, t) PROVE ~ForToken(w, t)' /\ TokenInDoubt(t)'
        <3>1. /\ req[w] # NoReq /\ req[w].op \in {"create token", "revoke token"} /\ w \in Handlers
              /\ TokenObject(t) \in req[w].on
            BY <2>3 DEF Synced, Creating, Revoking, TokensInv, TokenRequests, TokenRequest
        <3> QED BY <1>1, <2>1, <3>1 DEF ForToken, TokenInDoubt
    <2>4. \A w \in Workers : Synced(w, t)' <=> Synced(w, t)
        BY <1>2 DEF SameFor, SameSync, Synced
    <2>5. \A w \in Workers : SyncAlone(w, t)' /\ KeySynced(w, t)'
        BY <2>3, <2>4 DEF SyncAlone, KeySynced
    <2>6. ASSUME ~TokenInDoubt(t)', ~Erasing' PROVE TokenKept(t)' /\ \A w \in Workers : RestoreOK(w, t)'
        <3>1. Erasing' <=> Erasing
            BY <1>2 DEF Erasing, SameFor, SameDeletion
        <3>2. TokenKept(t) /\ \A w \in Workers : RestoreOK(w, t)
            BY <2>1, <2>2, <2>6, <3>1 DEF TokenOK
        <3>3. TokenKept(t)'
            BY <1>3, <2>1, <3>2 DEF TokenKept, Expired
        <3>4. ASSUME NEW w \in Workers PROVE RestoreOK(w, t)'
            <4>1. /\ Pending(w, t)' <=> Pending(w, t)
                  /\ Setting(w, t)' <=> Setting(w, t)
                  /\ Done(w, t)' <=> Done(w, t)
                  /\ Pending(w, t) \/ Setting(w, t) => Found(w, t)' = Found(w, t)
                BY <1>2 DEF SameFor, SameRestore, Found
            <4>2. Done(w, t)' => ~ForToken(w, t)'
                <5>1. Done(w, t) => req[w] # NoReq
                    BY DEF Done, Listed, Restoring
                <5> QED BY <1>1, <2>1, <4>1, <5>1 DEF ForToken
            <4>3. RestoreOK(w, t)
                BY <3>2
            <4> QED BY <1>3, <2>1, <4>1, <4>2, <4>3 DEF RestoreOK
        <3> QED BY <3>3, <3>4
    <2> QED BY <2>5, <2>6 DEF TokenOK
<1>5. TokenTyped'
    BY <1>3 DEF TokensInv, TokenTyped, NoToken, TokenRow
<1> QED BY <1>1, <1>2, <1>4, <1>5 DEF TokensInv, TokenRequests

\* Every step keeps the invariant.
LEMMA TokensNext ==
    ASSUME TokensInv, [Next]_vars
    PROVE  TokensInv'
<1>1. TypedRequests(TokenWork, TokenObjects) /\ RequestsOf(TokenWork, TokenObjects)
    BY DEF TokensInv, TokenRequests, TypedRequests
<1>2. CASE UNCHANGED vars
    <2>1. UNCHANGED <<req, doubt, calls>> /\ UNCHANGED tokenVars
        BY <1>2 DEF vars, baseVars
    <2>2. TypedRequests(TokenWork, TokenObjects)' /\ \A w \in Workers : Stays(TokenWork, w) /\ req'[w] = req[w]
        BY <1>1, <2>1, UnchangedStays
    <2> QED BY <2>1, <2>2, TokensSame DEF TokenInDoubt, ForToken
<1>3. ASSUME NEW w \in Workers, TokenStep(w) PROVE TokensInv'
    BY <1>3, TokenBegins, SyncedKey, SyncedRow, RowsListed, ExpiredDropped, KeyAsked, KeyRestored, RestoreOver DEF TokenStep
<1>4. ASSUME NEW w \in Workers, Deletion(w) PROVE TokensInv'
    BY <1>4, TokensErased
<1>5. /\ ProjectObject \notin TokenObjects /\ SwitchObject \notin TokenObjects
      /\ PluginObject \notin TokenObjects /\ LayoutObject \notin TokenObjects
      /\ \A x : SessionObject(x) \notin TokenObjects /\ PlayerObject(x) \notin TokenObjects
      /\ \A x : MonObject(x) \notin TokenObjects /\ FileObject(x) \notin TokenObjects
      /\ FileObjects \cap TokenObjects = {}
    BY DEF FileObjects, FileObject, TokenObject, TokenObjects, PluginObject, LayoutObject, ProjectObject, SwitchObject,
           SessionObject, PlayerObject, MonObject
<1>6. ASSUME NEW w \in Workers, UNCHANGED tokenVars,
             ProjectStep(w) \/ HookStep(w) \/ MonitorStep(w) \/ StudioStep(w) \/ QuotaStep(w) \/ PlayerStep(w) \/ FileStep(w)
      PROVE  TokensInv'
    <2>1. TokenWork \cap ProjectOps = {} /\ TokenWork \cap HookRequests = {} /\ TokenWork \cap (MonOps \cup {"start monitors"}) = {}
        BY DEF TokenWork, ProjectOps, HookRequests, HookOps, MonOps
    <2>2. TokenWork \cap StudioOps = {} /\ TokenWork \cap QuotaOps = {} /\ TokenWork \cap PlayerOps = {} /\ TokenWork \cap FileOps = {}
        BY DEF TokenWork, StudioOps, PluginOps, QuotaOps, PlayerOps, UseOps, FileOps
    <2>3. Aside(TokenWork, TokenObjects)
        BY <1>1, <1>5, <1>6, <2>1, <2>2, ProjectStepAside, HookStepAside, MonitorStepAside, StudioStepAside, QuotaStepAside,
           PlayerStepAside, FileStepAside
    <2> QED BY <1>6, <2>3, TokensAside
<1>7. ASSUME UNCHANGED tokenVars,
             \/ Delivery \/ MonitorTimers \/ Counting \/ QuotaTime \/ PlayerTime \/ ForgetProject
             \/ StudioStatement
      PROVE  TokensInv'
    <2>1. Aside(TokenWork, TokenObjects)
        BY <1>1, <1>5, <1>7, OthersAside, StatementAside
    <2> QED BY <1>7, <2>1, TokensAside
<1> QED BY <1>2, <1>3, <1>4, <1>6, <1>7, TokensExpire, TokensRestart, TokensLost DEF Next

\* It holds when the worker starts.
LEMMA TokensStart ==
    ASSUME Init
    PROVE  TokensInv
<1>1. TokensInit
    BY DEF Init
<1>2. TypedRequests(TokenWork, TokenObjects) /\ \A w \in Workers : req[w] = NoReq
    BY NoneOurs
<1>3. /\ keys = [t \in Tokens |-> NoToken] /\ rows = keys /\ told = keys
      /\ late = FALSE /\ lost = {} /\ rowless = {}
    BY <1>1 DEF TokensInit
<1>4. TokenTyped
    BY <1>3 DEF TokenTyped, NoToken, TokenRow
<1>5. TokenRequests
    BY <1>2 DEF TokenRequests, TokenRequest, Restoring, Deletes
<1>6. ASSUME NEW t \in Tokens PROVE TokenOK(t)
    BY <1>2, <1>3 DEF TokenOK, SyncAlone, KeySynced, TokenKept, RestoreOK, Synced, Creating, Revoking, Pending, Setting, Done,
                      Listed, Restoring, Live
<1> QED BY <1>4, <1>5, <1>6 DEF TokensInv

\* Redis answers for a token as the control plane was told, unless its key was lost since, and
\* its row is what the last sync wrote.
THEOREM TokensAreAsTold == Spec => []TokensAgree
<1>1. TokensInv => TokensAgree
    <2> SUFFICES ASSUME TokensInv, NEW t \in Tokens, Idle(TokenObject(t)), TokenObject(t) \notin doubt
                 PROVE  /\ Accepts(t) => (keys[t] = told[t] \/ t \in rowless)
                        /\ (told[t] # NoToken /\ ~Expired(told[t]) /\ project.row /\ ~disabled /\ t \notin lost) => Accepts(t)
                        /\ t \notin rowless => (rows[t] = told[t] \/ (rows[t] = NoToken /\ Expired(told[t])))
        BY DEF TokensAgree
    <2>1. \A w \in Workers : ~Works(w, t)
        BY WorksIs DEF TokensInv, Idle, Busy
    <2>2. \A w \in Workers : ~Synced(w, t) /\ ~Deletes(w)
        BY <2>1 DEF Works
    <2>3. TokenKept(t)
        BY <2>2 DEF TokensInv, TokenOK, Erasing, Erases, TokenInDoubt
    <2> QED BY <2>2, <2>3, KeptPlain DEF Accepts, Live
<1> QED BY <1>1, TokensStart, TokensNext, PTL DEF Spec

\* What the stores of the worker hold agrees, for every object that no request is at work on
\* and that no failure, stop or overlap has left in doubt.
THEOREM StoresStayInStep == Spec => []StoresAgree
<1>1. TokensAgree /\ ProjectAgrees /\ FilesAgree /\ QuotaAgrees /\ LayoutAgrees => StoresAgree
    BY DEF StoresAgree
<1> QED BY <1>1, TokensAreAsTold, ProjectIsAsTold, FilesStayTogether, QuotaIsFollowed, LayoutMovesAsAWhole, PTL
====
