---- MODULE EndpointCache ----
(***************************************************************************)
(* Endpoint definitions live in the table api_endpoints; the dynamic API   *)
(* reads them through a Redis entry with a TTL of ten seconds              *)
(* (endpoint_resolve:<project>:<method>:<path>) and keeps the responses it *)
(* computes in a second family of Redis entries                            *)
(* (cache:<slug>:<endpoint>:<hash>).  Administrators change the table      *)
(* through handlers that clear these entries, each in its own order, while *)
(* requests read and fill them.  The tools of the AI gateway call the same *)
(* BuilderService and clear nothing; nor do a restore and the deletion of  *)
(* the project.  Every await of all sides is a step here.                  *)
(*                                                                         *)
(* The model follows the endpoints of one project, method and path: their  *)
(* versions, whether each is active, and a revision that stands for all    *)
(* other columns.  All parameters of a GET on that path are one cache key. *)
(***************************************************************************)
EXTENDS FiniteSets, Naturals

CONSTANTS
    Eps,        \* identifiers of endpoint rows
    Requests,   \* GET handlers of the path, each serving one request after another
    Admins,     \* handlers that change endpoints, each running one operation after another
    Tools,      \* those that serve tools of the AI gateway; the others serve the panel
    MaxRev,     \* bound: revisions written by administrators
    MaxVersion, \* bound: version numbers
    MaxData,    \* bound: changes to the data the endpoints read
    MaxOps,     \* bound: administrative operations
    Absent,     \* an identifier not yet given to a row of api_endpoints
    Deleted,    \* the row with this identifier was deleted
    NoEntry,    \* no such key in Redis
    NoEp        \* no endpoint chosen

ASSUME ConstantsAssumption ==
    /\ IsFiniteSet(Eps)
    /\ NoEp \notin Eps
    /\ Tools \subseteq Admins
    /\ Absent # Deleted
    /\ \A m \in {Absent, Deleted} : m \notin [version : Nat, rev : Nat, active : BOOLEAN, live : BOOLEAN]
    /\ MaxRev \in Nat /\ MaxVersion \in Nat /\ MaxData \in Nat /\ MaxOps \in Nat

VARIABLES
    db,        \* the rows of api_endpoints for this method and path
    rev,       \* the last revision written
    data,      \* revision of the table the endpoints read
    resolve,   \* the Redis entry that holds the candidates
    resp,      \* the Redis entry that holds each endpoint's response
    stale,     \* an onDataChange is under way
    op,        \* where each administrator's handler is suspended
    req,       \* where each request's handler is suspended
    late,      \* history: the entry was cleared since the request read the table
    uncleared, \* history: a handler failed between changing the table and clearing
    untold,    \* history: rows changed in a way that clears nothing
    ops        \* administrative operations begun

dbVars == <<db, rev>>
vars == <<db, rev, data, resolve, resp, stale, op, req, late, uncleared, untold, ops>>

Row == [version : Nat, rev : Nat, active : BOOLEAN, live : BOOLEAN]

Present(e) == db[e] \notin {Absent, Deleted}

\* Columns of a row that a request looks at.
Candidate(e) == [id |-> e, version |-> db[e].version, rev |-> db[e].rev]

\* is_active, not deprecated, on this path.
Candidates == {Candidate(e) : e \in {x \in Eps : Present(x) /\ db[x].active /\ db[x].live}}

\* The partial unique index on (project, method, path, version) of live rows.
Taken(v, e) == \E x \in Eps \ {e} : Present(x) /\ db[x].live /\ db[x].version = v

Idle == [pc |-> "idle"]

----------------------------------------------------------------------------
Init ==
    /\ \E e \in Eps, others \in SUBSET Eps :
        /\ Cardinality(others) <= 1
        /\ db = [x \in Eps |->
                    CASE x = e -> [version |-> 1, rev |-> 0, active |-> TRUE, live |-> TRUE]
                      [] x # e /\ x \in others -> [version |-> 2, rev |-> 0, active |-> TRUE, live |-> TRUE]
                      [] OTHER -> Absent]
    /\ rev = 0
    /\ data = 0
    /\ resolve = NoEntry
    /\ resp = [e \in Eps |-> NoEntry]
    /\ stale = FALSE
    /\ op = [a \in Admins |-> Idle]
    /\ req = [r \in Requests |-> Idle]
    /\ late = [r \in Requests |-> FALSE]
    /\ uncleared = FALSE
    /\ untold = FALSE
    /\ ops = 0

----------------------------------------------------------------------------
\* Requests.

adminVars == <<op, uncleared, untold, ops, stale>>

GoReq(r, s) == req' = [req EXCEPT ![r] = s]

GetHit(r) ==
    /\ req[r].pc = "idle"
    /\ resolve # NoEntry
    /\ GoReq(r, [pc |-> "selecting", cands |-> resolve.rows])
    /\ UNCHANGED <<dbVars, data, resolve, resp, late, adminVars>>

GetMiss(r) ==
    /\ req[r].pc = "idle"
    /\ resolve = NoEntry
    /\ GoReq(r, [pc |-> "reading"])
    /\ UNCHANGED <<dbVars, data, resolve, resp, late, adminVars>>

ReadCandidates(r) ==
    /\ req[r].pc = "reading"
    /\ GoReq(r, [pc |-> "setting", cands |-> Candidates])
    /\ late' = [late EXCEPT ![r] = FALSE]
    /\ UNCHANGED <<dbVars, data, resolve, resp, adminVars>>

SetResolve(r) ==
    /\ req[r].pc = "setting"
    /\ resolve' = [rows |-> req[r].cands, late |-> late[r]]
    /\ GoReq(r, [pc |-> "selecting", cands |-> req[r].cands])
    /\ UNCHANGED <<dbVars, data, resp, late, adminVars>>

\* The catch around the SET: the request goes on without an entry.
SetResolveFails(r) ==
    /\ req[r].pc = "setting"
    /\ GoReq(r, [pc |-> "selecting", cands |-> req[r].cands])
    /\ UNCHANGED <<dbVars, data, resolve, resp, late, adminVars>>

NotFound(r) ==
    /\ req[r].pc = "selecting"
    /\ GoReq(r, Idle)
    /\ UNCHANGED <<dbVars, data, resolve, resp, late, adminVars>>

\* Explicit version, canary bucket or highest version: any candidate may be
\* the one.  A cached response ends the request ...
ServeCached(r) ==
    /\ req[r].pc = "selecting"
    /\ \E c \in req[r].cands : resp[c.id] # NoEntry
    /\ GoReq(r, Idle)
    /\ UNCHANGED <<dbVars, data, resolve, resp, late, adminVars>>

\* ... and a miss executes the definition it was selected with.
Execute(r) ==
    /\ req[r].pc = "selecting"
    /\ \E c \in req[r].cands :
        /\ resp[c.id] = NoEntry
        /\ GoReq(r, [pc |-> "storing", id |-> c.id, result |-> [rev |-> c.rev, data |-> data]])
    /\ UNCHANGED <<dbVars, data, resolve, resp, late, adminVars>>

SetResponse(r) ==
    /\ req[r].pc = "storing"
    /\ resp' = [resp EXCEPT ![req[r].id] = req[r].result]
    /\ GoReq(r, Idle)
    /\ UNCHANGED <<dbVars, data, resolve, late, adminVars>>

\* The endpoint is not cached, or Redis fails: nothing is stored.
LeaveUnstored(r) ==
    /\ req[r].pc = "storing"
    /\ GoReq(r, Idle)
    /\ UNCHANGED <<dbVars, data, resolve, resp, late, adminVars>>

\* Redis drops an entry when its TTL runs out; a hit does not extend it.
ExpireResolve ==
    /\ resolve # NoEntry
    /\ resolve' = NoEntry
    /\ UNCHANGED <<dbVars, data, resp, req, late, adminVars>>

\* Mutant of ExpireResponse: responses are stored without a TTL.
NeverExpires(e) ==
    /\ resp[e] # NoEntry
    /\ UNCHANGED vars

ExpireResponse(e) ==
    /\ resp[e] # NoEntry
    /\ resp' = [resp EXCEPT ![e] = NoEntry]
    /\ UNCHANGED <<dbVars, data, resolve, req, late, adminVars>>

----------------------------------------------------------------------------
\* Administrators.

GoOp(a, s) == op' = [op EXCEPT ![a] = s]

Begin(a) ==
    /\ op[a].pc = "idle"
    /\ ops < MaxOps
    /\ ops' = ops + 1

\* Revisions count the writes, so a later write has a greater one.
NewRev == rev < MaxRev /\ rev' = rev + 1

\* A row changed by an open bulk transaction of others is locked until it ends.
Locked(others, e) == \E b \in others : op[b].pc = "bulk" /\ e \in op[b].done

\* The rows are changed: a handler of the panel goes on to clear, a tool answers.
Written(a, s) ==
    /\ GoOp(a, IF a \in Tools THEN Idle ELSE s)
    /\ untold' = (untold \/ a \in Tools)

\* clearEndpointResolveCache, the last await of every handler that changed a row.
ClearResolve(a) ==
    /\ op[a].pc = "clearing"
    /\ resolve' = NoEntry
    /\ late' = [r \in Requests |-> late[r] \/ req[r].pc = "setting"]
    /\ uncleared' = FALSE
    /\ untold' = FALSE
    /\ GoOp(a, Idle)
    /\ UNCHANGED <<dbVars, data, resp, req, stale, ops>>

\* The statement committed but its result was lost, or Redis fails: the handler
\* throws and the caches keep what they hold.
ClearFails(a) ==
    /\ op[a].pc \in {"invalidating", "clearing"}
    /\ uncleared' = TRUE
    /\ GoOp(a, Idle)
    /\ UNCHANGED <<dbVars, data, resolve, resp, req, late, stale, untold, ops>>

\* POST: look for a live row of that version, then insert.
CreateCheck(a) ==
    /\ Begin(a)
    /\ \E v \in 1..MaxVersion :
        /\ ~Taken(v, NoEp)
        /\ GoOp(a, [pc |-> "creating", version |-> v])
    /\ UNCHANGED <<dbVars, data, resolve, resp, req, late, stale, uncleared, untold>>

Insert(e, v, n) ==
    /\ db[e] = Absent
    /\ ~Taken(v, e)
    /\ db' = [db EXCEPT ![e] = [version |-> v, rev |-> n, active |-> TRUE, live |-> TRUE]]

CreateInsert(a) ==
    /\ op[a].pc = "creating"
    /\ NewRev
    /\ \E e \in Eps : Insert(e, op[a].version, rev')
    /\ Written(a, [pc |-> "clearing"])
    /\ UNCHANGED <<data, resolve, resp, req, late, stale, uncleared, ops>>

\* The unique index refuses the row: the handler throws before it clears anything.
CreateConflict(a) ==
    /\ op[a].pc = "creating"
    /\ GoOp(a, Idle)
    /\ UNCHANGED <<dbVars, data, resolve, resp, req, late, stale, uncleared, untold, ops>>

\* PUT and DELETE of the panel drop the cached responses BEFORE they change the
\* row; update_endpoint and delete_endpoint of the gateway leave them.
InvalidateFirst(a) ==
    /\ Begin(a)
    /\ \E e \in Eps, next \in {"updating", "deleting"} :
        /\ Present(e)
        /\ resp' = IF a \in Tools THEN resp ELSE [resp EXCEPT ![e] = NoEntry]
        /\ GoOp(a, [pc |-> next, id |-> e])
    /\ UNCHANGED <<dbVars, data, resolve, req, late, stale, uncleared, untold>>

\* The row is gone, or the database refuses the change.
WriteFails(a) ==
    /\ op[a].pc \in {"updating", "deleting", "toggling"}
    /\ GoOp(a, Idle)
    /\ UNCHANGED <<dbVars, data, resolve, resp, req, late, stale, uncleared, untold, ops>>

UpdateRow(a) ==
    LET e == op[a].id IN
    /\ op[a].pc = "updating"
    /\ Present(e)
    /\ ~Locked(Admins \ {a}, e)
    /\ NewRev
    /\ \E on \in BOOLEAN : db' = [db EXCEPT ![e].rev = rev', ![e].active = on]
    /\ Written(a, [pc |-> "clearing"])
    /\ UNCHANGED <<data, resolve, resp, req, late, stale, uncleared, ops>>

DeleteRow(a) ==
    LET e == op[a].id IN
    /\ op[a].pc = "deleting"
    /\ Present(e)
    /\ ~Locked(Admins \ {a}, e)
    /\ db' = [db EXCEPT ![e] = Deleted]
    /\ Written(a, [pc |-> "clearing"])
    /\ UNCHANGED <<rev, data, resolve, resp, req, late, stale, uncleared, ops>>

\* toggle, of the panel only: read the flag, write its negation; responses stay
\* cached.
ToggleRead(a) ==
    /\ a \notin Tools
    /\ Begin(a)
    /\ \E e \in Eps :
        /\ Present(e)
        /\ GoOp(a, [pc |-> "toggling", id |-> e, active |-> db[e].active])
    /\ UNCHANGED <<dbVars, data, resolve, resp, req, late, stale, uncleared, untold>>

\* Mutant of ToggleWrite: the handler answers without clearing the entry.
ToggleWriteNoClear(a) ==
    LET e == op[a].id IN
    /\ op[a].pc = "toggling"
    /\ Present(e)
    /\ ~Locked(Admins \ {a}, e)
    /\ db' = [db EXCEPT ![e].active = ~op[a].active]
    /\ GoOp(a, Idle)
    /\ UNCHANGED <<rev, data, resolve, resp, req, late, stale, uncleared, untold, ops>>

ToggleWrite(a) ==
    LET e == op[a].id IN
    /\ op[a].pc = "toggling"
    /\ Present(e)
    /\ ~Locked(Admins \ {a}, e)
    /\ db' = [db EXCEPT ![e].active = ~op[a].active]
    /\ GoOp(a, [pc |-> "clearing"])
    /\ UNCHANGED <<rev, data, resolve, resp, req, late, stale, uncleared, untold, ops>>

\* version, of the panel only: read the row, deprecate and rename it, insert its
\* successor; the two writes are separate statements.
BumpRead(a) ==
    /\ a \notin Tools
    /\ Begin(a)
    /\ \E e \in Eps :
        /\ Present(e)
        /\ GoOp(a, [pc |-> "deprecating", id |-> e, row |-> db[e]])
    /\ UNCHANGED <<dbVars, data, resolve, resp, req, late, stale, uncleared, untold>>

Deprecate(a) ==
    LET e == op[a].id IN
    /\ op[a].pc = "deprecating"
    /\ ~Locked(Admins \ {a}, e)
    /\ db' = IF Present(e) THEN [db EXCEPT ![e].live = FALSE] ELSE db
    /\ GoOp(a, [pc |-> "succeeding", id |-> e, row |-> op[a].row])
    /\ UNCHANGED <<rev, data, resolve, resp, req, late, stale, uncleared, untold, ops>>

\* The successor is active and takes the columns read at the start.  A row that
\* was already deprecated has another path, and so has its successor.
InsertSuccessor(a) ==
    LET old == op[a].row IN
    /\ op[a].pc = "succeeding"
    /\ IF old.live THEN \E e \in Eps : Insert(e, old.version + 1, old.rev)
                   ELSE UNCHANGED db
    /\ old.version < MaxVersion
    /\ GoOp(a, [pc |-> "clearing"])
    /\ UNCHANGED <<rev, data, resolve, resp, req, late, stale, uncleared, untold, ops>>

\* A statement fails: the next version already exists, or the database is gone.
\* What was deprecated stays so.
BumpFails(a) ==
    /\ op[a].pc \in {"deprecating", "succeeding"}
    /\ uncleared' = (uncleared \/ op[a].pc = "succeeding")
    /\ GoOp(a, Idle)
    /\ UNCHANGED <<dbVars, data, resolve, resp, req, late, stale, untold, ops>>

\* bulk: rows are updated one by one inside a transaction ...
BulkBegin(a) ==
    /\ Begin(a)
    /\ \E targets \in SUBSET Eps :
        /\ targets # {}
        /\ GoOp(a, [pc |-> "bulk", targets |-> targets, done |-> {}])
    /\ UNCHANGED <<dbVars, data, resolve, resp, req, late, stale, uncleared, untold>>

BulkRow(a) ==
    /\ op[a].pc = "bulk"
    /\ \E e \in op[a].targets \ op[a].done :
        /\ Present(e)
        /\ ~Locked(Admins \ {a}, e)
        /\ GoOp(a, [op[a] EXCEPT !.done = @ \cup {e}])
    /\ UNCHANGED <<dbVars, data, resolve, resp, req, late, stale, uncleared, untold, ops>>

\* ... and become visible together, when all of them succeeded.
BulkCommit(a) ==
    /\ op[a].pc = "bulk"
    /\ op[a].done = op[a].targets
    /\ NewRev
    /\ db' = [e \in Eps |-> IF e \in op[a].targets THEN [db[e] EXCEPT !.rev = rev'] ELSE db[e]]
    /\ Written(a, [pc |-> "invalidating", todo |-> op[a].targets])
    /\ UNCHANGED <<data, resolve, resp, req, late, stale, uncleared, ops>>

\* Any row that fails rolls all of them back, and the caches are left alone.
BulkRollback(a) ==
    /\ op[a].pc = "bulk"
    /\ GoOp(a, Idle)
    /\ UNCHANGED <<dbVars, data, resolve, resp, req, late, stale, uncleared, untold, ops>>

\* Mutant of BulkInvalidate: the loop does not notice its last endpoint.
BulkInvalidateForever(a) ==
    /\ op[a].pc = "invalidating"
    /\ \E e \in op[a].todo :
        /\ resp' = [resp EXCEPT ![e] = NoEntry]
        /\ GoOp(a, [op[a] EXCEPT !.todo = @ \ {e}])
    /\ UNCHANGED <<dbVars, data, resolve, req, late, stale, uncleared, untold, ops>>

BulkInvalidate(a) ==
    /\ op[a].pc = "invalidating"
    /\ \E e \in op[a].todo :
        /\ resp' = [resp EXCEPT ![e] = NoEntry]
        /\ GoOp(a, IF op[a].todo = {e} THEN [pc |-> "clearing"]
                   ELSE [op[a] EXCEPT !.todo = @ \ {e}])
    /\ UNCHANGED <<dbVars, data, resolve, req, late, stale, uncleared, untold, ops>>

----------------------------------------------------------------------------
\* Statements that change all rows of the project at once, wait for the locks of
\* open transactions, and clear nothing.
WholesaleWrite ==
    /\ ops < MaxOps
    /\ ops' = ops + 1
    /\ \A e \in Eps : ~Locked(Admins, e)
    /\ untold' = TRUE
    /\ UNCHANGED <<data, resolve, resp, req, late, stale, op, uncleared>>

\* The control plane deletes the project.
DeleteProject ==
    /\ WholesaleWrite
    /\ db' = [e \in Eps |-> IF Present(e) THEN Deleted ELSE db[e]]
    /\ UNCHANGED rev

\* A restore deletes the rows and inserts those of the archive, in one
\* transaction; here at most one is active and on this path.
RestoreRows ==
    /\ WholesaleWrite
    /\ NewRev
    /\ \E back \in SUBSET Eps, v \in 1..MaxVersion :
        /\ Cardinality(back) <= 1
        /\ db' = [e \in Eps |->
                    IF e \in back THEN [version |-> v, rev |-> rev', active |-> TRUE, live |-> TRUE]
                    ELSE IF Present(e) THEN Deleted ELSE db[e]]

----------------------------------------------------------------------------
\* Data.  Rows changed through the data routes start onDataChange and do not
\* wait for it; changes by the dynamic API, SQL and cron jobs start nothing.
ChangeData ==
    /\ data < MaxData
    /\ data' = data + 1
    /\ stale' \in {stale, TRUE}
    /\ UNCHANGED <<dbVars, resolve, resp, req, late, op, uncleared, untold, ops>>

\* Which endpoints it looks up (active, cached, configured for this table and
\* event) is data; a failed lookup or delete is swallowed.
OnDataChange ==
    /\ stale
    /\ stale' = FALSE
    /\ \E found \in SUBSET Eps : resp' = [e \in Eps |-> IF e \in found THEN NoEntry ELSE resp[e]]
    /\ UNCHANGED <<dbVars, data, resolve, req, late, op, uncleared, untold, ops>>

----------------------------------------------------------------------------
ServeStep(r) ==
    \/ ReadCandidates(r) \/ SetResolve(r) \/ SetResolveFails(r)
    \/ NotFound(r) \/ ServeCached(r) \/ Execute(r) \/ SetResponse(r) \/ LeaveUnstored(r)

Serve(r) == GetHit(r) \/ GetMiss(r) \/ ServeStep(r)

\* Steps of a handler that has begun.
Proceed(a) ==
    \/ ClearResolve(a) \/ ClearFails(a) \/ CreateInsert(a) \/ CreateConflict(a)
    \/ UpdateRow(a) \/ DeleteRow(a) \/ WriteFails(a) \/ ToggleWrite(a)
    \/ Deprecate(a) \/ InsertSuccessor(a) \/ BumpFails(a)
    \/ BulkRow(a) \/ BulkCommit(a) \/ BulkRollback(a) \/ BulkInvalidate(a)

Administer(a) ==
    \/ CreateCheck(a) \/ InvalidateFirst(a) \/ ToggleRead(a) \/ BumpRead(a) \/ BulkBegin(a)
    \/ Proceed(a)

Next ==
    \/ \E r \in Requests : Serve(r)
    \/ \E a \in Admins : Administer(a)
    \/ DeleteProject
    \/ RestoreRows
    \/ ExpireResolve
    \/ ChangeData
    \/ OnDataChange
    \/ \E e \in Eps : ExpireResponse(e)

\* Redis drops entries in time, and a handler that has begun runs to its end.
Fairness ==
    /\ WF_vars(ExpireResolve)
    /\ \A e \in Eps : WF_vars(ExpireResponse(e))
    /\ \A r \in Requests : WF_vars(ServeStep(r))
    /\ \A a \in Admins : WF_vars(Proceed(a))

Spec == Init /\ [][Next]_vars

FairSpec == Spec /\ Fairness
----------------------------------------------------------------------------
Snapshot == [id : Eps, version : Nat, rev : Nat]

ReqState ==
    [pc : {"idle", "reading"}]
    \cup [pc : {"setting", "selecting"}, cands : SUBSET Snapshot]
    \cup [pc : {"storing"}, id : Eps, result : [rev : Nat, data : Nat]]

OpState ==
    [pc : {"idle", "clearing"}]
    \cup [pc : {"creating"}, version : Nat]
    \cup [pc : {"updating", "deleting"}, id : Eps]
    \cup [pc : {"toggling"}, id : Eps, active : BOOLEAN]
    \cup [pc : {"deprecating", "succeeding"}, id : Eps, row : Row]
    \cup [pc : {"bulk"}, targets : SUBSET Eps, done : SUBSET Eps]
    \cup [pc : {"invalidating"}, todo : (SUBSET Eps) \ {{}}]

\* Type invariant of the table, the Redis entries and the two kinds of handlers.
TypeOK ==
    /\ \A e \in Eps : Present(e) => db[e] \in Row
    /\ rev \in Nat /\ data \in Nat /\ ops \in Nat
    /\ resolve # NoEntry => /\ resolve.rows \subseteq Snapshot
                            /\ resolve.late \in BOOLEAN
    /\ \A e \in Eps : resp[e] # NoEntry => resp[e] \in [rev : Nat, data : Nat]
    /\ stale \in BOOLEAN
    /\ \A a \in Admins : op[a] \in OpState
    /\ \A r \in Requests : req[r] \in ReqState
    /\ late \in [Requests -> BOOLEAN]
    /\ uncleared \in BOOLEAN
    /\ untold \in BOOLEAN

\* A handler has changed the table and has not cleared the entry yet.
Unclear(a) == op[a].pc \in {"clearing", "invalidating", "succeeding"}

\* When the resolve entry differs from the table, the reason is one of four: a
\* handler of the panel is about to clear it; one failed before it could; a
\* request read the table, was overtaken by a whole clear and only then wrote the
\* entry; or the rows were changed by a tool of the gateway, a restore or the
\* deletion of the project and no handler of the panel has cleared it since.  No
\* other order of reads, writes and clears leaves the entry behind the table.
StaleResolveExplained ==
    resolve # NoEntry /\ resolve.rows # Candidates =>
        resolve.late \/ uncleared \/ untold \/ \E a \in Admins : Unclear(a)

FreshResponse(e) ==
    resp[e] = NoEntry \/ (Present(e) /\ resp[e] = [rev |-> db[e].rev, data |-> data])

\* Once definitions and data stop changing, the entries end up equal to what the
\* database holds and stay so, however late the last stale value was stored.
EventuallyFresh ==
    <>[](/\ resolve = NoEntry \/ resolve.rows = Candidates
         /\ \A e \in Eps : FreshResponse(e))
====
