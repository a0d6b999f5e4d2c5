---- MODULE DynamicApi ----
(***************************************************************************)
(* The dynamic API of the worker: table endpoints of every project are     *)
(* served by ONE Executor object (builder.routes.ts:215) whose mutation    *)
(* hook is a single mutable slot (executor.ts:26, 30-32).  Each request    *)
(* overwrites the slot with a closure over its own project                 *)
(* (builder.routes.ts:400) and the executor reads the slot after its       *)
(* statement has returned (executor.ts:321, 394, 419, 430), that is after  *)
(* awaits during which other requests overwrite it.                        *)
(*                                                                         *)
(* A row is an identifier.  Table endpoints leave it to the database       *)
(* (sanitizeBody drops the id column), whose sequence never hands one out  *)
(* twice; SQL may name the identifiers of the rows it inserts itself, also *)
(* ones that were deleted or that the sequence has still to reach.  What a *)
(* row holds does not matter.  Admission (slug, disabled flag, quota,      *)
(* IP list) and endpoint selection and authentication are each one step    *)
(* that may refuse: what they decide is data, when they run is not.        *)
(***************************************************************************)
EXTENDS FiniteSets, Naturals

CONSTANTS
    Projects,   \* projects hosted by this worker
    Requests,   \* HTTP requests; each is served once
    Ids,        \* row identifiers the databases can generate
    MaxBatch,   \* bound: rows in the body of a create_many request
    NoProject,  \* an executor whose hook was never set
    NoRow       \* no row in flight

ASSUME ConstantsAssumption ==
    /\ NoProject \notin Projects
    /\ NoRow \notin Ids
    /\ MaxBatch \in Nat

Ops == {"find", "create", "create_many", "update", "delete", "custom_sql"}

\* Both route plugins build an Executor; only the dynamic API sets its hook.
Executors == {"api", "panel"}

VARIABLES
    pc,       \* where each request's handler is suspended
    req,      \* its project, operation and executor
    row,      \* the row its last statement returned or read
    left,     \* rows of its batch not yet tried
    pending,  \* rows its open batch transaction has written and locked
    reply,    \* what the client was answered
    table,    \* committed rows of each project
    used,     \* identifiers each project's sequence has handed out
    named,    \* history: identifiers given to rows by SQL, not by the sequence
    hook,     \* the project each executor's mutation hook announces to
    wrote,    \* history: writes the database committed
    sent,     \* history: events broadcast on a project's channels
    since     \* history: projects that replaced the hook under a request

dbVars == <<pending, table, used, named, wrote>>
vars == <<pc, req, row, left, pending, reply, table, used, named, hook, wrote, sent, since>>

EventOf == [create |-> "INSERT", create_many |-> "INSERT",
            update |-> "UPDATE", delete |-> "DELETE"]

Write(r, id) == [by |-> r, id |-> id, event |-> EventOf[req[r].op]]

Served(r) == pc[r] \in {"resolving", "executing", "deleting", "batch", "returned"}

\* A row written by an open transaction is locked until it ends.
Locked(r, id) == \E q \in Requests \ {r} :
    req[q].project = req[r].project /\ id \in pending[q]

Rows(r) == table[req[r].project]

\* What the sequence may hand out to an insert that succeeds: SQL may have
\* taken a number before the sequence reached it.
Fresh(r) == Ids \ (used[req[r].project] \cup Rows(r))

Finish(r, outcome) ==
    /\ pc' = [pc EXCEPT ![r] = "done"]
    /\ reply' = [reply EXCEPT ![r] = outcome]

----------------------------------------------------------------------------
Init ==
    /\ pc = [r \in Requests |-> "idle"]
    /\ req \in [Requests -> [project : Projects, op : Ops, exec : Executors]]
    /\ row = [r \in Requests |-> NoRow]
    /\ left = [r \in Requests |-> 0]
    /\ pending = [r \in Requests |-> {}]
    /\ reply = [r \in Requests |-> "none"]
    /\ table \in [Projects -> SUBSET Ids]
    /\ used \in {u \in [Projects -> SUBSET Ids] : \A p \in Projects : u[p] \subseteq table[p]}
    /\ named = [p \in Projects |-> table[p] \ used[p]]
    /\ hook = [x \in Executors |-> NoProject]
    /\ wrote = {}
    /\ sent = {}
    /\ since = [r \in Requests |-> {}]

\* A request reaches a worker: the dynamic API first admits it, the panel's
\* "test endpoint" route goes straight to its own executor.
Arrive(r) ==
    /\ pc[r] = "idle"
    /\ pc' = [pc EXCEPT ![r] = IF req[r].exec = "api" THEN "admitting" ELSE "executing"]
    /\ UNCHANGED <<req, row, left, reply, dbVars, hook, sent, since>>

\* Unknown slug, disabled project, quota or IP list: answered before the hook is set.
RefuseEarly(r) ==
    /\ pc[r] = "admitting"
    /\ Finish(r, "refused")
    /\ UNCHANGED <<req, row, left, dbVars, hook, sent, since>>

\* Mutant of SetMutationHook: the slot is filled once and never replaced.
SetMutationHookOnce(r) ==
    LET p == req[r].project IN
    /\ pc[r] = "admitting"
    /\ hook' = [hook EXCEPT ![req[r].exec] = IF @ = NoProject THEN p ELSE @]
    /\ since' = [q \in Requests |-> IF q = r THEN {}
                                    ELSE IF Served(q) /\ req[q].exec = req[r].exec
                                         THEN since[q] \cup {p} ELSE since[q]]
    /\ pc' = [pc EXCEPT ![r] = "resolving"]
    /\ UNCHANGED <<req, row, left, reply, dbVars, sent>>

\* The slot is overwritten whatever requests are still executing.
SetMutationHook(r) ==
    LET p == req[r].project IN
    /\ pc[r] = "admitting"
    /\ hook' = [hook EXCEPT ![req[r].exec] = p]
    /\ since' = [q \in Requests |-> IF q = r THEN {}
                                    ELSE IF Served(q) /\ req[q].exec = req[r].exec
                                         THEN since[q] \cup {p} ELSE since[q]]
    /\ pc' = [pc EXCEPT ![r] = "resolving"]
    /\ UNCHANGED <<req, row, left, reply, dbVars, sent>>

\* No endpoint, bad credentials, rate limit, or a cached response: the
\* request ends without executing, and its hook stays in the slot.
RefuseLate(r) ==
    /\ pc[r] = "resolving"
    /\ Finish(r, "refused")
    /\ UNCHANGED <<req, row, left, dbVars, hook, sent, since>>

Dispatch(r) ==
    /\ pc[r] = "resolving"
    /\ pc' = [pc EXCEPT ![r] = "executing"]
    /\ UNCHANGED <<req, row, left, reply, dbVars, hook, sent, since>>

----------------------------------------------------------------------------
Executing(r, op) == pc[r] = "executing" /\ req[r].op = op

\* The statement on row id has been executed and its result is on the way back.
Return(r, id) ==
    /\ row' = [row EXCEPT ![r] = id]
    /\ pc' = [pc EXCEPT ![r] = "returned"]

Find(r) ==
    /\ Executing(r, "find")
    /\ Finish(r, "ok")
    /\ UNCHANGED <<req, row, left, dbVars, hook, sent, since>>

\* A custom_sql body runs and commits in one transaction and calls no hook.  A
\* row it inserts has the sequence's identifier or one the SQL names.
CustomSql(r) ==
    LET p == req[r].project IN
    /\ Executing(r, "custom_sql")
    /\ \E new \in SUBSET (Ids \ table[p]), gone \in SUBSET table[p] :
        /\ Cardinality(new) <= 1
        /\ Cardinality(gone) <= 1
        /\ \A id \in new \cup gone : ~Locked(r, id)
        /\ table' = [table EXCEPT ![p] = (@ \ gone) \cup new]
        /\ \/ new \subseteq Fresh(r) /\ used' = [used EXCEPT ![p] = @ \cup new] /\ UNCHANGED named
           \/ named' = [named EXCEPT ![p] = @ \cup new] /\ UNCHANGED used
    /\ Finish(r, "ok")
    /\ UNCHANGED <<req, row, left, pending, hook, wrote, sent, since>>

Create(r) ==
    LET p == req[r].project IN
    /\ Executing(r, "create")
    /\ \E id \in Fresh(r) :
        /\ table' = [table EXCEPT ![p] = @ \cup {id}]
        /\ used' = [used EXCEPT ![p] = @ \cup {id}]
        /\ wrote' = wrote \cup {Write(r, id)}
        /\ Return(r, id)
    /\ UNCHANGED <<req, left, pending, reply, named, hook, sent, since>>

\* Mutant of Update: announces the row asked for whether or not one was updated.
UpdateWithoutCheck(r) ==
    /\ Executing(r, "update")
    /\ \E id \in Ids :
        /\ ~Locked(r, id)
        /\ wrote' = IF id \in Rows(r) THEN wrote \cup {Write(r, id)} ELSE wrote
        /\ Return(r, id)
    /\ UNCHANGED <<req, left, pending, reply, table, used, named, hook, sent, since>>

Update(r) ==
    /\ Executing(r, "update")
    /\ \E id \in Rows(r) :
        /\ ~Locked(r, id)
        /\ wrote' = wrote \cup {Write(r, id)}
        /\ Return(r, id)
    /\ UNCHANGED <<req, left, pending, reply, table, used, named, hook, sent, since>>

\* Mutant of ReadExisting: the event goes out between the SELECT and the DELETE,
\* and a DELETE that fails afterwards is not noticed.
AnnounceBeforeDelete(r) ==
    /\ Executing(r, "delete")
    /\ \E id \in Rows(r) : Return(r, id)
    /\ UNCHANGED <<req, left, reply, dbVars, hook, sent, since>>

\* delete first selects the row it will announce ...
ReadExisting(r) ==
    /\ Executing(r, "delete")
    /\ \E id \in Rows(r) : row' = [row EXCEPT ![r] = id]
    /\ pc' = [pc EXCEPT ![r] = "deleting"]
    /\ UNCHANGED <<req, left, reply, dbVars, hook, sent, since>>

\* ... then deletes it by id, without looking at how many rows were deleted.
Delete(r) ==
    LET p == req[r].project IN
    /\ pc[r] = "deleting"
    /\ ~Locked(r, row[r])
    /\ table' = [table EXCEPT ![p] = @ \ {row[r]}]
    /\ wrote' = IF row[r] \in table[p] THEN wrote \cup {Write(r, row[r])} ELSE wrote
    /\ Return(r, row[r])
    /\ UNCHANGED <<req, left, pending, reply, used, named, hook, sent, since>>

\* A validation error, a missing row, a constraint: nothing was written.
FailStatement(r) ==
    /\ pc[r] \in {"executing", "deleting"}
    /\ Finish(r, "error")
    /\ UNCHANGED <<req, row, left, dbVars, hook, sent, since>>

\* The statement committed, but its connection broke before the answer came.
LoseResult(r) ==
    /\ pc[r] = "returned"
    /\ req[r].op # "create_many"
    /\ Finish(r, "error")
    /\ UNCHANGED <<req, row, left, dbVars, hook, sent, since>>

----------------------------------------------------------------------------
\* create_many: one transaction, one savepoint per row of the body.
BeginBatch(r) ==
    /\ Executing(r, "create_many")
    /\ \E n \in 0..MaxBatch : left' = [left EXCEPT ![r] = n]
    /\ pc' = [pc EXCEPT ![r] = "batch"]
    /\ UNCHANGED <<req, row, reply, dbVars, hook, sent, since>>

\* Mutant of NextRow: the loop runs past the last row of the body.
NextRowPastEnd(r) ==
    /\ pc[r] = "batch"
    /\ left' = [left EXCEPT ![r] = @ - 1]

NextRow(r) ==
    /\ pc[r] = "batch"
    /\ left[r] > 0
    /\ left' = [left EXCEPT ![r] = @ - 1]

InsertRow(r) ==
    LET p == req[r].project IN
    /\ NextRow(r)
    /\ \E id \in Fresh(r) :
        /\ used' = [used EXCEPT ![p] = @ \cup {id}]
        /\ pending' = [pending EXCEPT ![r] = @ \cup {id}]
        /\ Return(r, id)
    /\ UNCHANGED <<req, reply, table, named, hook, wrote, sent, since>>

\* Mutant of MergeRow: a merged row is not announced.
MergeRowSilently(r) ==
    /\ NextRow(r)
    /\ \E id \in Rows(r) \cup pending[r] :
        /\ ~Locked(r, id)
        /\ pending' = [pending EXCEPT ![r] = @ \cup {id}]
    /\ UNCHANGED <<pc, row, req, reply, table, used, named, hook, wrote, sent, since>>

\* on_conflict do_update: an existing row is merged, and announced as an INSERT.
MergeRow(r) ==
    /\ NextRow(r)
    /\ \E id \in Rows(r) \cup pending[r] :
        /\ ~Locked(r, id)
        /\ pending' = [pending EXCEPT ![r] = @ \cup {id}]
        /\ Return(r, id)
    /\ UNCHANGED <<req, reply, table, used, named, hook, wrote, sent, since>>

\* on_conflict do_nothing, an invalid row, or an error caught at its savepoint.
SkipRow(r) ==
    /\ NextRow(r)
    /\ UNCHANGED <<pc, req, row, reply, dbVars, hook, sent, since>>

CommitBatch(r) ==
    LET p == req[r].project IN
    /\ pc[r] = "batch"
    /\ left[r] = 0
    /\ table' = [table EXCEPT ![p] = @ \cup pending[r]]
    /\ wrote' = wrote \cup {Write(r, id) : id \in pending[r]}
    /\ pending' = [pending EXCEPT ![r] = {}]
    /\ Finish(r, "ok")
    /\ UNCHANGED <<req, row, left, used, named, hook, sent, since>>

\* A lost connection, or an error that only COMMIT raises (a deferred constraint).
AbortBatch(r) ==
    /\ \/ pc[r] = "batch"
       \/ pc[r] = "returned" /\ req[r].op = "create_many"
    /\ pending' = [pending EXCEPT ![r] = {}]
    /\ Finish(r, "error")
    /\ UNCHANGED <<req, row, left, table, used, named, hook, wrote, sent, since>>

----------------------------------------------------------------------------
\* The continuation of a statement reads the slot as it is now.
Announce(r) ==
    LET to == hook[req[r].exec] IN
    /\ pc[r] = "returned"
    /\ sent' = IF to = NoProject THEN sent
               ELSE sent \cup {[by |-> r, id |-> row[r], event |-> EventOf[req[r].op], to |-> to]}
    /\ IF req[r].op = "create_many"
       THEN pc' = [pc EXCEPT ![r] = "batch"] /\ UNCHANGED reply
       ELSE Finish(r, "ok")
    /\ UNCHANGED <<req, row, left, dbVars, hook, since>>

Handle(r) ==
    \/ RefuseEarly(r) \/ SetMutationHook(r) \/ RefuseLate(r) \/ Dispatch(r)
    \/ Find(r) \/ CustomSql(r) \/ Create(r) \/ Update(r) \/ ReadExisting(r) \/ Delete(r)
    \/ FailStatement(r) \/ LoseResult(r)
    \/ BeginBatch(r) \/ InsertRow(r) \/ MergeRow(r) \/ SkipRow(r) \/ CommitBatch(r) \/ AbortBatch(r)
    \/ Announce(r)

\* Every request has been answered; anything else is a handler that hangs.
AllAnswered == (\A r \in Requests : pc[r] = "done") /\ UNCHANGED vars

Next == (\E r \in Requests : Arrive(r) \/ Handle(r)) \/ AllAnswered

Spec == Init /\ [][Next]_vars

----------------------------------------------------------------------------
States == {"idle", "admitting", "resolving", "executing", "deleting", "batch", "returned", "done"}

Event == [by : Requests, id : Ids, event : {"INSERT", "UPDATE", "DELETE"}, to : Projects]

\* Type invariant of the handlers, the executors' hooks, the tables and the history.
TypeOK ==
    /\ pc \in [Requests -> States]
    /\ req \in [Requests -> [project : Projects, op : Ops, exec : Executors]]
    /\ row \in [Requests -> Ids \cup {NoRow}]
    /\ left \in [Requests -> Nat]
    /\ pending \in [Requests -> SUBSET Ids]
    /\ reply \in [Requests -> {"none", "refused", "ok", "error"}]
    /\ table \in [Projects -> SUBSET Ids]
    /\ used \in [Projects -> SUBSET Ids]
    /\ named \in [Projects -> SUBSET Ids]
    /\ hook \in [Executors -> Projects \cup {NoProject}]
    /\ wrote \subseteq [by : Requests, id : Ids, event : {"INSERT", "UPDATE", "DELETE"}]
    /\ sent \subseteq Event
    /\ since \in [Requests -> SUBSET Projects]

\* An event is broadcast on the channels of the project whose row changed, or of
\* one whose request replaced the hook while the writer was being served: only
\* overlapping requests can misdirect an event, a hook left behind never does.
MisdirectedOnlyByOverlap ==
    \A e \in sent : e.to = req[e.by].project \/ e.to \in since[e.by]

\* A create, create_many or update answered with success through the API has
\* announced exactly the rows it committed, whoever it announced them to.
SuccessMeansAnnounced ==
    \A r \in Requests :
        /\ req[r].exec = "api"
        /\ reply[r] = "ok"
        /\ req[r].op \in {"create", "create_many", "update"}
        => {e.id : e \in {x \in sent : x.by = r}} = {w.id : w \in {x \in wrote : x.by = r}}

\* An INSERT or UPDATE event whose write is not committed comes from a batch that
\* is still open or was rolled back after announcing rows, and from nowhere else.
PhantomsOnlyFromBatches ==
    \A e \in sent :
        \/ e.event = "DELETE"
        \/ [by |-> e.by, id |-> e.id, event |-> e.event] \in wrote
        \/ req[e.by].op = "create_many" /\ reply[e.by] # "ok"

\* Once a DELETE is announced the row is gone, whatever the announcing request
\* knew: two requests may both announce it, and a merge in an open batch never
\* brings it back.  Only SQL that names the identifier itself can, or the
\* sequence when it reaches an identifier that SQL had named before.
DeletedStaysDeleted ==
    \A e \in sent : e.event = "DELETE" /\ e.id \notin named[req[e.by].project] =>
        /\ e.id \notin table[req[e.by].project]
        /\ \A q \in Requests : req[q].project = req[e.by].project => e.id \notin pending[q]

\* ai-gateway.service.ts:152 says that table endpoints emit their events
\* automatically on every INSERT/UPDATE/DELETE; line 134 that a subscriber of
\* the project receives them.
EveryChangeReachesItsProject ==
    \A w \in wrote : reply[w.by] = "ok" /\ req[w.by].exec = "api" =>
        \E e \in sent : /\ e.by = w.by
                        /\ e.id = w.id
                        /\ e.to = req[w.by].project
====
