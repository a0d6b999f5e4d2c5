---- MODULE ProjectDb ----
(***************************************************************************)
(* One project's schema in the shared PostgreSQL, and the requests that    *)
(* work on it.  A handler is a sequence of statements, each awaited on its *)
(* own connection: between two of them any other request may run one of    *)
(* its own, a statement may be refused, and the worker may stop.           *)
(*                                                                         *)
(* The services of the worker (SchemaService, Versioning, Backups,         *)
(* DataService) give each operation its statements; this module runs them. *)
(***************************************************************************)
EXTENDS Naturals, FiniteSets, SequencesExt

CONSTANTS
    TableOrder, \* names of tables, in the order of ORDER BY table_name
    Ids,        \* identifiers of records; the other column, v, holds one of them
    Null,       \* or none
    SysOrder,   \* tables of the worker with rows about a table, in the order of dropTable
    ArrayKinds, \* those that hold names of tables in an array (webhooks.table_names)
    Jobs,       \* requests being served
    Scenarios,  \* initial databases, with what the clients ask for and how often
    MaxFaults   \* bound: statements refused by the environment, and stops of the worker

VARIABLES
    db,       \* the tables of the project, their foreign keys, the worker's rows about them
    jobs,     \* the request served in each slot
    answer,   \* how the last request of a slot was answered
    menu,     \* the operations clients ask for
    calls,    \* requests still to come
    faults,   \* failures still to come
    told      \* history: answers given since a table was created, to what changes tables

dbVars == <<db, jobs, answer, menu, calls, faults, told>>

Tables == ToSet(TableOrder)
Kinds == ToSet(SysOrder)
Base == {"id", "v"}
Optional == {"deleted_at", "req"}
Columns == Base \cup Optional
Required == {"req"} \* NOT NULL and without a default
Values == Ids \cup {Null}
Rows == [id : Ids, v : Values, gone : BOOLEAN]
\* Of ON DELETE.  NO ACTION is RESTRICT: no key is deferred, both refuse the statement.
Rules == {"CASCADE", "SET NULL", "RESTRICT"}
Links == [from : Tables, to : Tables, rule : Rules]
Facts == {"hypertable", "compression", "compress", "retain", "view", "refresh"} \* of TimescaleDB
Answers == {"none", "ok", "error"}

----------------------------------------------------------------------------
\* What PostgreSQL enforces: unique keys, unique indexes, which let nulls pass, values where
\* a key or the time of events is, and foreign keys, whose target has to be a unique column.
Unique(rows, col) == \A r, q \in rows : r[col] = q[col] /\ r[col] # Null => r = q

Sound(d) ==
    /\ \A t \in DOMAIN d.tab :
        /\ d.tab[t].key # "none" => Unique(d.tab[t].rows, d.tab[t].key)
        /\ d.tab[t].uniq => Unique(d.tab[t].rows, "v")
        /\ d.tab[t].key = "v" \/ "hypertable" \in d.tab[t].time => \A r \in d.tab[t].rows : r.v # Null
    /\ \A f \in d.fks :
        /\ f.from \in DOMAIN d.tab /\ f.to \in DOMAIN d.tab
        /\ d.tab[f.to].key = "id"
        /\ \A r \in d.tab[f.from].rows : r.v # Null => \E q \in d.tab[f.to].rows : q.id = r.v

\* What else a database of the project always is: keys and indexes are on columns of their
\* tables, only tables with deleted_at have marked records, and a table of events is keyed
\* by its time, if at all.
Table == [cols : SUBSET Columns, key : Base \cup {"none"}, uniq : BOOLEAN, trigger : BOOLEAN,
          time : SUBSET Facts, rows : SUBSET Rows]

WellFormed(T) ==
    /\ T.key \in T.cols \cup {"none"}
    /\ T.uniq => "v" \in T.cols
    /\ "hypertable" \in T.time => "v" \in T.cols /\ T.key # "id"
    /\ \A r \in T.rows : r.gone => "deleted_at" \in T.cols

Database(d) ==
    /\ d = [tab |-> d.tab, fks |-> d.fks, sys |-> d.sys]
    /\ DOMAIN d.tab \subseteq Tables /\ d.tab \in [DOMAIN d.tab -> Table]
    /\ d.fks \subseteq Links /\ d.sys \subseteq Kinds \X Tables
    /\ Sound(d)
    /\ \A t \in DOMAIN d.tab : WellFormed(d.tab[t])
    /\ \A f \in d.fks : "v" \in d.tab[f.from].cols

\* Tables that have their key, their trigger and their policies.
Whole(T) ==
    /\ T.key # "none" /\ T.trigger
    /\ "compression" \in T.time => "compress" \in T.time
    /\ "view" \in T.time => "refresh" \in T.time

ASSUME ProjectAssumption ==
    /\ TableOrder \in Seq(Tables) \ {<<>>} /\ SysOrder \in Seq(Kinds)
    /\ IsFiniteSet(Ids) /\ Null \notin Ids
    /\ MaxFaults \in Nat
    /\ \A s \in Scenarios :
        /\ Database(s.db) /\ s.calls \in Nat
        /\ \A t \in DOMAIN s.db.tab : Whole(s.db.tab[t])

\* ON DELETE, for the rows that refer to what is gone from table t.
Cascade(d, t) ==
    LET orphaned(s, r, rule) == \E f \in d.fks :
            f.from = s /\ f.to = t /\ f.rule = rule /\ r.v # Null /\ \A q \in d.tab[t].rows : q.id # r.v
        left(s, r) == IF orphaned(s, r, "SET NULL") THEN [r EXCEPT !.v = Null] ELSE r
    IN  [d EXCEPT !.tab = [s \in DOMAIN d.tab |->
            [d.tab[s] EXCEPT !.rows = {left(s, r) : r \in {q \in @ : ~orphaned(s, q, "CASCADE")}}]]]

NewTable(cols, key) == [cols |-> cols, key |-> key, uniq |-> FALSE, trigger |-> FALSE,
                         time |-> {}, rows |-> {}]

Put(f, x, y) == [z \in DOMAIN f \cup {x} |-> IF z = x THEN y ELSE f[z]]

With(d, t, table) == [d EXCEPT !.tab = Put(@, t, table)]

\* Records without what they had in a column.  They keep an id when the column is gone, which
\* no statement can see: the new one that its default gives them when it is added again.
Blank(rows, col) ==
    CASE col = "deleted_at" -> {[r EXCEPT !.gone = FALSE] : r \in rows}
      [] col = "v" -> {[r EXCEPT !.v = Null] : r \in rows}
      [] OTHER -> rows

\* DROP COLUMN ... CASCADE: the keys, indexes and foreign keys on the column go with it.
DropCascade(d, t, col) ==
    LET T == d.tab[t] IN
    [With(d, t, [T EXCEPT !.cols = @ \ {col},
                          !.key = IF @ = col THEN "none" ELSE @,
                          !.uniq = @ /\ col # "v",
                          !.rows = Blank(@, col)])
        EXCEPT !.fks = {f \in @ : ~(f.to = t /\ col = "id") /\ ~(f.from = t /\ col = "v")}]

Sql(what, t) == [sql |-> what, tab |-> t, soft |-> FALSE]
Soft(s) == [s EXCEPT !.soft = TRUE] \* its failure is caught and ignored
CreateTable(t, cols, key) == [sql |-> "CREATE TABLE", tab |-> t, soft |-> FALSE, cols |-> cols, key |-> key]
AddColumn(t, col) == [sql |-> "ADD COLUMN", tab |-> t, soft |-> FALSE, col |-> col]
DropColumn(t, col) == [sql |-> "DROP COLUMN", tab |-> t, soft |-> FALSE, col |-> col]
AddKey(t, key, promote) == [sql |-> "ADD KEY", tab |-> t, soft |-> FALSE, key |-> key, promote |-> promote]
AddForeignKey(fk) == [sql |-> "ADD FOREIGN KEY", tab |-> fk.from, soft |-> FALSE, fk |-> fk]
Insert(t, rows, cols) == [sql |-> "INSERT", tab |-> t, soft |-> FALSE, rows |-> rows, cols |-> cols]
\* must: the request fails when no record has one of the ids.
Update(t, ids, v, must) == [sql |-> "UPDATE", tab |-> t, soft |-> FALSE, ids |-> ids, v |-> v, must |-> must]
SetDeleted(t, ids, gone, must) ==
    [sql |-> "SET DELETED", tab |-> t, soft |-> FALSE, ids |-> ids, gone |-> gone, must |-> must]
Delete(t, ids, must) == [sql |-> "DELETE", tab |-> t, soft |-> FALSE, ids |-> ids, must |-> must]
DeleteSystem(kind, of, byName) ==
    [sql |-> "DELETE SYSTEM ROWS", soft |-> FALSE, kind |-> kind, of |-> of, byName |-> byName]
InsertSystem(of) == [sql |-> "INSERT SYSTEM ROWS", soft |-> FALSE, of |-> of]
ReplaceSystem(kind, of) == [sql |-> "REPLACE SYSTEM ROWS", soft |-> TRUE, kind |-> kind, of |-> of]
Transaction(body) == [sql |-> "TRANSACTION", soft |-> FALSE, body |-> body]
\* Adds the facts adds about t, takes away those of drops: needs must hold before.
Timescale(t, needs, drops, adds) ==
    [sql |-> "TIMESCALE", tab |-> t, soft |-> FALSE, needs |-> needs, drops |-> drops, adds |-> adds]
Log == [sql |-> "LOG", soft |-> TRUE]

\* The steps of each member of S, in the given order.
InOrder(order, S, Steps(_)) ==
    FlattenSeq([i \in DOMAIN order |-> IF order[i] \in S THEN Steps(order[i]) ELSE <<>>])

ForTables(S, Steps(_)) == InOrder(TableOrder, S, Steps)

\* A loop that reads something of each table in S, one after the other.
Loop(what, S) == IF S = {} THEN <<>> ELSE <<[do |-> what, of |-> S]>>

First(S) == TableOrder[CHOOSE i \in DOMAIN TableOrder :
                           TableOrder[i] \in S /\ \A k \in 1 .. i - 1 : TableOrder[k] \notin S]

Found(T, s) == s.must => \E r \in T.rows : r.id \in s.ids

Without(d, t) == [d EXCEPT !.tab = Restrict(d.tab, DOMAIN d.tab \ {t}),
                           !.fks = {f \in @ : t \notin {f.from, f.to}}]

\* What a statement does, as a set of at most one database: none when it is refused for
\* a reason other than a constraint.
OnTable(d, s) ==
    LET t == s.tab  T == d.tab[t] IN
    IF s.sql = "DROP TABLE" THEN {Without(d, t)}
    ELSE IF t \notin DOMAIN d.tab THEN
        CASE s.sql = "CREATE TABLE" -> {With(d, t, NewTable(s.cols, s.key))}
          [] s.sql \in {"DROP INDEX", "DROP TABLE RESTRICT", "DROP VIEW"} -> {d}
          [] OTHER -> {}
    ELSE
    CASE s.sql = "CREATE TRIGGER" /\ ~T.trigger -> {With(d, t, [T EXCEPT !.trigger = TRUE])}
      [] s.sql = "ADD COLUMN" /\ s.col \notin T.cols /\ (s.col \in Required => T.rows = {}) ->
            {With(d, t, [T EXCEPT !.cols = @ \cup {s.col}])}
      [] s.sql = "DROP COLUMN" /\ ~("hypertable" \in T.time /\ s.col = "v") -> {DropCascade(d, t, s.col)}
      [] s.sql = "DROP KEY" /\ T.key # "none" -> {With(d, t, [T EXCEPT !.key = "none"])}
      [] s.sql = "DROP KEY IF EXISTS" -> {With(d, t, [T EXCEPT !.key = "none"])}
      [] s.sql = "ADD KEY" /\ T.key = "none" /\ s.key \in T.cols /\ (s.promote => T.uniq)
                           /\ ("hypertable" \in T.time => s.key = "v") ->
            {With(d, t, [T EXCEPT !.key = s.key, !.uniq = @ /\ ~s.promote])}
      [] s.sql = "CREATE UNIQUE INDEX" /\ "v" \in T.cols -> {With(d, t, [T EXCEPT !.uniq = TRUE])}
      [] s.sql = "DROP INDEX" -> {With(d, t, [T EXCEPT !.uniq = FALSE])}
      [] s.sql = "ADD FOREIGN KEY" /\ "v" \in T.cols /\ ~\E f \in d.fks : f.from = t /\ f.to = s.fk.to ->
            {[d EXCEPT !.fks = @ \cup {s.fk}]}
      [] s.sql = "DROP FOREIGN KEYS" -> {[d EXCEPT !.fks = {f \in @ : f.from # t}]}
      [] s.sql = "TRUNCATE" /\ ~\E f \in d.fks : f.to = t -> {With(d, t, [T EXCEPT !.rows = {}])}
      [] s.sql = "DROP TABLE RESTRICT" /\ "view" \notin T.time /\ ~\E f \in d.fks : f.to = t ->
            {Without(d, t)}
      [] s.sql = "DROP VIEW" -> {With(d, t, [T EXCEPT !.time = @ \ {"view", "refresh"}])}
      [] s.sql = "TIMESCALE" /\ s.needs \subseteq T.time
                             /\ s.adds \cap (T.time \ s.drops) \subseteq {"hypertable", "compression"}
                             /\ ("hypertable" \in s.adds => "v" \in T.cols /\ T.key # "id") ->
            {With(d, t, [T EXCEPT !.time = (@ \ s.drops) \cup s.adds])}
      [] s.sql = "INSERT" /\ s.cols \subseteq T.cols
                          /\ (T.key # "none" \/ T.uniq => s.rows \cap T.rows = {})
                          /\ (s.rows # {} => Required \cap T.cols \subseteq s.cols) ->
            {With(d, t, [T EXCEPT !.rows = @ \cup s.rows])}
      [] s.sql = "UPDATE" /\ Base \subseteq T.cols /\ Found(T, s) ->
            {With(d, t, [T EXCEPT !.rows = {IF r.id \in s.ids THEN [r EXCEPT !.v = s.v] ELSE r : r \in @}])}
      [] s.sql = "SET DELETED" /\ {"id", "deleted_at"} \subseteq T.cols /\ Found(T, s) ->
            {With(d, t, [T EXCEPT !.rows =
                {IF r.id \in s.ids THEN [r EXCEPT !.gone = s.gone] ELSE r : r \in @}])}
      [] s.sql = "DELETE" /\ "id" \in T.cols /\ Found(T, s) ->
            {Cascade(With(d, t, [T EXCEPT !.rows = {r \in @ : r.id \notin s.ids}]), t)}
      [] s.sql = "DELETE ALL" -> {Cascade(With(d, t, [T EXCEPT !.rows = {}]), t)}
      [] OTHER -> {}

Effects(d, s) ==
    CASE s.sql \in {"CREATE FUNCTION", "LOG"} -> {d}
      [] s.sql = "DELETE SYSTEM ROWS" ->
            IF s.kind \in ArrayKinds /\ s.byName THEN {} ELSE {[d EXCEPT !.sys = @ \ s.of]}
      [] s.sql = "REPLACE SYSTEM ROWS" ->
            IF s.kind \in ArrayKinds THEN {}
            ELSE {[d EXCEPT !.sys = {x \in @ : x[1] # s.kind} \cup s.of]}
      [] s.sql = "INSERT SYSTEM ROWS" -> {[d EXCEPT !.sys = @ \cup s.of]}
      [] OTHER -> OnTable(d, s)

Single(d, s) == {e \in Effects(d, s) : Sound(e)}

\* A transaction is done entirely or not at all.  Its soft statements run in savepoints.
After(d, s) ==
    IF s.sql # "TRANSACTION" THEN Single(d, s)
    ELSE LET run[n \in 0 .. Len(s.body)] ==
                 IF n = 0 THEN {d}
                 ELSE LET es == UNION {Single(e, s.body[n]) : e \in run[n - 1]} IN
                      IF es = {} /\ s.body[n].soft THEN run[n - 1] ELSE es
         IN  run[Len(s.body)]

----------------------------------------------------------------------------
\* The shape of a database: all but its rows.
Shape(d) == [t \in DOMAIN d.tab |-> [d.tab[t] EXCEPT !.rows = {}]]
Contents(d) == [t \in DOMAIN d.tab |-> d.tab[t].rows]
ColumnsOf(d) == [t \in DOMAIN d.tab |-> d.tab[t].cols]

Changed(d, e) ==
    (IF Shape(d) # Shape(e) \/ d.fks # e.fks THEN {"schema"} ELSE {})
        \cup (IF Contents(d) # Contents(e) THEN {"rows"} ELSE {})
        \cup (IF d.sys # e.sys THEN {"rules"} ELSE {})

\* What a handler has read: the columns of tables, the last version, the rows and links of
\* an export, the rules and columns of a write; excused is history.
Nothing == [schema |-> <<>>, number |-> 0, prior |-> <<>>, rows |-> <<>>, links |-> {}, uniq |-> {},
            sys |-> {}, ruled |-> FALSE, soft |-> FALSE, excused |-> FALSE]

\* A slot without a request.
NoJob == [op |-> "none", tab |-> TableOrder[1], todo |-> <<>>, seen |-> Nothing, met |-> {}]

\* Operations whose answers are kept for the tables they work on.
Altering == {"create table", "create without key", "create without trigger", "create bare",
             "alter base", "set key", "drop key", "compress", "remove compression", "aggregate",
             "plain aggregate", "remove refresh"}
WholeSchema == {"rollback", "restore"}
Works(job, t) == job.op \in WholeSchema \/ (job.op \in Altering /\ job.tab = t)

\* The answers in said, a set of pairs of a job and an answer, given when the database is e.
Tell(e, said) ==
    told' = [t \in Tables |->
                IF t \notin DOMAIN e.tab THEN {}
                ELSE told[t] \cup {<<x[1].op, x[2]>> : x \in {y \in said : Works(y[1], t)}}]

\* Job j becomes next, and the others learn what it changed under them.
Become(j, next, e, kinds) ==
    /\ db' = e
    /\ jobs' = [k \in Jobs |-> CASE k = j -> next
                                 [] jobs[k] = NoJob -> NoJob
                                 [] OTHER -> [jobs[k] EXCEPT !.met = @ \cup kinds \cup Changed(db, e)]]

\* The request of job j is answered.
End(j, said, e, kinds) ==
    /\ Become(j, NoJob, e, kinds)
    /\ answer' = [answer EXCEPT ![j] = said]
    /\ Tell(e, {<<jobs[j], said>>})

\* Job j has done its first step: todo is what is left of it.
Go(j, todo, seen, e, kinds) ==
    IF todo = <<>> THEN End(j, "ok", e, kinds)
    ELSE /\ Become(j, [jobs[j] EXCEPT !.todo = todo, !.seen = seen], e, kinds)
         /\ Tell(e, {})
         /\ UNCHANGED answer

At(j, what) == jobs[j] # NoJob /\ "do" \in DOMAIN Head(jobs[j].todo) /\ Head(jobs[j].todo).do = what

\* A step that only reads: it is replaced by the steps more, and job j remembers seen.
Learn(j, more, seen) ==
    /\ Go(j, more \o Tail(jobs[j].todo), seen, db, {})
    /\ UNCHANGED <<menu, calls, faults>>

Refuse(j) == End(j, "error", db, {}) /\ UNCHANGED <<menu, calls, faults>>

\* A client asks for op on table t: the request is what todo says.
Idle(j) == jobs[j] = NoJob /\ calls > 0

Begin(j, op, t, todo) ==
    /\ Idle(j)
    /\ op \in menu
    /\ calls' = calls - 1
    /\ jobs' = [jobs EXCEPT ![j] = [op |-> op, tab |-> t, todo |-> todo, seen |-> Nothing, met |-> {}]]
    /\ answer' = [answer EXCEPT ![j] = "none"]
    /\ UNCHANGED <<db, menu, faults, told>>

----------------------------------------------------------------------------
Statement(j) == jobs[j] # NoJob /\ "sql" \in DOMAIN Head(jobs[j].todo)

Execute(j) ==
    /\ Statement(j)
    /\ \E e \in After(db, Head(jobs[j].todo)) : Go(j, Tail(jobs[j].todo), jobs[j].seen, e, {})
    /\ UNCHANGED <<menu, calls, faults>>

\* A refused statement ends the request with an error, unless the code swallows it.
Fail(j, seen) ==
    IF Head(jobs[j].todo).soft THEN Go(j, Tail(jobs[j].todo), seen, db, {})
    ELSE End(j, "error", db, {})

Rejected(j) ==
    /\ Statement(j)
    /\ After(db, Head(jobs[j].todo)) = {}
    /\ Fail(j, jobs[j].seen)
    /\ UNCHANGED <<menu, calls, faults>>

\* The connection is lost, a lock or the statement's timeout is not granted in time.
Fault(j) ==
    /\ Statement(j)
    /\ faults > 0
    /\ faults' = faults - 1
    /\ Fail(j, [jobs[j].seen EXCEPT !.excused = TRUE])
    /\ UNCHANGED <<menu, calls>>

\* The worker stops: no request goes on, and none of them is answered with success.
Stop ==
    /\ faults > 0
    /\ faults' = faults - 1
    /\ jobs' = [j \in Jobs |-> NoJob]
    /\ answer' = [j \in Jobs |-> IF jobs[j] = NoJob THEN answer[j] ELSE "error"]
    /\ Tell(db, {<<jobs[j], "error">> : j \in {k \in Jobs : jobs[k] # NoJob}})
    /\ UNCHANGED <<db, menu, calls>>

DbInit ==
    /\ \E s \in Scenarios : db = s.db /\ menu = s.menu /\ calls = s.calls
    /\ jobs = [j \in Jobs |-> NoJob]
    /\ answer = [j \in Jobs |-> "none"]
    /\ faults = MaxFaults
    /\ told = [t \in Tables |-> {}]

DbStep(j) == Execute(j) \/ Rejected(j) \/ Fault(j)
====
