---- MODULE SchemaService ----
(***************************************************************************)
(* SchemaService: tables, columns, keys, foreign keys and indexes, changed *)
(* one statement after the other and outside any transaction.  The panel   *)
(* and the AI gateway ask for the same operations.                         *)
(***************************************************************************)
EXTENDS ProjectDb

CONSTANT References \* the pairs of a table and the table its column v may refer to

ASSUME ReferencesAssumption == References \subseteq Tables \X Tables

----------------------------------------------------------------------------
\* What the AI gateway offers, over REST and over MCP alike.
Creations == {"create table", "create without key", "create without trigger", "create bare"}
TableTools == Creations \cup {"alter", "alter base", "set key", "drop key", "drop table", "truncate"}
IndexTools == {"index", "unindex", "link", "unlink"}
SchemaTools == TableTools \cup IndexTools
TimescaleAdditions == {"hypertable", "aggregate", "plain aggregate", "compress", "retain"}
TimescaleChanges == {"remove compression", "remove retention", "remove refresh", "update policy",
                     "drop aggregate", "drop hypertable"}
TimescaleTools == TimescaleAdditions \cup TimescaleChanges
GatewayTools == SchemaTools \cup TimescaleTools

\* The gateway tries to write a line of its activity log before it answers.
GatewayRequest(j, op, t, todo) ==
    /\ "gateway" \in menu /\ op \in GatewayTools
    /\ Begin(j, op, t, Append(todo, Log))

Request(j, op, t, todo) == Begin(j, op, t, todo) \/ GatewayRequest(j, op, t, todo)

\* Mutant: a failure after the table is there is not reported.
CreateQuietly(t, key, stamped) ==
    LET table == CreateTable(t, Base, key) IN
    IF stamped THEN <<table, Soft(Sql("CREATE FUNCTION", t)), Soft(Sql("CREATE TRIGGER", t))>> ELSE <<table>>

\* The table, with a key or without one; when it is to be stamped, the function that stamps
\* updated_at, and the table's trigger.
CreateSteps(t, key, stamped) ==
    LET table == CreateTable(t, Base, key) IN
    IF stamped THEN <<table, Sql("CREATE FUNCTION", t), Sql("CREATE TRIGGER", t)>> ELSE <<table>>

Creation(key, stamped) ==
    CASE key # "none" /\ stamped -> "create table"
      [] key # "none" /\ ~stamped -> "create without trigger"
      [] key = "none" /\ stamped -> "create without key"
      [] OTHER -> "create bare"

CreateNewTable(j, t) ==
    \E key \in Base \cup {"none"}, stamped \in BOOLEAN :
        Request(j, Creation(key, stamped), t, CreateSteps(t, key, stamped))

\* One request holds several changes, done in order.  A constraint is named in the request:
\* here the key, as a foreign key goes by a request of its own.
Change(t, c) ==
    CASE c[1] = "add" -> AddColumn(t, c[2])
      [] c[1] = "drop" -> DropColumn(t, c[2])
      [] c[1] = "set_primary_key" -> [do |-> "find key", tab |-> t, key |-> c[2]]
      [] c[1] = "drop_primary_key" -> [do |-> "find key", tab |-> t, key |-> "none"]
      [] c[1] = "drop_constraint" -> Sql("DROP KEY IF EXISTS", t)

Changes(t, cs) == [i \in DOMAIN cs |-> Change(t, cs[i])]

\* Any column may go, the key's too.
AlterColumns(j, t) ==
    LET ask(op, cs) == Request(j, op, t, Changes(t, cs)) IN
    \/ \E change \in {"add", "drop"} :
        \/ \E col \in Optional : ask("alter", <<<<change, col>>>>)
        \/ \E col \in Base : ask("alter base", <<<<change, col>>>>)
    \/ ask("alter", <<<<"add", "deleted_at">>, <<"add", "req">>>>)
    \/ \E col \in Base : ask("set key", <<<<"set_primary_key", col>>>>)
    \/ \E change \in {"drop_primary_key", "drop_constraint"} : ask("drop key", <<<<change>>>>)

\* findPrimaryKeyConstraint, and what follows it: the old key goes first.
FindKey(j) ==
    LET s == Head(jobs[j].todo)
        key == IF s.tab \in DOMAIN db.tab THEN db.tab[s.tab].key ELSE "none"
    IN  /\ At(j, "find key")
        /\ Learn(j, (IF key = "none" THEN <<>> ELSE <<Sql("DROP KEY", s.tab)>>)
                        \o (IF s.key = "none" THEN <<>> ELSE <<[s EXCEPT !.do = "find index"]>>),
                 jobs[j].seen)

\* findUniqueIndexMatchingColumns: a unique index is promoted to the key.
FindIndex(j) ==
    LET s == Head(jobs[j].todo) IN
    /\ At(j, "find index")
    /\ Learn(j, <<AddKey(s.tab, s.key, s.key = "v" /\ s.tab \in DOMAIN db.tab /\ db.tab[s.tab].uniq)>>,
             jobs[j].seen)

\* The worker's rows about the table go one kind after the other, then the table.
DropSteps(t) ==
    Append([i \in DOMAIN SysOrder |-> Soft(DeleteSystem(SysOrder[i], {<<SysOrder[i], t>>}, TRUE))],
           Sql("DROP TABLE", t))

DropTable(j, t) == Request(j, "drop table", t, DropSteps(t))

TruncateTable(j, t) == Request(j, "truncate", t, <<Sql("TRUNCATE", t)>>)

AddLink(j, t) ==
    \E p \in References, rule \in Rules :
        p[1] = t /\ Request(j, "link", t, <<AddForeignKey([from |-> t, to |-> p[2], rule |-> rule])>>)

DropLink(j, t) == Request(j, "unlink", t, <<Sql("DROP FOREIGN KEYS", t)>>)

AddIndex(j, t) == Request(j, "index", t, <<Sql("CREATE UNIQUE INDEX", t)>>)

DropIndex(j, t) == Request(j, "unindex", t, <<Sql("DROP INDEX", t)>>)

SchemaStep(j) ==
    \/ Idle(j) /\ \E t \in Tables :
        \/ CreateNewTable(j, t) \/ AlterColumns(j, t) \/ DropTable(j, t) \/ TruncateTable(j, t)
        \/ AddLink(j, t) \/ DropLink(j, t) \/ AddIndex(j, t) \/ DropIndex(j, t)
    \/ FindKey(j)
    \/ FindIndex(j)
====
