---- MODULE MCProjectData ----
EXTENDS ProjectData

\* Two tables; the records of "cards" refer to those of "users".
MCTables == <<"cards", "users">>
MCReferences == {<<"cards", "users">>}
MCKinds == <<"validation_rules", "webhooks">>
MCArrayKinds == {"webhooks"}
MCIds == {1, 2}
MCUnsaved == {<<"users", "id">>} \* a serial column

Row(id, v) == [id |-> id, v |-> v, gone |-> FALSE]
Plain(cols, uniq, rows) ==
    [cols |-> cols, key |-> "id", uniq |-> uniq, trigger |-> TRUE, time |-> {}, rows |-> rows]
Link(rule) == [from |-> "cards", to |-> "users", rule |-> rule]

\* Changes of one table by the panel and the gateway.
SchemaScenario ==
    [db |-> [tab |-> "users" :> Plain(Base, TRUE, {Row(1, 1)}), fks |-> {},
             sys |-> {<<"webhooks", "users">>, <<"validation_rules", "users">>}],
     menu |-> {"create table", "alter", "drop table", "gateway"},
     calls |-> 3]

\* Tables made without a key or a trigger.
CreateScenario ==
    [db |-> [tab |-> "users" :> Plain(Base, FALSE, {}), fks |-> {}, sys |-> {}],
     menu |-> Creations \cup {"set key", "gateway"},
     calls |-> 2]

LinkScenario ==
    [db |-> [tab |-> [t \in {"cards", "users"} |-> Plain(Base, FALSE, {Row(1, 1)})],
             fks |-> {Link("RESTRICT")}, sys |-> {}],
     menu |-> {"truncate", "link", "unlink", "index", "unindex", "drop table", "set key", "gateway"},
     calls |-> 2]

\* A table of events, keyed by its time.
TimeScenario ==
    [db |-> [tab |-> "users" :> [Plain(Base, FALSE, {}) EXCEPT !.key = "v", !.time = {"hypertable"}],
             fks |-> {}, sys |-> {}],
     menu |-> {"hypertable", "compress", "retain", "aggregate", "plain aggregate", "remove compression",
               "remove retention", "remove refresh", "update policy", "drop aggregate",
               "drop hypertable", "gateway"},
     calls |-> 3]

\* Keys that come and go, of a table that may become a table of events meanwhile.
KeyScenario ==
    [db |-> [tab |-> "users" :> Plain(Base, FALSE, {Row(1, 1)}), fks |-> {}, sys |-> {}],
     menu |-> {"set key", "drop key", "hypertable", "drop table", "gateway"},
     calls |-> 3]

VersionScenario ==
    [db |-> [tab |-> "users" :> Plain(Base, FALSE, {Row(1, 1)}), fks |-> {}, sys |-> {}],
     menu |-> {"capture", "rollback", "alter", "drop table"},
     calls |-> 4]

\* Tables that come and go between versions.
RemakeScenario == [VersionScenario EXCEPT !.menu = @ \cup {"create table"}, !.calls = 3]

\* Columns that come and go with the key, and a return to what was before.
BaseScenario ==
    [db |-> [tab |-> "users" :> Plain(Base, FALSE, {Row(1, 1)}), fks |-> {}, sys |-> {}],
     menu |-> {"capture", "rollback", "alter base", "drop key"},
     calls |-> 3]

\* An archive, what happens after it, and its restore.
BackupScenario ==
    [db |-> [tab |-> [t \in {"cards", "users"} |-> Plain(Base, t = "users", {Row(1, 1)})],
             fks |-> {Link("CASCADE")},
             sys |-> {<<"webhooks", "users">>, <<"validation_rules", "users">>}],
     menu |-> {"export stream", "restore", "drop table", "purge", "link"},
     calls |-> 4]

\* The same of the documents that "export data" writes, with links that go as well.
DocumentScenario == [BackupScenario EXCEPT !.menu = @ \cup {"export data", "unlink"}, !.calls = 3]

\* An archive made while columns come and go.
ColumnScenario ==
    [db |-> [tab |-> "users" :> Plain(Base, FALSE, {Row(1, 1)}), fks |-> {}, sys |-> {}],
     menu |-> {"export stream", "restore", "alter", "delete"},
     calls |-> 4]

RuleScenario ==
    [db |-> [tab |-> "users" :> Plain(Base, FALSE, {Row(1, 1)}), fks |-> {}, sys |-> {}],
     menu |-> {"create", "update", "create rule", "delete rule"},
     calls |-> 3]

\* Bodies that leave out a column of a rule.
PartScenario ==
    [db |-> [tab |-> "users" :> Plain(Base, FALSE, {Row(1, 1)}), fks |-> {},
             sys |-> {<<"validation_rules", "users">>}],
     menu |-> {"create part", "update part", "create", "patch"},
     calls |-> 2]

RecordScenario ==
    [db |-> [tab |-> "users" :> Plain(Base \cup {"deleted_at"}, FALSE, {Row(1, 1)}), fks |-> {},
             sys |-> {<<"validation_rules", "users">>}],
     menu |-> {"bulk update", "delete", "bulk delete", "undelete", "purge", "import", "seed", "alter"},
     calls |-> 2]

BatchScenario == [RecordScenario EXCEPT !.menu = {"batch", "delete", "undelete", "purge"}]

MCScenarios == {SchemaScenario, CreateScenario, LinkScenario, TimeScenario, KeyScenario,
                VersionScenario, RemakeScenario, BaseScenario, BackupScenario, DocumentScenario,
                ColumnScenario, RuleScenario, PartScenario, RecordScenario, BatchScenario}

JobSymmetry == Permutations(Jobs)
====
