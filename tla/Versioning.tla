---- MODULE Versioning ----
(***************************************************************************)
(* VersioningService: recorded versions of a project's schema, and the     *)
(* return to one of them.  A version holds the columns of every table, and *)
(* what changed since the version before it; keys, triggers, foreign keys  *)
(* and rows are not recorded.                                              *)
(***************************************************************************)
EXTENDS ProjectDb

CONSTANT Unsaved \* the pairs of a table and a column whose record PostgreSQL does not take back:
                 \* its type reads ARRAY, or its default is of a sequence gone with the column

ASSUME UnsavedAssumption == Unsaved \subseteq Tables \X Columns

VARIABLE versions \* schema_versions, in the order of their insertion

versionVars == <<dbVars, versions>>

Do(what) == [do |-> what]

----------------------------------------------------------------------------
CaptureVersion(j) ==
    /\ Begin(j, "capture", TableOrder[1], <<Do("list tables"), Do("last version"), Do("insert version")>>)
    /\ UNCHANGED versions

RollbackTo(j) ==
    /\ \E i \in DOMAIN versions :
        Begin(j, "rollback", TableOrder[1],
              <<Do("list tables"), [do |-> "plan rollback", to |-> versions[i].schema]>>)
    /\ UNCHANGED versions

\* getSchemaSnapshot: the names first, then the columns of one table after the other.
ListTables(j) ==
    /\ At(j, "list tables")
    /\ jobs[j].op \in {"capture", "rollback"}
    /\ Learn(j, Loop("read columns", DOMAIN db.tab), jobs[j].seen)
    /\ UNCHANGED versions

\* A table dropped since is kept with no columns at all.
ReadColumns(j) ==
    LET names == Head(jobs[j].todo).of  t == First(names) IN
    /\ At(j, "read columns")
    /\ Learn(j, Loop("read columns", names \ {t}),
             [jobs[j].seen EXCEPT !.schema =
                 Put(@, t, IF t \in DOMAIN db.tab THEN db.tab[t].cols ELSE {})])
    /\ UNCHANGED versions

\* The columns that tables of both schemas have in curr and lack in prev.
Gained(prev, curr) == UNION {{t} \X (curr[t] \ prev[t]) : t \in DOMAIN curr \cap DOMAIN prev}

\* Mutant: columns that are gone are not compared.
DiffOfAdditions(prev, curr) ==
    [added |-> DOMAIN curr \ DOMAIN prev, removed |-> DOMAIN prev \ DOMAIN curr,
     gained |-> Gained(prev, curr), lost |-> {}]

\* computeDiff.  Types and defaults are not modelled, so no column is "modified".
ComputeDiff(prev, curr) ==
    [added |-> DOMAIN curr \ DOMAIN prev, removed |-> DOMAIN prev \ DOMAIN curr,
     gained |-> Gained(prev, curr), lost |-> Gained(curr, prev)]

\* The version with the greatest number: any of them, when two have it.
ReadLastVersion(j) ==
    /\ At(j, "last version")
    /\ \E i \in 0 .. Len(versions) :
        /\ i = 0 <=> versions = <<>>
        /\ \A k \in DOMAIN versions : versions[k].number <= versions[i].number
        /\ Learn(j, <<>>, [jobs[j].seen EXCEPT
                              !.number = IF i = 0 THEN 0 ELSE versions[i].number,
                              !.prior = IF i = 0 THEN <<>> ELSE versions[i].schema])
    /\ UNCHANGED versions

\* Mutant: the number is that of the version after the next.
InsertSkipping(j) ==
    LET seen == jobs[j].seen IN
    /\ At(j, "insert version")
    /\ versions' = Append(versions, [number |-> seen.number + 2, schema |-> seen.schema,
                                     diff |-> ComputeDiff(seen.prior, seen.schema)])
    /\ Go(j, Tail(jobs[j].todo), seen, db, {"versions"})
    /\ UNCHANGED <<menu, calls, faults>>

InsertVersion(j) ==
    LET seen == jobs[j].seen IN
    /\ At(j, "insert version")
    /\ versions' = Append(versions, [number |-> seen.number + 1, schema |-> seen.schema,
                                     diff |-> ComputeDiff(seen.prior, seen.schema)])
    /\ Go(j, Tail(jobs[j].todo), seen, db, {"versions"})
    /\ UNCHANGED <<menu, calls, faults>>

----------------------------------------------------------------------------
\* The columns of a table, in their order.
ForColumns(S, Steps(_)) == InOrder(<<"id", "v", "deleted_at", "req">>, S, Steps)

\* The statements that make a table or a column as it is recorded.
Recreate(t, cols) ==
    IF \E c \in cols : <<t, c>> \in Unsaved THEN Sql("CREATE AS RECORDED", t) ELSE CreateTable(t, cols, "none")
Readd(t, c) == IF <<t, c>> \in Unsaved THEN Sql("ADD AS RECORDED", t) ELSE AddColumn(t, c)

\* Mutant: the columns that the version lacks stay.
PlanWithoutDrops(have, want) ==
    ForTables(DOMAIN have \ DOMAIN want, LAMBDA t : <<Sql("DROP TABLE", t)>>)
        \o ForTables(DOMAIN want \ DOMAIN have, LAMBDA t : <<Recreate(t, want[t])>>)
        \o ForTables(DOMAIN have \cap DOMAIN want, LAMBDA t :
               ForColumns(want[t] \ have[t], LAMBDA c : <<Soft(Readd(t, c))>>))

\* Tables the version lacks are dropped, its missing ones created, then the columns of
\* the others brought in line; a column that cannot be added is passed over.
Plan(have, want) ==
    ForTables(DOMAIN have \ DOMAIN want, LAMBDA t : <<Sql("DROP TABLE", t)>>)
        \o ForTables(DOMAIN want \ DOMAIN have, LAMBDA t : <<Recreate(t, want[t])>>)
        \o ForTables(DOMAIN have \cap DOMAIN want, LAMBDA t :
               ForColumns(have[t] \ want[t], LAMBDA c : <<DropColumn(t, c)>>)
                   \o ForColumns(want[t] \ have[t], LAMBDA c : <<Soft(Readd(t, c))>>))

PlanRollback(j) ==
    /\ At(j, "plan rollback")
    /\ LET want == Head(jobs[j].todo).to IN
       Learn(j, Plan(jobs[j].seen.schema, want), [jobs[j].seen EXCEPT !.prior = want])
    /\ UNCHANGED versions

VersionStep(j) ==
    \/ CaptureVersion(j) \/ RollbackTo(j) \/ ListTables(j) \/ ReadColumns(j)
    \/ ReadLastVersion(j) \/ InsertVersion(j) \/ PlanRollback(j)

----------------------------------------------------------------------------
\* Job j inserts a version.
Inserts(j) ==
    versions' # versions /\ jobs[j] # NoJob /\ At(j, "insert version") /\ jobs'[j] = NoJob

\* The version inserted last, by job j, is the newest, holds the schema as it is, and
\* leads from a version of the number before to its schema.
RightVersion(j) ==
    LET v == Last(versions') IN
    /\ "schema" \notin jobs[j].met => v.schema = ColumnsOf(db)
    /\ "versions" \notin jobs[j].met => \A i \in DOMAIN versions : versions[i].number < v.number
    /\ v.number > 1 => \E i \in DOMAIN versions :
        LET w == versions[i] IN
        /\ w.number = v.number - 1
        /\ DOMAIN v.schema = (DOMAIN w.schema \ v.diff.removed) \cup v.diff.added
        /\ \A t \in DOMAIN v.schema \cap DOMAIN w.schema :
            v.schema[t] = (w.schema[t] \ {c \in w.schema[t] : <<t, c>> \in v.diff.lost})
                              \cup {c \in Columns : <<t, c>> \in v.diff.gained}

\* The number of a version, its schema and its recorded difference agree with the
\* history of the project: a version inserted by a capture that saw no other version
\* and no change of the schema meanwhile is the newest and holds the schema as it is,
\* and every difference leads from a version of the number before to its schema.
VersionsExplained == [][\A j \in Jobs : Inserts(j) => RightVersion(j)]_versionVars

\* Job j, a rollback, answers success: nobody else changed the schema and no failure was
\* swallowed.
RollsBack(j) ==
    /\ jobs[j] # NoJob /\ jobs[j].op = "rollback" /\ "schema" \notin jobs[j].met
    /\ jobs'[j] = NoJob /\ answer'[j] = "ok"
    /\ ~jobs[j].seen.excused /\ faults' = faults

\* The tables and their columns are those of the version job j returns to.
BroughtBack(j) ==
    LET want == IF At(j, "plan rollback") THEN Head(jobs[j].todo).to ELSE jobs[j].seen.prior IN
    /\ DOMAIN db'.tab = DOMAIN want
    /\ \A t \in DOMAIN want :
        \/ db'.tab[t].cols = want[t]
        \/ /\ db'.tab[t].cols \subseteq want[t]
           /\ \A c \in want[t] \ db'.tab[t].cols :
               \/ <<t, c>> \in Unsaved
               \/ c \in Required /\ (db'.tab[t].rows # {} \/ "rows" \in jobs[j].met)

\* A rollback that answers success, while nobody else changed the schema and no failure
\* was swallowed, has brought back the tables and the columns of its version, except
\* required columns that it could not give to a table with rows, and columns whose record
\* PostgreSQL does not take back: it answers success without them, as it passes over refusals.
RollbackExplained == [][\A j \in Jobs : RollsBack(j) => BroughtBack(j)]_versionVars
====
