---- MODULE Backups ----
(***************************************************************************)
(* The backup routes: the export of a project as a stream of events or as  *)
(* one document, and its restore.  An export is a series of reads with no  *)
(* transaction around them; a restore writes in one transaction, but reads *)
(* the names of the tables first.  The control plane keeps the archive.    *)
(***************************************************************************)
EXTENDS ProjectDb

CONSTANT NoArchive

VARIABLE archive \* the archive the control plane holds

backupVars == <<dbVars, archive>>

Exports == {"export stream", "export data"}

OfKind(of, kind) == {x \in of : x[1] = kind}

----------------------------------------------------------------------------
\* GET export-stream, GET export-data.
Export(j) ==
    /\ \E op \in Exports : Begin(j, op, TableOrder[1], <<[do |-> "list tables"]>>)
    /\ UNCHANGED archive

\* The stream reads the columns of all the tables before any row, the document reads the
\* rows of each table before its columns.
ListToExport(j) ==
    LET rows == Loop("export rows", DOMAIN db.tab)
        links == <<[do |-> "export links"]>>
        reads == IF jobs[j].op = "export stream"
                 THEN Loop("export columns", DOMAIN db.tab) \o links \o rows
                 ELSE rows \o links
    IN  /\ At(j, "list tables")
        /\ jobs[j].op \in Exports
        /\ Learn(j, reads \o [i \in DOMAIN SysOrder |-> [do |-> "export system", kind |-> SysOrder[i]]]
                        \o <<[do |-> "end"]>>, jobs[j].seen)
        /\ UNCHANGED archive

ExportColumns(j) ==
    LET names == Head(jobs[j].todo).of  t == First(names) IN
    /\ At(j, "export columns")
    /\ Learn(j, Loop("export columns", names \ {t}),
             [jobs[j].seen EXCEPT !.schema =
                 Put(@, t, IF t \in DOMAIN db.tab THEN db.tab[t].cols ELSE {})])
    /\ UNCHANGED archive

\* Indexes, foreign keys and checks.  Primary keys are in neither query: the one leaves out
\* the indexes named _pkey, the other the constraints of type p.
ExportLinks(j) ==
    /\ At(j, "export links")
    /\ Learn(j, <<>>, [jobs[j].seen EXCEPT !.links = db.fks,
                                           !.uniq = {t \in DOMAIN db.tab : db.tab[t].uniq}])
    /\ UNCHANGED archive

\* What an export has written: sealed when its end event was, broken by an error event.
\* History: the database it was made of, none when that changed or a part was left out.
Written(j, sealed, broken) ==
    LET seen == jobs[j].seen
        torn == ~sealed \/ jobs[j].met # {} \/ seen.excused
    IN  [schema |-> seen.schema, rows |-> seen.rows, links |-> seen.links, uniq |-> seen.uniq,
         sys |-> seen.sys, sealed |-> sealed, broken |-> broken, of |-> IF torn THEN {} ELSE {db}]

\* The loop over the tables names after the rows of t: the document reads t's columns next.
AfterRows(j, t, names) ==
    (IF jobs[j].op = "export data" THEN Loop("export columns", {t}) ELSE <<>>)
        \o Loop("export rows", names \ {t})

\* Mutant: the rows of a table are those of a page.
ExportSomeRows(j) ==
    LET names == Head(jobs[j].todo).of  t == First(names) IN
    /\ At(j, "export rows")
    /\ t \in DOMAIN db.tab
    /\ \E rs \in SUBSET db.tab[t].rows :
        Learn(j, AfterRows(j, t, names),
              [jobs[j].seen EXCEPT !.rows = Put(@, t, [of |-> rs, cols |-> db.tab[t].cols])])
    /\ UNCHANGED archive

\* Each row comes with the columns the table has now.
ExportRows(j) ==
    LET names == Head(jobs[j].todo).of  t == First(names) IN
    /\ At(j, "export rows")
    /\ t \in DOMAIN db.tab
    /\ Learn(j, AfterRows(j, t, names),
             [jobs[j].seen EXCEPT !.rows = Put(@, t, [of |-> db.tab[t].rows, cols |-> db.tab[t].cols])])
    /\ UNCHANGED archive

\* The table is gone: the document is not sent, the stream ends with an error event.
ExportRowsFails(j) ==
    /\ At(j, "export rows")
    /\ First(Head(jobs[j].todo).of) \notin DOMAIN db.tab
    /\ Refuse(j)
    /\ archive' = IF jobs[j].op = "export stream" THEN Written(j, FALSE, TRUE) ELSE archive

\* A system table that cannot be read is left out, and nothing in the archive says so.
ExportSystem(j) ==
    LET s == Head(jobs[j].todo)  seen == jobs[j].seen IN
    /\ At(j, "export system")
    /\ \/ Learn(j, <<>>, [seen EXCEPT !.sys = @ \cup OfKind(db.sys, s.kind)])
       \/ /\ faults > 0
          /\ faults' = faults - 1
          /\ Go(j, Tail(jobs[j].todo), [seen EXCEPT !.excused = TRUE], db, {})
          /\ UNCHANGED <<menu, calls>>
    /\ UNCHANGED archive

EndExport(j) ==
    /\ At(j, "end")
    /\ archive' = Written(j, TRUE, FALSE)
    /\ End(j, "ok", db, {})
    /\ UNCHANGED <<menu, calls, faults>>

\* The connection is cut while rows are sent: the archive stops in the middle.
CutExport(j) ==
    /\ At(j, "export rows")
    /\ jobs[j].op = "export stream"
    /\ faults > 0
    /\ faults' = faults - 1
    /\ End(j, "error", db, {})
    /\ archive' = Written(j, FALSE, FALSE)
    /\ UNCHANGED <<menu, calls>>

----------------------------------------------------------------------------
\* POST restore-stream and POST restore-data.
Restore(j) ==
    /\ archive # NoArchive
    /\ \E form \in {"stream", "data"} :
        /\ form = "data" => archive.sealed
        /\ Begin(j, "restore", TableOrder[1],
                 <<[do |-> "existing tables", form |-> form, from |-> archive]>>)
    /\ UNCHANGED archive

\* Foreign keys of the tables that had some when the archive a was made.
DropLinks(a, existing) ==
    ForTables({f.from : f \in a.links} \cap existing \cap DOMAIN a.schema,
              LAMBDA t : <<Sql("DROP FOREIGN KEYS", t)>>)

Prepare(a, t, existing) ==
    IF t \in existing THEN <<Sql("DELETE ALL", t)>>
    ELSE IF a.schema[t] = {} THEN <<>> ELSE <<CreateTable(t, a.schema[t], "none")>>

Fill(a, t) ==
    IF t \in DOMAIN a.rows /\ a.rows[t].of # {} THEN <<Insert(t, a.rows[t].of, a.rows[t].cols)>> ELSE <<>>

\* Each in a savepoint: what cannot be built again is left out.
Rebuild(a) ==
    LET links == SetToSeq(a.links) IN
    ForTables(a.uniq, LAMBDA t : <<Soft(Sql("CREATE UNIQUE INDEX", t))>>)
        \o [i \in DOMAIN links |-> Soft(AddForeignKey(links[i]))]

EmptySystem == [i \in DOMAIN SysOrder |-> Soft(DeleteSystem(SysOrder[i], {SysOrder[i]} \X Tables, FALSE))]

\* The stream's body: the meta event empties every table, then the rows come, then the end.
StreamBody(a, existing) ==
    DropLinks(a, existing) \o EmptySystem
        \o ForTables(DOMAIN a.schema, LAMBDA t : Prepare(a, t, existing))
        \o ForTables(DOMAIN a.schema, LAMBDA t : Fill(a, t))
        \o <<InsertSystem(a.sys)>> \o Rebuild(a)

\* The document's body: each table is emptied and filled before the next one, and one that
\* has to be made but has no columns is passed over with its rows.
DataBody(a, existing) ==
    DropLinks(a, existing)
        \o ForTables({t \in DOMAIN a.schema : t \in existing \/ a.schema[t] # {}},
                     LAMBDA t : Prepare(a, t, existing) \o Fill(a, t))
        \o Rebuild(a)
        \o InOrder(SysOrder, {x[1] : x \in a.sys}, LAMBDA k : <<ReplaceSystem(k, OfKind(a.sys, k))>>)

\* An archive with an error event is refused; one that merely stops is restored.
ReadExisting(j) ==
    LET s == Head(jobs[j].todo)
        body == IF s.form = "stream" THEN StreamBody(s.from, DOMAIN db.tab)
                ELSE DataBody(s.from, DOMAIN db.tab)
    IN  /\ At(j, "existing tables")
        /\ IF s.from.broken THEN Refuse(j)
           ELSE Learn(j, <<[sql |-> "TRANSACTION", soft |-> FALSE, body |-> body, form |-> s.form,
                           from |-> s.from]>>, jobs[j].seen)
        /\ UNCHANGED archive

BackupStep(j) ==
    \/ Export(j) \/ ListToExport(j) \/ ExportColumns(j) \/ ExportLinks(j) \/ ExportRows(j)
    \/ ExportRowsFails(j) \/ ExportSystem(j) \/ EndExport(j) \/ CutExport(j)
    \/ Restore(j) \/ ReadExisting(j)

----------------------------------------------------------------------------
\* A restore that answers success, of an archive of one consistent database and while
\* nobody else worked on the project, brings every table of the archive that is still there
\* with the same columns and its key back to the rows it had; foreign keys, unique indexes
\* and the worker's rows come back with them.  The document's form must be spared a foreign
\* key made since that cascades or sets null, which undoes what it has filled; it keeps the
\* rows of a kind the archive has none of, and cannot replace those with arrays.
RestoreFaithful ==
    [][\A j \in Jobs :
        (/\ Statement(j) /\ Head(jobs[j].todo).sql = "TRANSACTION" /\ jobs[j].op = "restore"
         /\ jobs'[j] = NoJob /\ answer'[j] = "ok" /\ jobs[j].met = {})
        => LET s == Head(jobs[j].todo) IN
           \A of \in s.from.of :
               (/\ \A t \in DOMAIN of.tab :
                    t \in DOMAIN db.tab /\ db.tab[t].cols = of.tab[t].cols /\ db.tab[t].key = "id"
                /\ s.form = "data" => \A f \in db.fks \ of.fks : f.rule = "RESTRICT")
               => /\ \A t \in DOMAIN of.tab :
                      db'.tab[t].rows = of.tab[t].rows /\ (of.tab[t].uniq => db'.tab[t].uniq)
                  /\ of.fks \subseteq db'.fks
                  /\ \A k \in Kinds :
                      (s.form = "stream" \/ (OfKind(of.sys, k) # {} /\ k \notin ArrayKinds))
                      => OfKind(db'.sys, k) = OfKind(of.sys, k)
       ]_backupVars
====
