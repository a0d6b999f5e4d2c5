---- MODULE DataService ----
(***************************************************************************)
(* The panel's writes to the records of a table, and the validation rules  *)
(* (of type unique_combo) they are checked against.  The column v stands   *)
(* for the combination of a rule's columns, Null for one that lacks some.  *)
(* A check and the write it allows are separate statements; the rules of a *)
(* table are kept for 10 seconds and its columns for 5 minutes.            *)
(***************************************************************************)
EXTENDS ProjectDb

CONSTANT RuleKind \* the kind of the rows of validation_rules

ASSUME RuleAssumption == RuleKind \in Kinds

VARIABLES
    rulesCache, \* whether a table is ruled, as rulesCache has it
    colCache,   \* whether a table has deleted_at, as columnCache has it
    blame       \* history: tables whose wrong entry of rulesCache no forgotten invalidation explains

dataVars == <<dbVars, rulesCache, colCache, blame>>
caches == <<rulesCache, colCache>>

Rule(t) == <<RuleKind, t>>
Ruled(d, t) == Rule(t) \in d.sys

Validated == {"create", "update", "patch"}
Partial == {"create part", "update part"}
Unvalidated == {"bulk update", "import", "seed", "batch"}

Read(what, t) == [do |-> what, tab |-> t]
Find(t, id) == [do |-> "find", tab |-> t, id |-> id]
Check(t, except, v) == [do |-> "check", tab |-> t, except |-> except, v |-> v]
GetColumnsFor(t, ids) == [do |-> "get columns", tab |-> t, ids |-> ids]

----------------------------------------------------------------------------
\* validateRecord, then the write.  An update's own row is no duplicate of it.
CreateRecordSteps(t, r) == <<Read("get rules", t), Check(t, {}, r.v), Insert(t, {r}, Base)>>
UpdateSteps(t, id, v) == <<Read("get rules", t), Check(t, {id}, v), Update(t, {id}, v, TRUE)>>

\* Only the body is validated: a column it leaves out is looked for as a null, and the
\* record has the column's default, or what is stored.
PartSteps(t, except, write) == <<Read("get rules", t), Check(t, except, Null), write>>

CreatePart(j, t) ==
    \E id \in Ids, v \in Values :
        Begin(j, "create part", t,
              PartSteps(t, {}, Insert(t, {[id |-> id, v |-> v, gone |-> FALSE]}, Base)))

UpdatePart(j, t) ==
    \E id \in Ids, v \in Values :
        Begin(j, "update part", t, PartSteps(t, {id}, Update(t, {id}, v, TRUE)))

Create(j, t) ==
    \E id \in Ids, v \in Ids :
        LET r == [id |-> id, v |-> v, gone |-> FALSE] IN Begin(j, "create", t, CreateRecordSteps(t, r))

UpdateRecord(j, t) == \E id \in Ids, v \in Ids : Begin(j, "update", t, UpdateSteps(t, id, v))

UpdateField(j, t) ==
    \E id \in Ids, v \in Ids : Begin(j, "patch", t, <<Find(t, id)>> \o UpdateSteps(t, id, v))

BulkUpdate(j, t) ==
    \E ids \in SUBSET Ids \ {{}}, v \in Ids : Begin(j, "bulk update", t, <<Update(t, ids, v, FALSE)>>)

DeleteRecord(j, t) == \E id \in Ids : Begin(j, "delete", t, <<GetColumnsFor(t, {id})>>)

BulkDelete(j, t) ==
    \E ids \in SUBSET Ids \ {{}} :
        Begin(j, "bulk delete", t, <<GetColumnsFor(t, ids)>>)

Undelete(j, t) == \E id \in Ids : Begin(j, "undelete", t, <<SetDeleted(t, {id}, FALSE, TRUE)>>)

PermanentDelete(j, t) == \E id \in Ids : Begin(j, "purge", t, <<Delete(t, {id}, TRUE)>>)

\* Records without an id get a new one: the sets of rows have an id each.
NewRows == {{[id |-> id, v |-> f[id], gone |-> FALSE] : id \in DOMAIN f} :
               f \in UNION {[ids -> Ids] : ids \in SUBSET Ids \ {{}}}}

ImportRecords(j, t) == \E rows \in NewRows : Begin(j, "import", t, <<[do |-> "import", tab |-> t, rows |-> rows]>>)

Seed(j, t) == \E rows \in NewRows : Begin(j, "seed", t, <<[do |-> "seed", tab |-> t, rows |-> rows]>>)

BatchOps(t) == {Insert(t, rows, Base) : rows \in {rs \in NewRows : Cardinality(rs) = 1}}
               \cup {Update(t, {p[1]}, p[2], TRUE) : p \in Ids \X Ids}
               \cup {Delete(t, {id}, TRUE) : id \in Ids}

\* In one transaction, or one after the other with each failure in the results.
Batch(j, t) ==
    "batch" \in menu /\ \E a, b \in BatchOps(t) :
        \/ Begin(j, "batch", t, <<Transaction(<<a, b>>)>>)
        \/ Begin(j, "batch", t, <<Soft(a), Soft(b)>>)

CreateRule(j, t) == Begin(j, "create rule", t, <<InsertSystem({Rule(t)}), Read("forget rules", t)>>)

DeleteRule(j, t) == Begin(j, "delete rule", t, <<Read("find rule", t)>>)

DataRequest(j) ==
    Idle(j) /\ \E t \in Tables :
        \/ Create(j, t) \/ UpdateRecord(j, t) \/ UpdateField(j, t) \/ BulkUpdate(j, t)
        \/ CreatePart(j, t) \/ UpdatePart(j, t)
        \/ DeleteRecord(j, t) \/ BulkDelete(j, t) \/ Undelete(j, t) \/ PermanentDelete(j, t)
        \/ ImportRecords(j, t) \/ Seed(j, t) \/ Batch(j, t) \/ CreateRule(j, t) \/ DeleteRule(j, t)

----------------------------------------------------------------------------
RowIds(t) == IF t \in DOMAIN db.tab /\ "id" \in db.tab[t].cols THEN {r.id : r \in db.tab[t].rows} ELSE {}

\* findById, and the look at the record before it is deleted.
FindRecord(j) ==
    LET s == Head(jobs[j].todo) IN
    /\ At(j, "find")
    /\ IF s.id \in RowIds(s.tab) THEN Learn(j, <<>>, jobs[j].seen) ELSE Refuse(j)
    /\ UNCHANGED caches

Pending(t) == \E k \in Jobs : At(k, "forget rules") /\ Head(jobs[k].todo).tab = t

\* getCachedRules: from the cache, or from the table, and then into the cache.
GetRules(j) ==
    LET t == Head(jobs[j].todo).tab
    IN  /\ At(j, "get rules")
        /\ IF rulesCache[t] # "none"
           THEN Learn(j, <<>>, [jobs[j].seen EXCEPT !.ruled = rulesCache[t] = "ruled",
                                                    !.excused = t \in blame \/ Pending(t)])
           ELSE Learn(j, <<Read("keep rules", t)>>, [jobs[j].seen EXCEPT !.ruled = Ruled(db, t)])
        /\ UNCHANGED caches

KeepRules(j) ==
    LET t == Head(jobs[j].todo).tab IN
    /\ At(j, "keep rules")
    /\ rulesCache' = [rulesCache EXCEPT ![t] = IF jobs[j].seen.ruled THEN "ruled" ELSE "free"]
    /\ Learn(j, <<>>, jobs[j].seen)
    /\ UNCHANGED colCache

\* Mutant: the rules are kept as they were.
ForgetNothing(j) ==
    /\ At(j, "forget rules")
    /\ Learn(j, <<>>, jobs[j].seen)
    /\ UNCHANGED caches

\* invalidateRulesCache
ForgetRules(j) ==
    LET t == Head(jobs[j].todo).tab IN
    /\ At(j, "forget rules")
    /\ rulesCache' = [rulesCache EXCEPT ![t] = "none"]
    /\ Learn(j, <<>>, jobs[j].seen)
    /\ UNCHANGED colCache

\* The rule's SELECT sees deleted records too.  When it fails, the record passes.
CheckRecord(j) ==
    LET s == Head(jobs[j].todo)
        named == {"v"} \cup (IF s.except = {} THEN {} ELSE {"id"})
        checked == s.tab \in DOMAIN db.tab /\ named \subseteq db.tab[s.tab].cols
        found == checked /\ \E r \in db.tab[s.tab].rows : r.v = s.v /\ r.id \notin s.except
        pass == Learn(j, <<>>, [jobs[j].seen EXCEPT !.excused = @ \/ (jobs[j].seen.ruled /\ ~checked)])
    IN  /\ At(j, "check")
        /\ \/ IF jobs[j].seen.ruled /\ found THEN Refuse(j) ELSE pass
           \/ /\ jobs[j].seen.ruled
              /\ faults > 0
              /\ faults' = faults - 1
              /\ Go(j, Tail(jobs[j].todo), [jobs[j].seen EXCEPT !.excused = TRUE], db, {})
              /\ UNCHANGED <<menu, calls>>
        /\ UNCHANGED caches

\* With deleted_at a record is marked, otherwise it goes; delete() looks for it first.
Removal(job, soft) ==
    LET s == Head(job.todo)  one == job.op = "delete" IN
    IF soft THEN <<SetDeleted(s.tab, s.ids, TRUE, one)>>
    ELSE (IF one THEN <<Find(s.tab, CHOOSE id \in s.ids : TRUE)>> ELSE <<>>)
             \o <<Delete(s.tab, s.ids, FALSE)>>

\* getColumns
GetColumns(j) ==
    LET t == Head(jobs[j].todo).tab
        soft == t \in DOMAIN db.tab /\ "deleted_at" \in db.tab[t].cols
    IN  /\ At(j, "get columns")
        /\ IF colCache[t] # "none"
           THEN Learn(j, Removal(jobs[j], colCache[t] = "soft"), jobs[j].seen)
           ELSE Learn(j, <<Read("keep columns", t)>> \o Removal(jobs[j], soft),
                      [jobs[j].seen EXCEPT !.soft = soft])
        /\ UNCHANGED caches

KeepColumns(j) ==
    LET t == Head(jobs[j].todo).tab IN
    /\ At(j, "keep columns")
    /\ colCache' = [colCache EXCEPT ![t] = IF jobs[j].seen.soft THEN "soft" ELSE "hard"]
    /\ Learn(j, <<>>, jobs[j].seen)
    /\ UNCHANGED rulesCache

\* A batch of records at once; when that fails, each of them on its own.
ImportBatch(j) ==
    LET s == Head(jobs[j].todo)
        all == Insert(s.tab, s.rows, Base)
        each == LET rs == SetToSeq(s.rows) IN [i \in DOMAIN rs |-> Soft(Insert(s.tab, {rs[i]}, Base))]
    IN  /\ At(j, "import")
        /\ \/ /\ \E e \in After(db, all) : Go(j, Tail(jobs[j].todo), jobs[j].seen, e, {})
              /\ UNCHANGED <<menu, calls, faults>>
           \/ Learn(j, each, jobs[j].seen) /\ After(db, all) = {}
           \/ /\ faults > 0
              /\ faults' = faults - 1
              /\ Go(j, each \o Tail(jobs[j].todo), jobs[j].seen, db, {})
              /\ UNCHANGED <<menu, calls>>
        /\ UNCHANGED caches

\* Generated values for the column v, when the table has it; otherwise nothing is inserted.
SeedRows(j) ==
    LET s == Head(jobs[j].todo)
        mapped == s.tab \in DOMAIN db.tab /\ "v" \in db.tab[s.tab].cols
    IN  /\ At(j, "seed")
        /\ Learn(j, (IF mapped THEN <<Insert(s.tab, s.rows, {"v"})>> ELSE <<>>), jobs[j].seen)
        /\ UNCHANGED caches

FindRule(j) ==
    LET t == Head(jobs[j].todo).tab IN
    /\ At(j, "find rule")
    /\ IF Ruled(db, t)
       THEN Learn(j, <<DeleteSystem(RuleKind, {Rule(t)}, FALSE), Read("forget rules", t)>>, jobs[j].seen)
       ELSE Refuse(j)
    /\ UNCHANGED caches

\* An entry outlives its 10 seconds, or 5 minutes.
Expire ==
    /\ \E t \in Tables :
        \/ rulesCache[t] # "none" /\ rulesCache' = [rulesCache EXCEPT ![t] = "none"] /\ UNCHANGED colCache
        \/ colCache[t] # "none" /\ colCache' = [colCache EXCEPT ![t] = "none"] /\ UNCHANGED rulesCache
    /\ UNCHANGED dbVars

Lookup(j) ==
    \/ FindRecord(j) \/ GetRules(j) \/ KeepRules(j) \/ ForgetRules(j) \/ CheckRecord(j)
    \/ GetColumns(j) \/ KeepColumns(j) \/ ImportBatch(j) \/ SeedRows(j) \/ FindRule(j)

----------------------------------------------------------------------------
\* History: a table is blamed while the wrong entry about it came from a late fill, or
\* from rules that a restore or the dropping of the table changed.
Wrong(d, cache, t) == cache[t] # "none" /\ cache[t] # (IF Ruled(d, t) THEN "ruled" ELSE "free")

RuleWritten(t) ==
    \E j \in Jobs :
        /\ Statement(j) /\ jobs[j].op \in {"create rule", "delete rule"} /\ jobs[j].tab = t
        /\ jobs'[j] # NoJob /\ jobs'[j].todo # jobs[j].todo

Blame ==
    blame' = {t \in Tables :
                 /\ Wrong(db', rulesCache', t)
                 /\ \/ t \in blame
                    \/ ~Wrong(db, rulesCache, t) /\ ~RuleWritten(t)}

Doubled(d, t) ==
    t \in DOMAIN d.tab /\ "v" \in d.tab[t].cols
        /\ \E r, q \in d.tab[t].rows : r # q /\ r.v = q.v /\ r.v # Null

\* Two records of a table share what a rule says is unique only when they did so before
\* the rule came, when an operation that asks no rule wrote them, when a body that leaves
\* out a column of the rule was checked without it, or when the create or
\* update that did met another change of the records or the rules after it began, was not
\* checked because the check itself failed, found a wrong entry in rulesCache that no
\* forgotten invalidation explains, or wrote a table that had two records of one id.
UniqueRuleExplained ==
    [][\A t \in Tables :
        Ruled(db, t) /\ Ruled(db', t) /\ ~Doubled(db, t) /\ Doubled(db', t) =>
            \E j \in Jobs :
                /\ jobs[j] # NoJob
                /\ jobs'[j] = NoJob \/ jobs'[j].todo # jobs[j].todo
                /\ \/ jobs[j].op \in Unvalidated \cup Partial \cup {"restore"}
                   \/ /\ jobs[j].op \in Validated
                      /\ \/ jobs[j].seen.excused \/ jobs[j].met \cap {"rows", "rules"} # {}
                         \/ ~Unique(db.tab[t].rows, "id")
       ]_dataVars
====
