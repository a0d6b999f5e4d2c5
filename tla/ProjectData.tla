---- MODULE ProjectData ----
(***************************************************************************)
(* The services that change one project's schema and records, together:    *)
(* each of Jobs is a request of the panel, the AI gateway or the control   *)
(* plane, and any two of them interleave statement by statement.           *)
(***************************************************************************)
EXTENDS Timescale, Versioning, Backups, DataService

vars == <<dbVars, versions, archive, rulesCache, colCache, blame>>

Init ==
    /\ DbInit
    /\ versions = <<>>
    /\ archive = NoArchive
    /\ rulesCache = [t \in Tables |-> "none"]
    /\ colCache = [t \in Tables |-> "none"]
    /\ blame = {}

\* The worker's memory is lost with it.
Restart ==
    /\ Stop
    /\ rulesCache' = [t \in Tables |-> "none"]
    /\ colCache' = [t \in Tables |-> "none"]
    /\ UNCHANGED <<versions, archive>>

Step ==
    \/ \E j \in Jobs :
        \/ (DbStep(j) \/ SchemaStep(j) \/ TimescaleStep(j) \/ DataRequest(j)) /\ UNCHANGED <<versions, archive, caches>>
        \/ VersionStep(j) /\ UNCHANGED <<archive, caches>>
        \/ BackupStep(j) /\ UNCHANGED <<versions, caches>>
        \/ Lookup(j) /\ UNCHANGED <<versions, archive>>
    \/ Expire /\ UNCHANGED <<versions, archive>>
    \/ Restart

Next == Step /\ Blame

Spec == Init /\ [][Next]_vars

----------------------------------------------------------------------------
\* The database is one PostgreSQL accepts, keys and indexes are on columns of their tables, only tables
\* with deleted_at have marked records, every request has something left to do, and the
\* number of a version is at most the count of the versions up to it.
DbTypeOK ==
    /\ Database(db)
    /\ \A j \in Jobs : answer[j] \in Answers /\ (jobs[j] # NoJob => jobs[j].todo # <<>>)
    /\ \A i \in DOMAIN versions : versions[i].number \in 1 .. i
    /\ \A t \in Tables : rulesCache[t] \in {"none", "ruled", "free"} /\ colCache[t] \in {"none", "soft", "hard"}

\* A table that no request works on is without a key only when it was created so, after the
\* key or a column of it was dropped, a set_primary_key answered with an error, a rollback, or
\* a restore that made it anew; it has no updated_at trigger only when it was created so, its
\* creation was answered with an error, or a rollback or a restore made it; compression
\* without a policy and an aggregate without a refresh were asked for, or left by an addition
\* answered with an error, never by a policy's update.
TableWholeExplained ==
    \A t \in DOMAIN db.tab :
        (\A j \in Jobs : jobs[j] # NoJob => ~Works(jobs[j], t)) =>
            LET T == db.tab[t]
                after(ops, errors) == \E x \in told[t] :
                    x[1] \in ops \/ x = <<"restore", "ok">> \/ (x[1] \in errors /\ x[2] = "error")
            IN  /\ T.key = "none" =>
                    after({"rollback", "create without key", "create bare", "drop key", "alter base"},
                          {"set key"})
                /\ ~T.trigger =>
                    after({"rollback", "create without trigger", "create bare"},
                          {"create table", "create without key"})
                /\ "compression" \in T.time /\ "compress" \notin T.time =>
                    after({"remove compression"}, {"compress"})
                /\ "view" \in T.time /\ "refresh" \notin T.time =>
                    after({"plain aggregate", "remove refresh"}, {"aggregate"})
====
