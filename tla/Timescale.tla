---- MODULE Timescale ----
(***************************************************************************)
(* TimescaleService: hypertables (over the column v), their policies and   *)
(* continuous aggregates (one for a table).  What takes two statements is  *)
(* done in a transaction where a policy is replaced, and not where one is  *)
(* first added.  Chunks and refreshes leave nothing the model holds.       *)
(***************************************************************************)
EXTENDS SchemaService

CreateHypertable(j, t) == Request(j, "hypertable", t, <<Timescale(t, {}, {}, {"hypertable"})>>)

\* The view, and its refresh policy when one is asked for.
AddContinuousAggregate(j, t) ==
    LET view == Timescale(t, {"hypertable"}, {}, {"view"})
        policy == Timescale(t, {"view"}, {}, {"refresh"})
    IN  \/ Request(j, "aggregate", t, <<view, policy>>)
        \/ Request(j, "plain aggregate", t, <<view>>)

AddCompressionPolicy(j, t) ==
    Request(j, "compress", t, <<Timescale(t, {"hypertable"}, {}, {"compression"}),
                                Timescale(t, {"compression"}, {}, {"compress"})>>)

AddRetentionPolicy(j, t) == Request(j, "retain", t, <<Timescale(t, {"hypertable"}, {}, {"retain"})>>)

\* The table of a policy, and what it must be.
On(policy) == IF policy = "refresh" THEN {"view"} ELSE {"hypertable"}
AddNew(t, policy) == Timescale(t, On(policy) \cup (IF policy = "compress" THEN {"compression"} ELSE {}),
                            {}, {policy})
RemoveOld(t, policy) == Timescale(t, On(policy), {policy}, {})

RemovePolicy(j, t) ==
    \/ Request(j, "remove retention", t, <<RemoveOld(t, "retain")>>)
    \/ Request(j, "remove compression", t, <<RemoveOld(t, "compress")>>)
    \/ Request(j, "remove refresh", t, <<RemoveOld(t, "refresh")>>)

UpdatePolicy(j, t) ==
    \E policy \in {"retain", "compress", "refresh"} :
        Request(j, "update policy", t, <<Transaction(<<RemoveOld(t, policy), AddNew(t, policy)>>)>>)

DropContinuousAggregate(j, t) == Request(j, "drop aggregate", t, <<Sql("DROP VIEW", t)>>)

\* The worker's rows about the table stay, unlike in DropTable.
DropHypertable(j, t) ==
    \E sql \in {"DROP TABLE", "DROP TABLE RESTRICT"} : Request(j, "drop hypertable", t, <<Sql(sql, t)>>)

AddTimescale(j, t) ==
    \/ CreateHypertable(j, t) \/ AddContinuousAggregate(j, t) \/ AddCompressionPolicy(j, t)
    \/ AddRetentionPolicy(j, t)

ChangeTimescale(j, t) ==
    RemovePolicy(j, t) \/ UpdatePolicy(j, t) \/ DropContinuousAggregate(j, t) \/ DropHypertable(j, t)

TimescaleStep(j) == Idle(j) /\ \E t \in Tables : AddTimescale(j, t) \/ ChangeTimescale(j, t)
====
