---- MODULE DynamicApi_proofs ----
(***************************************************************************)
(* Proofs about DynamicApi for any number of projects, requests and rows.  *)
(* TypeInv is the type invariant strengthened with what each phase of a    *)
(* handler has established; the other theorems add one inductive invariant *)
(* each on top of it.                                                      *)
(***************************************************************************)
EXTENDS DynamicApi, TLAPS

Announcing == {"create", "create_many", "update", "delete"}

\* What the handler of r has established when it is suspended at pc[r].
PhaseOf(r) ==
    /\ pc[r] \in {"admitting", "resolving"} => req[r].exec = "api"
    /\ pc[r] = "deleting" => req[r].op = "delete" /\ row[r] \in Ids
    /\ pc[r] = "batch" => req[r].op = "create_many"
    /\ pc[r] = "returned" => req[r].op \in Announcing /\ row[r] \in Ids
    /\ pending[r] # {} => req[r].op = "create_many" /\ pc[r] \in {"batch", "returned"}

TypeInv == TypeOK /\ \A r \in Requests : PhaseOf(r)

\* The events of an operation that announces are among the three kinds.
LEMMA EventOfType ==
    ASSUME NEW o \in Announcing
    PROVE  EventOf[o] \in {"INSERT", "UPDATE", "DELETE"}
BY DEF EventOf, Announcing

\* A write of an announcing request has the type of the elements of wrote.
LEMMA WriteType ==
    ASSUME TypeOK, NEW r \in Requests, req[r].op \in Announcing, NEW id \in Ids
    PROVE  Write(r, id) \in [by : Requests, id : Ids, event : {"INSERT", "UPDATE", "DELETE"}]
BY EventOfType DEF Write

\* One step of any handler keeps TypeInv.
LEMMA HandleKeepsTypeInv ==
    ASSUME TypeInv, NEW r \in Requests, Arrive(r) \/ Handle(r)
    PROVE  TypeInv'
<1> USE DEF TypeInv, TypeOK, PhaseOf, States, Finish, Return, Executing, dbVars, Rows, Fresh
<1>0. req[r].project \in Projects /\ req[r].op \in Ops /\ req[r].exec \in Executors
    BY DEF TypeInv
<1>1. CASE Arrive(r)
    BY <1>1, <1>0 DEF Arrive, Executors
<1>2. CASE RefuseEarly(r)
    BY <1>2 DEF RefuseEarly
<1>3. CASE SetMutationHook(r)
    BY <1>3, <1>0 DEF SetMutationHook
<1>4. CASE RefuseLate(r)
    BY <1>4 DEF RefuseLate
<1>5. CASE Dispatch(r)
    BY <1>5 DEF Dispatch
<1>6. CASE Find(r)
    BY <1>6 DEF Find
<1>7. CASE CustomSql(r)
    <2>1. /\ table' \in [Projects -> SUBSET Ids] /\ used' \in [Projects -> SUBSET Ids]
          /\ named' \in [Projects -> SUBSET Ids]
        BY <1>7, <1>0 DEF CustomSql
    <2>2. /\ pc' = [pc EXCEPT ![r] = "done"] /\ reply' = [reply EXCEPT ![r] = "ok"]
          /\ UNCHANGED <<req, row, left, pending, hook, wrote, sent, since>> /\ req[r].op = "custom_sql"
          /\ pc[r] = "executing"
        BY <1>7 DEF CustomSql
    <2> QED
        BY <1>0, <2>1, <2>2
<1>8. CASE Create(r)
    BY <1>8, <1>0, WriteType DEF Create, Announcing
<1>9. CASE Update(r)
    BY <1>9, <1>0, WriteType DEF Update, Announcing
<1>10. CASE ReadExisting(r)
    BY <1>10, <1>0 DEF ReadExisting
<1>11. CASE Delete(r)
    BY <1>11, <1>0, WriteType DEF Delete, Announcing
<1>12. CASE FailStatement(r)
    BY <1>12 DEF FailStatement
<1>13. CASE LoseResult(r)
    BY <1>13 DEF LoseResult
<1>14. CASE BeginBatch(r)
    BY <1>14, ConstantsAssumption DEF BeginBatch
<1>15. CASE InsertRow(r)
    BY <1>15, <1>0 DEF InsertRow, NextRow, Announcing
<1>16. CASE MergeRow(r)
    BY <1>16, <1>0 DEF MergeRow, NextRow, Announcing
<1>17. CASE SkipRow(r)
    BY <1>17 DEF SkipRow, NextRow
<1>18. CASE CommitBatch(r)
    BY <1>18, <1>0, WriteType DEF CommitBatch, Announcing
<1>19. CASE AbortBatch(r)
    BY <1>19 DEF AbortBatch
<1>20. CASE Announce(r)
    BY <1>20, <1>0, EventOfType DEF Announce, Event, Announcing
<1> QED
    BY <1>1, <1>2, <1>3, <1>4, <1>5, <1>6, <1>7, <1>8, <1>9, <1>10, <1>11, <1>12, <1>13,
       <1>14, <1>15, <1>16, <1>17, <1>18, <1>19, <1>20 DEF Handle

\* TypeInv is an invariant.
THEOREM TypeInvariant == Spec => []TypeInv
<1>1. Init => TypeInv
    BY DEF Init, TypeInv, TypeOK, PhaseOf, States
<1>2. TypeInv /\ [Next]_vars => TypeInv'
    <2> SUFFICES ASSUME TypeInv, [Next]_vars PROVE TypeInv'
        OBVIOUS
    <2>1. CASE UNCHANGED vars
        BY <2>1 DEF vars, dbVars, TypeInv, TypeOK, PhaseOf
    <2>2. CASE Next
        BY <2>1, <2>2, HandleKeepsTypeInv DEF Next, AllAnswered
    <2> QED BY <2>1, <2>2
<1> QED BY <1>1, <1>2, PTL DEF Spec

\* Type correctness of the dynamic API.
THEOREM TypeCorrect == Spec => []TypeOK
BY TypeInvariant, PTL DEF TypeInv

----------------------------------------------------------------------------
(***************************************************************************)
(* Where events go.  While a request of the dynamic API is being served    *)
(* the slot holds its own project or one that replaced it since; what a    *)
(* request announced can be explained from the same history, because the   *)
(* history of a request is reset only before it announces anything.        *)
(***************************************************************************)
HookInv ==
    /\ hook["panel"] = NoProject
    /\ \A r \in Requests : Served(r) /\ req[r].exec = "api" =>
            hook["api"] \in {req[r].project} \cup since[r]
    /\ \A e \in sent : pc[e.by] \notin {"idle", "admitting"}

DirectionInv == HookInv /\ MisdirectedOnlyByOverlap

\* One step of any handler keeps DirectionInv.
LEMMA HandleKeepsDirection ==
    ASSUME TypeInv, DirectionInv, NEW r \in Requests, Arrive(r) \/ Handle(r)
    PROVE  DirectionInv'
<1> USE DEF DirectionInv, HookInv, MisdirectedOnlyByOverlap, Served, Finish, Return, Executing
<1>0. /\ pc \in [Requests -> States] /\ hook \in [Executors -> Projects \cup {NoProject}]
      /\ since \in [Requests -> SUBSET Projects] /\ sent \subseteq Event
      /\ req[r].project \in Projects /\ req[r].exec \in Executors
      /\ PhaseOf(r)
    BY DEF TypeInv, TypeOK
<1>1. CASE SetMutationHook(r)
    <2>1. req[r].exec = "api" /\ req' = req /\ sent' = sent
        BY <1>0, <1>1 DEF SetMutationHook, PhaseOf
    <2>2. hook' = [hook EXCEPT !["api"] = req[r].project]
        BY <1>1, <2>1 DEF SetMutationHook
    <2>3. hook'["panel"] = NoProject /\ hook'["api"] = req[r].project
        BY <1>0, <2>2 DEF Executors
    <2>4. ASSUME NEW q \in Requests, q # r, Served(q), req[q].exec = "api"
          PROVE  req[r].project \in since'[q]
        BY <1>0, <1>1, <2>1, <2>4 DEF SetMutationHook
    <2>5. \A q \in Requests : q # r => pc'[q] = pc[q] /\ since[q] \subseteq since'[q]
        BY <1>0, <1>1 DEF SetMutationHook
    <2>6. pc[r] = "admitting" /\ pc'[r] = "resolving"
        BY <1>0, <1>1 DEF SetMutationHook
    <2>7. \A e \in sent : e.by \in Requests /\ e.by # r
        BY <1>0, <2>6 DEF Event
    <2> QED
        BY <2>1, <2>3, <2>4, <2>5, <2>6, <2>7
<1>2. CASE Announce(r)
    <2>1. hook' = hook /\ since' = since /\ req' = req /\ Served(r)
        BY <1>2 DEF Announce
    <2>2. pc' = [pc EXCEPT ![r] = "batch"] \/ pc' = [pc EXCEPT ![r] = "done"]
        BY <1>2 DEF Announce
    <2>3. \A e \in sent' : e \in sent \/ (e.by = r /\ e.to = hook[req[r].exec] /\ e.to # NoProject)
        BY <1>2 DEF Announce
    <2>4. \A e \in sent' : e \in sent \/ (e.by = r /\ e.to \in {req[r].project} \cup since[r])
        BY <1>0, <2>1, <2>3 DEF Executors
    <2>5. pc'[r] \in {"batch", "done"} /\ \A q \in Requests : q # r => pc'[q] = pc[q]
        BY <1>0, <2>2
    <2>6. \A e \in sent : e.by \in Requests
        BY <1>0 DEF Event
    <2>7. HookInv'
        BY <2>1, <2>4, <2>5, <2>6
    <2>8. MisdirectedOnlyByOverlap'
        BY <2>1, <2>4
    <2> QED
        BY <2>7, <2>8
<1>3. CASE ~SetMutationHook(r) /\ ~Announce(r)
    <2>1. hook' = hook /\ since' = since /\ req' = req /\ sent' = sent
        BY <1>3 DEF Arrive, Handle, RefuseEarly, RefuseLate, Dispatch, Find, CustomSql, Create,
            Update, ReadExisting, Delete, FailStatement, LoseResult, BeginBatch, InsertRow,
            MergeRow, SkipRow, CommitBatch, AbortBatch
    <2>2. \/ pc' = pc
          \/ \E s \in States : pc' = [pc EXCEPT ![r] = s]
        BY <1>3 DEF Arrive, Handle, RefuseEarly, RefuseLate, Dispatch, Find, CustomSql, Create,
            Update, ReadExisting, Delete, FailStatement, LoseResult, BeginBatch, InsertRow,
            MergeRow, SkipRow, CommitBatch, AbortBatch, States
    <2>3. \A q \in Requests : q # r => pc'[q] = pc[q]
        BY <1>0, <2>2
    \* The panel's requests begin executing without passing the slot.
    <2>4. Served(r)' => Served(r) \/ req[r].exec # "api"
        BY <1>0, <1>3 DEF Arrive, Handle, RefuseEarly, RefuseLate, Dispatch, Find, CustomSql,
            Create, Update, ReadExisting, Delete, FailStatement, LoseResult, BeginBatch,
            InsertRow, MergeRow, SkipRow, CommitBatch, AbortBatch, States, NextRow
    <2>5. pc[r] \notin {"idle", "admitting"} => pc'[r] \notin {"idle", "admitting"}
        BY <1>0, <1>3 DEF Arrive, Handle, RefuseEarly, RefuseLate, Dispatch, Find, CustomSql,
            Create, Update, ReadExisting, Delete, FailStatement, LoseResult, BeginBatch,
            InsertRow, MergeRow, SkipRow, CommitBatch, AbortBatch, States, NextRow
    <2>6. \A e \in sent : e.by \in Requests
        BY <1>0 DEF Event
    <2> QED
        BY <2>1, <2>3, <2>4, <2>5, <2>6
<1> QED
    BY <1>1, <1>2, <1>3

\* An event goes to the project whose row changed or to one whose request
\* replaced the hook while its writer was being served.
THEOREM EventsMisdirectedOnlyByOverlap == Spec => []MisdirectedOnlyByOverlap
<1>1. Init => DirectionInv
    BY DEF Init, DirectionInv, HookInv, MisdirectedOnlyByOverlap, Served, Executors
<1>2. TypeInv /\ DirectionInv /\ [Next]_vars => DirectionInv'
    <2> SUFFICES ASSUME TypeInv, DirectionInv, [Next]_vars PROVE DirectionInv'
        OBVIOUS
    <2>1. CASE UNCHANGED vars
        BY <2>1 DEF vars, dbVars, DirectionInv, HookInv, MisdirectedOnlyByOverlap, Served
    <2>2. CASE Next
        BY <2>1, <2>2, HandleKeepsDirection DEF Next, AllAnswered
    <2> QED BY <2>1, <2>2
<1>3. DirectionInv => MisdirectedOnlyByOverlap
    BY DEF DirectionInv
<1> QED BY <1>1, <1>2, <1>3, TypeInvariant, PTL DEF Spec

----------------------------------------------------------------------------
(***************************************************************************)
(* Deleted rows.  A row is gone when its identifier has been handed out    *)
(* and neither the table nor an open batch holds it.  Unless SQL names the *)
(* identifier, no step brings such a row back: an INSERT takes a fresh     *)
(* one, and a merge locks a row that is in the table.  A DELETE waits for  *)
(* the batches that lock its row and so establishes this before its event  *)
(* can go out.                                                             *)
(***************************************************************************)
Gone(p, id) ==
    \/ id \in named[p]
    \/ /\ id \in used[p]
       /\ id \notin table[p]
       /\ \A q \in Requests : req[q].project = p => id \notin pending[q]

\* The identifiers that rows of a project have had.
Known(p) == used[p] \cup named[p]

StoreInv ==
    /\ \A p \in Projects : table[p] \subseteq Known(p)
    /\ \A r \in Requests : pending[r] \subseteq Known(req[r].project)
    /\ \A r \in Requests : pc[r] = "deleting" => row[r] \in Known(req[r].project)

GoneInv ==
    /\ \A r \in Requests : pc[r] = "returned" /\ req[r].op = "delete" => Gone(req[r].project, row[r])
    /\ \A e \in sent : e.event = "DELETE" => Gone(req[e.by].project, e.id)

\* The steps that leave the tables, the sequences and the open batches alone.
StoreUntouched == UNCHANGED <<pending, table, used, named, req>>

\* One step of any handler keeps StoreInv.
LEMMA HandleKeepsStore ==
    ASSUME TypeInv, StoreInv, NEW r \in Requests, Arrive(r) \/ Handle(r)
    PROVE  StoreInv'
<1> USE DEF StoreInv, Known, Finish, Return, Executing, dbVars, Rows, Fresh
<1>0. /\ pc \in [Requests -> States] /\ row \in [Requests -> Ids \cup {NoRow}]
      /\ pending \in [Requests -> SUBSET Ids] /\ used \in [Projects -> SUBSET Ids]
      /\ named \in [Projects -> SUBSET Ids]
      /\ table \in [Projects -> SUBSET Ids] /\ \A q \in Requests : req[q].project \in Projects
    BY DEF TypeInv, TypeOK
<1>1. CASE CustomSql(r)
    BY <1>0, <1>1 DEF CustomSql
<1>2. CASE Create(r)
    BY <1>0, <1>2 DEF Create
<1>3. CASE ReadExisting(r)
    BY <1>0, <1>3 DEF ReadExisting
<1>4. CASE Delete(r)
    BY <1>0, <1>4 DEF Delete
<1>5. CASE InsertRow(r)
    BY <1>0, <1>5 DEF InsertRow, NextRow
<1>6. CASE MergeRow(r)
    BY <1>0, <1>6 DEF MergeRow, NextRow
<1>7. CASE CommitBatch(r)
    BY <1>0, <1>7 DEF CommitBatch
<1>8. CASE AbortBatch(r)
    BY <1>0, <1>8 DEF AbortBatch
<1>9. CASE \/ Arrive(r) \/ RefuseEarly(r) \/ SetMutationHook(r) \/ RefuseLate(r) \/ Dispatch(r)
           \/ Find(r) \/ Update(r) \/ FailStatement(r) \/ LoseResult(r) \/ BeginBatch(r)
           \/ SkipRow(r) \/ Announce(r)
    <2>1. StoreUntouched /\ \A q \in Requests : pc'[q] = "deleting" => pc[q] = "deleting" /\ row'[q] = row[q]
        BY <1>0, <1>9 DEF StoreUntouched, Arrive, RefuseEarly, SetMutationHook, RefuseLate, Dispatch, Find,
            Update, FailStatement, LoseResult, BeginBatch, SkipRow, NextRow, Announce
    <2> QED BY <2>1 DEF StoreUntouched
<1> QED
    BY <1>1, <1>2, <1>3, <1>4, <1>5, <1>6, <1>7, <1>8, <1>9 DEF Handle

\* A row that is gone stays gone, whatever handler takes a step.
LEMMA GoneIsStable ==
    ASSUME TypeInv, NEW r \in Requests, Arrive(r) \/ Handle(r),
           NEW p \in Projects, NEW id \in Ids, Gone(p, id)
    PROVE  Gone(p, id)'
<1> USE DEF Gone, Finish, Return, Executing, dbVars, Rows, Fresh
<1>0. /\ pending \in [Requests -> SUBSET Ids] /\ used \in [Projects -> SUBSET Ids]
      /\ named \in [Projects -> SUBSET Ids]
      /\ table \in [Projects -> SUBSET Ids] /\ req[r].project \in Projects
    BY DEF TypeInv, TypeOK
<1>1. CASE CustomSql(r)
    BY <1>0, <1>1 DEF CustomSql
<1>2. CASE Create(r)
    BY <1>0, <1>2 DEF Create
<1>3. CASE Delete(r)
    BY <1>0, <1>3 DEF Delete
<1>4. CASE InsertRow(r)
    BY <1>0, <1>4 DEF InsertRow, NextRow
<1>5. CASE MergeRow(r)
    BY <1>0, <1>5 DEF MergeRow, NextRow
<1>6. CASE CommitBatch(r)
    BY <1>0, <1>6 DEF CommitBatch
<1>7. CASE AbortBatch(r)
    BY <1>0, <1>7 DEF AbortBatch
<1>8. CASE \/ Arrive(r) \/ RefuseEarly(r) \/ SetMutationHook(r) \/ RefuseLate(r) \/ Dispatch(r)
           \/ Find(r) \/ Update(r) \/ ReadExisting(r) \/ FailStatement(r) \/ LoseResult(r)
           \/ BeginBatch(r) \/ SkipRow(r) \/ Announce(r)
    <2>1. StoreUntouched
        BY <1>8 DEF StoreUntouched, Arrive, RefuseEarly, SetMutationHook, RefuseLate, Dispatch, Find,
            Update, ReadExisting, FailStatement, LoseResult, BeginBatch, SkipRow, NextRow, Announce
    <2> QED BY <2>1 DEF StoreUntouched
<1> QED
    BY <1>1, <1>2, <1>3, <1>4, <1>5, <1>6, <1>7, <1>8 DEF Handle

\* When its DELETE statement has returned, the row is gone.
LEMMA DeleteMakesGone ==
    ASSUME TypeInv, StoreInv, NEW r \in Requests, Delete(r)
    PROVE  Gone(req[r].project, row[r])'
<1> DEFINE p == req[r].project
<1>1. /\ pending \in [Requests -> SUBSET Ids] /\ used \in [Projects -> SUBSET Ids]
      /\ named \in [Projects -> SUBSET Ids]
      /\ table \in [Projects -> SUBSET Ids] /\ p \in Projects
      /\ row \in [Requests -> Ids \cup {NoRow}] /\ PhaseOf(r)
    BY DEF TypeInv, TypeOK
<1>2. /\ table' = [table EXCEPT ![p] = @ \ {row[r]}] /\ row' = row
      /\ UNCHANGED <<used, named, pending, req>> /\ row[r] \in Known(p)
    BY <1>1 DEF Delete, Return, StoreInv
<1>3. pending[r] = {}
    BY <1>1 DEF Delete, PhaseOf
<1>4. \A q \in Requests : req[q].project = p => row[r] \notin pending[q]
    BY <1>3 DEF Delete, Locked
<1> QED
    BY <1>1, <1>2, <1>4 DEF Gone, Known

\* Only a delete has DELETE as its event.
LEMMA DeleteEvent ==
    ASSUME NEW o \in Announcing, EventOf[o] = "DELETE"
    PROVE  o = "delete"
BY DEF EventOf, Announcing

\* One step of any handler keeps GoneInv.
LEMMA HandleKeepsGone ==
    ASSUME TypeInv, StoreInv, GoneInv, NEW r \in Requests, Arrive(r) \/ Handle(r)
    PROVE  GoneInv'
<1>0. /\ pc \in [Requests -> States] /\ row \in [Requests -> Ids \cup {NoRow}] /\ sent \subseteq Event
      /\ \A q \in Requests : req[q].project \in Projects /\ PhaseOf(q)
    BY DEF TypeInv, TypeOK
<1>1. req' = req
    BY DEF Arrive, Handle, RefuseEarly, SetMutationHook, RefuseLate, Dispatch, Find, CustomSql,
        Create, Update, ReadExisting, Delete, FailStatement, LoseResult, BeginBatch, InsertRow,
        MergeRow, SkipRow, CommitBatch, AbortBatch, Announce
<1>2. ASSUME NEW p \in Projects, NEW id \in Ids, Gone(p, id)
      PROVE  Gone(p, id)'
    BY <1>2, GoneIsStable
<1>3. ASSUME NEW q \in Requests, pc'[q] = "returned", req[q].op = "delete"
      PROVE  Gone(req[q].project, row[q])'
    <2>1. CASE Delete(r) /\ q = r
        BY <2>1, DeleteMakesGone
    <2>2. CASE ~(Delete(r) /\ q = r)
        <3>1. pc[q] = "returned" /\ row'[q] = row[q]
            BY <1>0, <1>3, <2>2 DEF Arrive, Handle, RefuseEarly, SetMutationHook, RefuseLate,
                Dispatch, Find, CustomSql, Create, Update, ReadExisting, Delete, FailStatement,
                LoseResult, BeginBatch, InsertRow, MergeRow, SkipRow, CommitBatch, AbortBatch,
                Announce, Return, Finish, Executing, NextRow, PhaseOf
        <3>2. Gone(req[q].project, row[q]) /\ row[q] \in Ids
            BY <1>0, <1>3, <3>1 DEF GoneInv, PhaseOf
        <3> QED
            BY <1>0, <1>1, <1>2, <3>1, <3>2 DEF Gone
    <2> QED
        BY <2>1, <2>2
<1>4. ASSUME NEW e \in sent', e.event = "DELETE"
      PROVE  Gone(req[e.by].project, e.id)'
    <2>1. CASE e \in sent
        BY <1>0, <1>1, <1>2, <1>4, <2>1 DEF Gone, GoneInv, Event
    <2>2. CASE e \notin sent
        <3>1. Announce(r)
            BY <1>4, <2>2 DEF Arrive, Handle, RefuseEarly, SetMutationHook, RefuseLate, Dispatch,
                Find, CustomSql, Create, Update, ReadExisting, Delete, FailStatement, LoseResult,
                BeginBatch, InsertRow, MergeRow, SkipRow, CommitBatch, AbortBatch
        <3>2. e.by = r /\ e.id = row[r] /\ e.event = EventOf[req[r].op] /\ pc[r] = "returned"
            BY <1>4, <2>2, <3>1 DEF Announce
        <3>3. req[r].op = "delete" /\ row[r] \in Ids
            BY <1>0, <1>4, <3>2, DeleteEvent DEF PhaseOf
        <3> QED
            BY <1>0, <1>1, <1>2, <3>2, <3>3 DEF Gone, GoneInv
    <2> QED
        BY <2>1, <2>2
<1> QED
    BY <1>1, <1>3, <1>4 DEF GoneInv

\* A row whose deletion was announced is in no table and in no open batch, unless
\* SQL has named its identifier.
THEOREM DeletionIsFinal == Spec => []DeletedStaysDeleted
<1>1. Init => StoreInv /\ GoneInv
    BY DEF Init, StoreInv, GoneInv, Known
<1>2. TypeInv /\ StoreInv /\ GoneInv /\ [Next]_vars => StoreInv' /\ GoneInv'
    <2> SUFFICES ASSUME TypeInv, StoreInv, GoneInv, [Next]_vars PROVE StoreInv' /\ GoneInv'
        OBVIOUS
    <2>1. CASE UNCHANGED vars
        BY <2>1 DEF vars, dbVars, StoreInv, GoneInv, Gone, Known
    <2>2. CASE Next
        BY <2>1, <2>2, HandleKeepsStore, HandleKeepsGone DEF Next, AllAnswered
    <2> QED BY <2>1, <2>2
<1>3. TypeInv /\ GoneInv => DeletedStaysDeleted
    BY DEF GoneInv, Gone, DeletedStaysDeleted
<1> QED BY <1>1, <1>2, <1>3, TypeInvariant, PTL DEF Spec

----------------------------------------------------------------------------
(***************************************************************************)
(* What a request said and what it did.  Until its statement returns a     *)
(* request has said and done nothing; a single statement is done first and *)
(* said after; a batch says each row while it is pending and does them all *)
(* at COMMIT.                                                              *)
(***************************************************************************)
Said(r) == {e.id : e \in {x \in sent : x.by = r}}

Did(r) == {w.id : w \in {x \in wrote : x.by = r}}

\* The row a batch has written and not yet announced.
Coming(r) == IF pc[r] = "returned" THEN {row[r]} ELSE {}

RecordOf(r) ==
    /\ pc[r] # "done" => reply[r] = "none"
    /\ pc[r] \in {"idle", "admitting", "resolving", "executing", "deleting"} => Said(r) = {} /\ Did(r) = {}
    /\ pc[r] = "returned" /\ req[r].op # "create_many" => Said(r) = {}
    /\ pc[r] = "returned" /\ req[r].op \in {"create", "update"} => Did(r) = {row[r]}
    /\ pc[r] \in {"batch", "returned"} /\ req[r].op = "create_many" =>
            /\ Did(r) = {}
            /\ req[r].exec = "api" => Said(r) \cup Coming(r) = pending[r]
    /\ reply[r] = "ok" /\ req[r].exec = "api" /\ req[r].op \in {"create", "create_many", "update"} =>
            Said(r) = Did(r)
    /\ req[r].op \in {"create", "update"} => Said(r) \subseteq Did(r)

RecordInv ==
    /\ \A r \in Requests : RecordOf(r)
    /\ \A e \in sent : /\ req[e.by].exec = "api"
                        /\ req[e.by].op \in Announcing
                        /\ e.event = EventOf[req[e.by].op]
    /\ \A w \in wrote : w.event = EventOf[req[w.by].op]

\* A step of r adds to its own records only.
LEMMA OwnRecords ==
    ASSUME TypeInv, RecordInv, NEW r \in Requests, Arrive(r) \/ Handle(r), NEW q \in Requests \ {r}
    PROVE  RecordOf(q)'
<1>1. /\ pc'[q] = pc[q] /\ row'[q] = row[q] /\ reply'[q] = reply[q] /\ pending'[q] = pending[q]
      /\ req' = req
    BY DEF TypeInv, TypeOK, Arrive, Handle, RefuseEarly, SetMutationHook, RefuseLate, Dispatch, Find,
        CustomSql, Create, Update, ReadExisting, Delete, FailStatement, LoseResult, BeginBatch, InsertRow,
        MergeRow, SkipRow, CommitBatch, AbortBatch, Announce, Return, Finish, NextRow, dbVars
<1>2. Said(q)' = Said(q)
    <2>1. sent' = sent \/ \E e : e.by = r /\ sent' = sent \cup {e}
        <3>1. CASE Announce(r)
            BY <3>1 DEF Announce
        <3>2. CASE ~Announce(r)
            BY <3>2 DEF Arrive, Handle, RefuseEarly, SetMutationHook, RefuseLate, Dispatch, Find, CustomSql,
                Create, Update, ReadExisting, Delete, FailStatement, LoseResult, BeginBatch, InsertRow,
                MergeRow, SkipRow, CommitBatch, AbortBatch
        <3> QED
            BY <3>1, <3>2
    <2> QED
        BY <2>1 DEF Said
<1>3. Did(q)' = Did(q)
    <2>1. \A w : w \in wrote' /\ w.by = q <=> w \in wrote /\ w.by = q
        BY <1>1 DEF Arrive, Handle, RefuseEarly, SetMutationHook, RefuseLate, Dispatch, Find, CustomSql,
            Create, Update, ReadExisting, Delete, FailStatement, LoseResult, BeginBatch, InsertRow,
            MergeRow, SkipRow, CommitBatch, AbortBatch, Announce, Write, dbVars
    <2> QED
        BY <2>1 DEF Did
<1> QED
    BY <1>1, <1>2, <1>3 DEF RecordInv, RecordOf, Coming

\* What a step of r makes of its own records.
LEMMA StepRecords ==
    ASSUME TypeInv, DirectionInv, RecordInv, NEW r \in Requests, Arrive(r) \/ Handle(r)
    PROVE  RecordOf(r)'
<1> DEFINE quiet == UNCHANGED <<sent, wrote>>
<1>0. /\ pc \in [Requests -> States] /\ row \in [Requests -> Ids \cup {NoRow}]
      /\ pending \in [Requests -> SUBSET Ids] /\ hook \in [Executors -> Projects \cup {NoProject}]
      /\ reply \in [Requests -> {"none", "refused", "ok", "error"}]
      /\ since \in [Requests -> SUBSET Projects]
      /\ req[r].project \in Projects /\ req[r].exec \in Executors /\ req[r].op \in Ops
      /\ PhaseOf(r) /\ RecordOf(r)
    BY DEF TypeInv, TypeOK, RecordInv
<1>1. ASSUME quiet PROVE Said(r)' = Said(r) /\ Did(r)' = Did(r)
    BY <1>1 DEF Said, Did
<1>2. ASSUME NEW id, wrote' = wrote \cup {Write(r, id)} PROVE Did(r)' = Did(r) \cup {id}
    <2>1. Write(r, id).by = r /\ Write(r, id).id = id
        BY DEF Write
    <2>2. ASSUME NEW i \in Did(r)' PROVE i \in Did(r) \cup {id}
        <3>1. PICK w \in wrote' : w.by = r /\ w.id = i
            BY DEF Did
        <3> QED BY <1>2, <2>1, <3>1 DEF Did
    <2>3. ASSUME NEW i \in Did(r) \cup {id} PROVE i \in Did(r)'
        <3>1. PICK w \in wrote' : w.by = r /\ w.id = i
            BY <1>2, <2>1 DEF Did
        <3> QED BY <3>1 DEF Did
    <2> QED BY <2>2, <2>3
<1>3. ASSUME sent' = sent PROVE Said(r)' = Said(r)
    BY <1>3 DEF Said
<1>4. CASE Create(r) \/ Update(r)
    <2>1. PICK id \in Ids : /\ wrote' = wrote \cup {Write(r, id)}
                            /\ Return(r, id)
        BY <1>0, <1>4 DEF Create, Update, Fresh, Rows, TypeInv, TypeOK
    <2>2. Did(r) = {} /\ Said(r) = {} /\ req[r].op \in {"create", "update"} /\ reply[r] = "none"
        BY <1>0, <1>4 DEF RecordOf, Create, Update, Executing
    <2>3. Did(r)' = {id} /\ Said(r)' = {}
        BY <1>2, <1>3, <1>4, <2>1, <2>2 DEF Create, Update
    <2>4. pc'[r] = "returned" /\ row'[r] = id /\ reply'[r] = "none" /\ req' = req
        BY <1>0, <1>4, <2>1, <2>2 DEF Create, Update, Return
    <2> QED BY <2>2, <2>3, <2>4 DEF RecordOf
<1>5. CASE Delete(r)
    <2>1. /\ pc'[r] = "returned" /\ reply'[r] = "none" /\ req' = req /\ req[r].op = "delete"
          /\ Said(r)' = {}
        BY <1>0, <1>3, <1>5 DEF Delete, Return, RecordOf, PhaseOf
    <2> QED BY <2>1 DEF RecordOf
<1>6. CASE InsertRow(r) \/ MergeRow(r)
    <2>1. PICK id \in Ids : pending' = [pending EXCEPT ![r] = @ \cup {id}] /\ Return(r, id)
        BY <1>0, <1>6 DEF InsertRow, MergeRow, Fresh, Rows, TypeInv, TypeOK
    <2>2. /\ pc[r] = "batch" /\ req[r].op = "create_many" /\ reply[r] = "none" /\ Did(r) = {}
          /\ req[r].exec = "api" => Said(r) = pending[r]
        BY <1>0, <1>6 DEF InsertRow, MergeRow, NextRow, RecordOf, PhaseOf, Coming
    <2>3. Said(r)' = Said(r) /\ Did(r)' = Did(r)
        BY <1>1, <1>6 DEF InsertRow, MergeRow
    <2>4. /\ pc'[r] = "returned" /\ row'[r] = id /\ reply' = reply /\ req' = req
          /\ pending'[r] = pending[r] \cup {id}
        BY <1>0, <1>6, <2>1 DEF InsertRow, MergeRow, Return
    <2> QED BY <2>2, <2>3, <2>4 DEF RecordOf, Coming
<1>7. CASE CommitBatch(r)
    <2>1. /\ pc[r] = "batch" /\ req[r].op = "create_many" /\ Did(r) = {}
          /\ req[r].exec = "api" => Said(r) = pending[r]
        BY <1>0, <1>7 DEF CommitBatch, RecordOf, PhaseOf, Coming
    <2>2. Said(r)' = Said(r) /\ Did(r)' = Did(r) \cup pending[r]
        <3>1. wrote' = wrote \cup {Write(r, id) : id \in pending[r]} /\ sent' = sent
            BY <1>7 DEF CommitBatch
        <3>2. \A id : Write(r, id).by = r /\ Write(r, id).id = id
            BY DEF Write
        <3>3. ASSUME NEW i \in Did(r)' PROVE i \in Did(r) \cup pending[r]
            <4>1. PICK w \in wrote' : w.by = r /\ w.id = i
                BY DEF Did
            <4> QED BY <3>1, <3>2, <4>1 DEF Did
        <3>4. ASSUME NEW i \in Did(r) \cup pending[r] PROVE i \in Did(r)'
            <4>1. PICK w \in wrote' : w.by = r /\ w.id = i
                BY <3>1, <3>2, <3>4 DEF Did
            <4> QED BY <4>1 DEF Did
        <3> QED BY <1>3, <3>1, <3>3, <3>4
    <2>3. pc'[r] = "done" /\ reply'[r] = "ok" /\ req' = req
        BY <1>0, <1>7 DEF CommitBatch, Finish
    <2> QED BY <2>1, <2>2, <2>3 DEF RecordOf
<1>8. CASE Announce(r)
    <2>1. pc[r] = "returned" /\ req' = req /\ row' = row /\ pending' = pending /\ wrote' = wrote
        BY <1>8 DEF Announce, Finish, dbVars
    <2>2. Did(r)' = Did(r)
        BY <2>1 DEF Did
    \* Through the API the slot is never empty here; the panel's always is.
    <2>3. req[r].exec = "api" => hook[req[r].exec] # NoProject
        BY <1>0, <2>1, ConstantsAssumption DEF DirectionInv, HookInv, Served
    <2>4. req[r].exec # "api" => hook[req[r].exec] = NoProject
        BY <1>0 DEF DirectionInv, HookInv, Executors
    <2>5. req[r].exec = "api" => Said(r)' = Said(r) \cup {row[r]}
        <3> DEFINE e == [by |-> r, id |-> row[r], event |-> EventOf[req[r].op], to |-> hook[req[r].exec]]
        <3> SUFFICES ASSUME req[r].exec = "api" PROVE Said(r)' = Said(r) \cup {row[r]}
            OBVIOUS
        <3>1. sent' = sent \cup {e}
            BY <1>8, <2>3 DEF Announce
        <3>2. e.by = r /\ e.id = row[r]
            OBVIOUS
        <3> HIDE DEF e
        <3>3. ASSUME NEW i \in Said(r)' PROVE i \in Said(r) \cup {row[r]}
            <4>1. PICK x \in sent' : x.by = r /\ x.id = i
                BY DEF Said
            <4> QED BY <3>1, <3>2, <4>1 DEF Said
        <3>4. ASSUME NEW i \in Said(r) \cup {row[r]} PROVE i \in Said(r)'
            <4>1. PICK x \in sent' : x.by = r /\ x.id = i
                BY <3>1, <3>2 DEF Said
            <4> QED BY <4>1 DEF Said
        <3> QED BY <3>3, <3>4
    <2>6. req[r].exec # "api" => Said(r)' = Said(r)
        BY <1>8, <2>4 DEF Announce, Said
    <2>7. CASE req[r].op = "create_many"
        <3>1. pc'[r] = "batch" /\ reply' = reply
            BY <1>0, <1>8, <2>7 DEF Announce
        <3> QED
            BY <1>0, <2>1, <2>2, <2>5, <2>7, <3>1 DEF RecordOf, Coming
    <2>8. CASE req[r].op # "create_many"
        <3>1. pc'[r] = "done" /\ reply'[r] = "ok"
            BY <1>0, <1>8, <2>8 DEF Announce, Finish
        <3> QED
            BY <1>0, <2>1, <2>2, <2>5, <2>6, <2>8, <3>1 DEF RecordOf
    <2> QED BY <2>7, <2>8
<1>9. CASE RefuseEarly(r) \/ RefuseLate(r) \/ FailStatement(r) \/ LoseResult(r) \/ AbortBatch(r)
    <2>1. /\ pc'[r] = "done" /\ reply'[r] \in {"refused", "error"} /\ req' = req /\ quiet
        BY <1>0, <1>9 DEF RefuseEarly, RefuseLate, FailStatement, LoseResult, AbortBatch, Finish, dbVars
    <2>2. Said(r)' = Said(r) /\ Did(r)' = Did(r)
        BY <1>1, <2>1
    <2> QED BY <1>0, <2>1, <2>2 DEF RecordOf
<1>10. CASE Find(r) \/ CustomSql(r)
    <2>1. /\ pc'[r] = "done" /\ reply'[r] = "ok" /\ req' = req /\ quiet
          /\ req[r].op \in {"find", "custom_sql"}
        BY <1>0, <1>10 DEF Find, CustomSql, Executing, Finish, dbVars
    <2> QED BY <2>1 DEF RecordOf
<1>11. CASE Arrive(r) \/ SetMutationHook(r) \/ Dispatch(r) \/ ReadExisting(r)
    <2>1. /\ pc[r] \in {"idle", "admitting", "resolving", "executing"}
          /\ pc'[r] \in {"admitting", "resolving", "executing", "deleting"}
          /\ reply' = reply /\ req' = req /\ quiet
        BY <1>0, <1>11 DEF Arrive, SetMutationHook, Dispatch, ReadExisting, Executing, dbVars
    <2>2. Said(r)' = {} /\ Did(r)' = {} /\ reply'[r] = "none"
        BY <1>0, <1>1, <2>1 DEF RecordOf
    <2> QED BY <2>1, <2>2 DEF RecordOf
<1>12. CASE BeginBatch(r)
    <2>1. /\ pc[r] = "executing" /\ pc'[r] = "batch" /\ req[r].op = "create_many"
          /\ reply' = reply /\ req' = req /\ pending' = pending /\ quiet
        BY <1>0, <1>12 DEF BeginBatch, Executing, dbVars
    <2>2. Said(r)' = {} /\ Did(r)' = {} /\ reply'[r] = "none" /\ pending[r] = {}
        BY <1>0, <1>1, <2>1 DEF RecordOf, PhaseOf
    <2> QED BY <2>1, <2>2 DEF RecordOf, Coming
<1>13. CASE SkipRow(r)
    <2>1. /\ pc' = pc /\ row' = row /\ reply' = reply /\ req' = req /\ pending' = pending /\ quiet
        BY <1>13 DEF SkipRow, NextRow, dbVars
    <2>2. Said(r)' = Said(r) /\ Did(r)' = Did(r)
        BY <1>1, <2>1
    <2> QED BY <1>0, <2>1, <2>2 DEF RecordOf, Coming
<1> QED
    BY <1>4, <1>5, <1>6, <1>7, <1>8, <1>9, <1>10, <1>11, <1>12, <1>13 DEF Handle

\* One step of any handler keeps RecordInv.
LEMMA HandleKeepsRecords ==
    ASSUME TypeInv, DirectionInv, RecordInv, NEW r \in Requests, Arrive(r) \/ Handle(r)
    PROVE  RecordInv'
<1>0. /\ hook \in [Executors -> Projects \cup {NoProject}] /\ PhaseOf(r)
      /\ req[r].exec \in Executors
    BY DEF TypeInv, TypeOK
<1>1. req' = req
    BY DEF Arrive, Handle, RefuseEarly, SetMutationHook, RefuseLate, Dispatch, Find, CustomSql,
        Create, Update, ReadExisting, Delete, FailStatement, LoseResult, BeginBatch, InsertRow,
        MergeRow, SkipRow, CommitBatch, AbortBatch, Announce, dbVars
<1>2. ASSUME NEW q \in Requests PROVE RecordOf(q)'
    BY OwnRecords, StepRecords
<1>3. ASSUME NEW e \in sent'
      PROVE  req[e.by].exec = "api" /\ req[e.by].op \in Announcing /\ e.event = EventOf[req[e.by].op]
    <2>1. CASE e \in sent
        BY <2>1 DEF RecordInv
    <2>2. CASE e \notin sent
        <3>1. Announce(r)
            BY <1>3, <2>2 DEF Arrive, Handle, RefuseEarly, SetMutationHook, RefuseLate, Dispatch,
                Find, CustomSql, Create, Update, ReadExisting, Delete, FailStatement, LoseResult,
                BeginBatch, InsertRow, MergeRow, SkipRow, CommitBatch, AbortBatch
        <3>2. /\ e.by = r /\ e.event = EventOf[req[r].op] /\ pc[r] = "returned"
              /\ hook[req[r].exec] # NoProject
            BY <1>3, <2>2, <3>1 DEF Announce
        <3> QED
            BY <1>0, <3>2 DEF PhaseOf, DirectionInv, HookInv, Executors
    <2> QED BY <2>1, <2>2
<1>4. ASSUME NEW w \in wrote' PROVE w.event = EventOf[req[w.by].op]
    <2>1. w \in wrote \/ \E id : w = Write(r, id)
        BY <1>4 DEF Arrive, Handle, RefuseEarly, SetMutationHook, RefuseLate, Dispatch, Find,
            CustomSql, Create, Update, ReadExisting, Delete, FailStatement, LoseResult, BeginBatch,
            InsertRow, MergeRow, SkipRow, CommitBatch, AbortBatch, Announce, dbVars
    <2> QED BY <2>1 DEF RecordInv, Write
<1> QED
    BY <1>1, <1>2, <1>3, <1>4 DEF RecordInv

\* What every request has said and done, in every reachable state.
THEOREM RecordsInvariant == Spec => [](TypeInv /\ DirectionInv /\ RecordInv)
<1>1. Init => DirectionInv /\ RecordInv
    BY DEF Init, DirectionInv, HookInv, MisdirectedOnlyByOverlap, Served, Executors, RecordInv,
        RecordOf, Said, Did
<1>2. TypeInv /\ DirectionInv /\ RecordInv /\ [Next]_vars => DirectionInv' /\ RecordInv'
    <2> SUFFICES ASSUME TypeInv, DirectionInv, RecordInv, [Next]_vars PROVE DirectionInv' /\ RecordInv'
        OBVIOUS
    <2>1. CASE UNCHANGED vars
        <3>1. DirectionInv'
            BY <2>1 DEF vars, dbVars, DirectionInv, HookInv, MisdirectedOnlyByOverlap, Served
        <3>2. RecordInv'
            BY <2>1 DEF vars, dbVars, RecordInv, RecordOf, Said, Did, Coming
        <3> QED BY <3>1, <3>2
    <2>2. CASE Next
        BY <2>1, <2>2, HandleKeepsDirection, HandleKeepsRecords DEF Next, AllAnswered
    <2> QED BY <2>1, <2>2
<1> QED BY <1>1, <1>2, TypeInvariant, PTL DEF Spec

\* A create, create_many or update answered with success through the API has
\* announced exactly the rows it committed.
THEOREM SuccessIsAnnounced == Spec => []SuccessMeansAnnounced
<1>1. RecordInv => SuccessMeansAnnounced
    BY DEF RecordInv, RecordOf, Said, Did, SuccessMeansAnnounced
<1> QED BY <1>1, RecordsInvariant, PTL

\* An INSERT or UPDATE event without a committed write comes from a batch that
\* is open or was rolled back.
THEOREM PhantomsExplained == Spec => []PhantomsOnlyFromBatches
<1>1. ASSUME TypeInv, RecordInv, NEW e \in sent, e.event # "DELETE",
             req[e.by].op = "create_many" => reply[e.by] = "ok"
      PROVE  [by |-> e.by, id |-> e.id, event |-> e.event] \in wrote
    <2>1. e.by \in Requests /\ RecordOf(e.by)
        BY <1>1 DEF TypeInv, TypeOK, Event, RecordInv
    <2>2. /\ req[e.by].exec = "api" /\ e.event = EventOf[req[e.by].op]
          /\ req[e.by].op \in {"create", "create_many", "update"}
        BY <1>1 DEF RecordInv, Announcing, EventOf
    <2>3. e.id \in Said(e.by)
        BY DEF Said
    <2>4. e.id \in Did(e.by)
        BY <1>1, <2>1, <2>2, <2>3 DEF RecordOf
    <2>5. PICK w \in wrote : w.by = e.by /\ w.id = e.id
        BY <2>4 DEF Did
    <2>6. w.event = e.event
        BY <1>1, <2>2, <2>5 DEF RecordInv
    <2>7. w \in [by : Requests, id : Ids, event : {"INSERT", "UPDATE", "DELETE"}]
        BY <1>1 DEF TypeInv, TypeOK
    <2>8. w = [by |-> e.by, id |-> e.id, event |-> e.event]
        BY <2>5, <2>6, <2>7
    <2> QED BY <2>8
<1>2. TypeInv /\ RecordInv => PhantomsOnlyFromBatches
    BY <1>1 DEF PhantomsOnlyFromBatches
<1> QED BY <1>2, RecordsInvariant, PTL
====
