---- MODULE Gateways_proofs ----
(***************************************************************************)
(* Proofs about the two ways through which others reach the data of a      *)
(* project: the published endpoints with their caches (EndpointCache), for *)
(* any number of endpoints, requests and administrators and for all        *)
(* bounds, and the transactions of the AI gateway (TxnManager), for any    *)
(* number of transactions and calls and any size of the pool.              *)
(***************************************************************************)
EXTENDS EndpointCache, TxnManager, FiniteSetTheorems, TLAPS

----------------------------------------------------------------------------
\* Something that will clear the entry, or should have and did not, is on record.
Excused == uncleared \/ untold \/ \E a \in Admins : Unclear(a)

\* The entry, and every list a request is about to store as the entry, equals
\* the table unless it is marked late or the difference is excused.  Requests
\* and handlers keep their own state: the other processes' is not disturbed.
ResolveInv ==
    /\ op = [a \in Admins |-> op[a]]
    /\ req = [r \in Requests |-> req[r]]
    /\ late = [r \in Requests |-> late[r]]
    /\ \A r \in Requests : req[r].pc = "setting" =>
            req[r].cands = Candidates \/ late[r] \/ Excused
    /\ StaleResolveExplained

\* A step of a request leaves the table and the administrators alone.
LEMMA RequestKeepsResolve ==
    ASSUME ResolveInv, NEW r \in Requests, Serve(r)
    PROVE  ResolveInv'
<1> USE DEF Serve, ServeStep, GoReq, dbVars, adminVars, Idle
<1>1. Candidates' = Candidates /\ (Excused' <=> Excused) /\ op' = op
    <2>1. db' = db /\ op' = op /\ uncleared' = uncleared /\ untold' = untold
        BY DEF GetHit, GetMiss, ReadCandidates, SetResolve, SetResolveFails, NotFound, ServeCached,
            Execute, SetResponse, LeaveUnstored
    <2> QED
        BY <2>1 DEF Candidates, Candidate, Present, Excused, Unclear
<1>2. CASE ReadCandidates(r)
    <2>1. \A q \in Requests : q # r => req'[q] = req[q] /\ late'[q] = late[q]
        BY <1>2 DEF ReadCandidates, ResolveInv
    <2>2. req'[r].cands = Candidates /\ resolve' = resolve
        BY <1>2 DEF ReadCandidates, ResolveInv
    <2>3. req' = [q \in Requests |-> req'[q]] /\ late' = [q \in Requests |-> late'[q]]
        BY <1>2 DEF ReadCandidates, ResolveInv
    <2> QED
        BY <1>1, <2>1, <2>2, <2>3 DEF ResolveInv, StaleResolveExplained, Excused
<1>3. CASE SetResolve(r)
    <2>1. /\ late' = late /\ resolve' = [rows |-> req[r].cands, late |-> late[r]]
          /\ req[r].pc = "setting" /\ req' = [req EXCEPT ![r] = [pc |-> "selecting", cands |-> req[r].cands]]
        BY <1>3 DEF SetResolve
    <2>2. \A q \in Requests : req'[q].pc = "setting" => req'[q] = req[q]
        BY <2>1 DEF ResolveInv
    <2>3. resolve'.rows = req[r].cands /\ resolve'.late = late[r]
        BY <2>1
    <2>4. req' = [q \in Requests |-> req'[q]]
        BY <2>1 DEF ResolveInv
    <2> QED
        BY <1>1, <2>1, <2>2, <2>3, <2>4 DEF ResolveInv, StaleResolveExplained, Excused
<1>4. CASE ~ReadCandidates(r) /\ ~SetResolve(r)
    <2>1. late' = late /\ resolve' = resolve
        BY <1>4 DEF GetHit, GetMiss, SetResolveFails, NotFound, ServeCached, Execute, SetResponse,
            LeaveUnstored
    <2>2. /\ req'[r].pc # "setting"
          /\ \A q \in Requests \ {r} : req'[q] = req[q]
          /\ req' = [q \in Requests |-> req'[q]]
        BY <1>4 DEF GetHit, GetMiss, SetResolveFails, NotFound, ServeCached, Execute, SetResponse,
            LeaveUnstored, ResolveInv
    <2>3. \A q \in Requests : req'[q].pc = "setting" => req'[q] = req[q]
        BY <2>2
    <2>4. req' = [q \in Requests |-> req'[q]]
        BY <2>2
    <2> QED
        BY <1>1, <2>1, <2>3, <2>4 DEF ResolveInv, StaleResolveExplained, Excused
<1> QED
    BY <1>2, <1>3, <1>4

\* The steps of an administrator that change the table owe a clear, or are told to
\* nobody.
Writing(a) ==
    \/ CreateInsert(a) \/ UpdateRow(a) \/ DeleteRow(a) \/ ToggleWrite(a)
    \/ InsertSuccessor(a) \/ BulkCommit(a)
    \/ Deprecate(a)

\* A step of an administrator changes the table only when it leaves a clear to do,
\* or is on record as one that clears nothing.
LEMMA AdministratorKeepsResolve ==
    ASSUME ResolveInv, NEW a \in Admins, Administer(a)
    PROVE  ResolveInv'
<1> USE DEF Administer, Proceed, GoOp, Written, dbVars, Idle
<1>1. CASE ClearResolve(a)
    <2>1. /\ resolve' = NoEntry /\ req' = req /\ op' = [op EXCEPT ![a] = Idle]
          /\ late' = [q \in Requests |-> late[q] \/ req[q].pc = "setting"]
        BY <1>1 DEF ClearResolve
    <2> QED
        BY <2>1 DEF ResolveInv, StaleResolveExplained
<1>2. CASE Writing(a)
    <2>1. req' = req /\ late' = late /\ resolve' = resolve
        BY <1>2 DEF Writing, CreateInsert, UpdateRow, DeleteRow, ToggleWrite, InsertSuccessor,
            BulkCommit, Deprecate, NewRev
    <2>2. op = [b \in Admins |-> op[b]]
        BY DEF ResolveInv
    <2>3. Unclear(a)' \/ untold'
        <3>1. CASE Deprecate(a) \/ InsertSuccessor(a) \/ ToggleWrite(a)
            BY <2>2, <3>1 DEF Deprecate, InsertSuccessor, ToggleWrite, Unclear
        <3>2. CASE CreateInsert(a) \/ UpdateRow(a) \/ DeleteRow(a)
            <4>1. /\ untold' = (untold \/ a \in Tools)
                  /\ op' = [op EXCEPT ![a] = IF a \in Tools THEN Idle ELSE [pc |-> "clearing"]]
                BY <3>2 DEF CreateInsert, UpdateRow, DeleteRow
            <4> QED BY <2>2, <4>1 DEF Unclear
        <3>3. CASE BulkCommit(a)
            <4>1. /\ untold' = (untold \/ a \in Tools)
                  /\ op' = [op EXCEPT ![a] = IF a \in Tools THEN Idle
                                            ELSE [pc |-> "invalidating", todo |-> op[a].targets]]
                BY <3>3 DEF BulkCommit
            <4> QED BY <2>2, <4>1 DEF Unclear
        <3> QED BY <1>2, <3>1, <3>2, <3>3 DEF Writing
    <2>4. op' = [b \in Admins |-> op'[b]]
        BY <1>2, <2>2 DEF Writing, CreateInsert, UpdateRow, DeleteRow, ToggleWrite,
            InsertSuccessor, BulkCommit, Deprecate
    <2> QED
        BY <2>1, <2>3, <2>4 DEF ResolveInv, StaleResolveExplained, Excused
<1>3. CASE ~ClearResolve(a) /\ ~Writing(a)
    <2>1. req' = req /\ late' = late /\ resolve' = resolve /\ db' = db
        BY <1>3 DEF Writing, Begin, CreateCheck, InvalidateFirst, ToggleRead, BumpRead, BulkBegin,
            CreateConflict, WriteFails, BumpFails, ClearFails, BulkRow, BulkRollback, BulkInvalidate
    <2>0. op = [b \in Admins |-> op[b]]
        BY DEF ResolveInv
    <2>2. Unclear(a) => uncleared' \/ Unclear(a)'
        <3>1. CASE BulkInvalidate(a)
            BY <2>0, <3>1 DEF BulkInvalidate, Unclear
        <3>2. CASE BumpFails(a)
            BY <2>0, <3>2 DEF BumpFails, Unclear
        <3>3. CASE ClearFails(a)
            BY <3>3 DEF ClearFails
        <3>4. CASE ~BulkInvalidate(a) /\ ~BumpFails(a) /\ ~ClearFails(a)
            BY <1>3, <3>4 DEF Writing, Begin, CreateCheck, InvalidateFirst, ToggleRead, BumpRead,
                BulkBegin, CreateConflict, WriteFails, BulkRow, BulkRollback, Unclear
        <3> QED BY <3>1, <3>2, <3>3, <3>4
    <2>3. (uncleared => uncleared') /\ (untold => untold')
        <3>1. uncleared => uncleared'
            BY <1>3 DEF Writing, Begin, CreateCheck, InvalidateFirst, ToggleRead, BumpRead, BulkBegin,
                CreateConflict, WriteFails, BumpFails, ClearFails, BulkRow, BulkRollback, BulkInvalidate
        <3>2. UNCHANGED untold
            BY <1>3 DEF Writing, Begin, CreateCheck, InvalidateFirst, ToggleRead, BumpRead, BulkBegin,
                CreateConflict, WriteFails, BumpFails, ClearFails, BulkRow, BulkRollback, BulkInvalidate
        <3> QED BY <3>1, <3>2
    <2>4. op' = [b \in Admins |-> op'[b]] /\ \A b \in Admins \ {a} : op'[b] = op[b]
        BY <1>3, <2>0 DEF Writing, Begin, CreateCheck, InvalidateFirst, ToggleRead, BumpRead,
            BulkBegin, CreateConflict, WriteFails, BumpFails, ClearFails, BulkRow, BulkRollback, BulkInvalidate
    <2>5. Excused => Excused'
        BY <2>2, <2>3, <2>4 DEF Excused, Unclear
    <2>6. Candidates' = Candidates
        BY <2>1 DEF Candidates, Candidate, Present
    <2> QED
        BY <2>1, <2>4, <2>5, <2>6 DEF ResolveInv, StaleResolveExplained, Excused
<1> QED
    BY <1>1, <1>2, <1>3

\* Redis and the data touch neither the table nor a handler.
LEMMA BackgroundKeepsResolve ==
    ASSUME ResolveInv, ExpireResolve \/ ChangeData \/ OnDataChange \/ \E e \in Eps : ExpireResponse(e)
    PROVE  ResolveInv'
<1>1. /\ db' = db /\ op' = op /\ req' = req /\ late' = late /\ uncleared' = uncleared
      /\ untold' = untold /\ (resolve' = resolve \/ resolve' = NoEntry)
    BY DEF ExpireResolve, ChangeData, OnDataChange, ExpireResponse, dbVars, adminVars
<1>2. Candidates' = Candidates /\ (Excused' <=> Excused)
    BY <1>1 DEF Candidates, Candidate, Present, Excused, Unclear
<1> QED
    BY <1>1, <1>2 DEF ResolveInv, StaleResolveExplained, Excused

\* Restores and the deletion of the project are on record as changes told to nobody.
LEMMA WholesaleKeepsResolve ==
    ASSUME ResolveInv, DeleteProject \/ RestoreRows
    PROVE  ResolveInv'
<1>1. untold' /\ UNCHANGED <<op, req, late, resolve>>
    BY DEF DeleteProject, RestoreRows, WholesaleWrite
<1> QED
    BY <1>1 DEF ResolveInv, StaleResolveExplained, Excused

\* A resolve entry that differs from the table is about to be cleared, was stored
\* by a request that a clear overtook, is left by a handler that failed before
\* clearing it, or by a writer that clears nothing.
THEOREM StaleEntriesAreExplained == Spec => []StaleResolveExplained
<1>1. Init => ResolveInv
    BY DEF Init, ResolveInv, StaleResolveExplained, Idle
<1>2. ResolveInv /\ [Next]_vars => ResolveInv'
    <2> SUFFICES ASSUME ResolveInv, [Next]_vars PROVE ResolveInv'
        OBVIOUS
    <2>1. CASE UNCHANGED vars
        BY <2>1 DEF vars, dbVars, ResolveInv, StaleResolveExplained, Candidates, Candidate, Present,
            Excused, Unclear
    <2>2. CASE Next
        BY <2>2, RequestKeepsResolve, AdministratorKeepsResolve, BackgroundKeepsResolve,
            WholesaleKeepsResolve DEF Next
    <2> QED BY <2>1, <2>2
<1>3. ResolveInv => StaleResolveExplained
    BY DEF ResolveInv
<1> QED BY <1>1, <1>2, <1>3, PTL DEF Spec

----------------------------------------------------------------------------
(***************************************************************************)
(* Types.  What a suspended handler holds depends on where it is           *)
(* suspended; the sets of ReqState and OpState are told apart by pc.       *)
(***************************************************************************)
\* The rows that an open transaction has changed are there when it commits: they are locked.
HeldOK ==
    \A b \in Admins : op[b].pc = "bulk" =>
        op[b].targets # {} /\ \A e \in op[b].done : Present(e)

TypeInv ==
    /\ HeldOK
    /\ db = [e \in Eps |-> db[e]] /\ resp = [e \in Eps |-> resp[e]]
    /\ op \in [Admins -> OpState] /\ req \in [Requests -> ReqState]
    /\ TypeOK

\* The parts of TypeOK that change together.
RowsOK == db = [e \in Eps |-> db[e]] /\ \A e \in Eps : Present(e) => db[e] \in Row
RespOK == resp = [e \in Eps |-> resp[e]] /\ \A e \in Eps : resp[e] # NoEntry => resp[e] \in [rev : Nat, data : Nat]
ResolveOK == resolve # NoEntry => resolve.rows \subseteq Snapshot /\ resolve.late \in BOOLEAN
CountsOK == rev \in Nat /\ data \in Nat /\ ops \in Nat /\ stale \in BOOLEAN
            /\ uncleared \in BOOLEAN /\ untold \in BOOLEAN
LateOK == late \in [Requests -> BOOLEAN]

\* TypeInv part by part.
LEMMA TypeParts ==
    TypeInv <=> /\ HeldOK /\ RowsOK /\ RespOK /\ ResolveOK /\ CountsOK /\ LateOK
                /\ op \in [Admins -> OpState] /\ req \in [Requests -> ReqState]
BY DEF TypeInv, TypeOK, RowsOK, RespOK, ResolveOK, CountsOK, LateOK

\* What a request holds at each of its awaits.
LEMMA RequestShapes ==
    ASSUME NEW q \in ReqState
    PROVE  /\ q.pc \in {"setting", "selecting"} => q.cands \subseteq Snapshot
           /\ q.pc = "storing" => q.id \in Eps /\ q.result \in [rev : Nat, data : Nat]
BY DEF ReqState

\* What an administrator's handler holds.
LEMMA OperationShapes ==
    ASSUME NEW o \in OpState
    PROVE  /\ o.pc = "creating" => o.version \in Nat
           /\ o.pc \in {"updating", "deleting", "toggling", "deprecating", "succeeding"} => o.id \in Eps
           /\ o.pc = "toggling" => o.active \in BOOLEAN
           /\ o.pc \in {"deprecating", "succeeding"} => o.row \in Row
           /\ o.pc = "bulk" =>
                /\ o.targets \subseteq Eps /\ o.done \subseteq Eps
                /\ \A e \in Eps : [o EXCEPT !.done = @ \cup {e}] \in OpState
           /\ o.pc = "invalidating" =>
                /\ o.todo \subseteq Eps
                /\ \A e \in Eps : o.todo # {e} /\ e \in o.todo => [o EXCEPT !.todo = @ \ {e}] \in OpState
<1>1. /\ o.pc = "creating" => o.version \in Nat
      /\ o.pc \in {"updating", "deleting", "toggling", "deprecating", "succeeding"} => o.id \in Eps
      /\ o.pc = "toggling" => o.active \in BOOLEAN
      /\ o.pc \in {"deprecating", "succeeding"} => o.row \in Row
    BY DEF OpState
<1>2. ASSUME o.pc = "bulk" PROVE o \in [pc : {"bulk"}, targets : SUBSET Eps, done : SUBSET Eps]
    BY <1>2 DEF OpState
<1>3. ASSUME o.pc = "invalidating" PROVE o \in [pc : {"invalidating"}, todo : (SUBSET Eps) \ {{}}]
    BY <1>3 DEF OpState
<1>4. ASSUME o.pc = "bulk", NEW e \in Eps PROVE [o EXCEPT !.done = @ \cup {e}] \in OpState
    <2>1. [o EXCEPT !.done = @ \cup {e}] \in [pc : {"bulk"}, targets : SUBSET Eps, done : SUBSET Eps]
        BY <1>2, <1>4
    <2> QED BY <2>1 DEF OpState
<1>5. ASSUME o.pc = "invalidating", NEW e \in Eps, o.todo # {e}, e \in o.todo
      PROVE  [o EXCEPT !.todo = @ \ {e}] \in OpState
    <2>1. [o EXCEPT !.todo = @ \ {e}] \in [pc : {"invalidating"}, todo : (SUBSET Eps) \ {{}}]
        BY <1>3, <1>5
    <2> QED BY <2>1 DEF OpState
<1> QED
    BY <1>1, <1>2, <1>3, <1>4, <1>5

\* The candidates of a typed table are snapshots.
LEMMA CandidatesTyped == RowsOK => Candidates \subseteq Snapshot
BY DEF RowsOK, Candidates, Candidate, Snapshot, Row

\* The table and the caches are empty of anything but the first rows.
LEMMA TypeInit == Init => TypeInv
<1> SUFFICES ASSUME Init PROVE TypeInv
    OBVIOUS
<1>1. RowsOK
    <2>1. db = [e \in Eps |-> db[e]]
        BY DEF Init
    <2>2. \A e \in Eps : \/ db[e] = [version |-> 1, rev |-> 0, active |-> TRUE, live |-> TRUE]
                         \/ db[e] = [version |-> 2, rev |-> 0, active |-> TRUE, live |-> TRUE]
                         \/ db[e] = Absent
        BY DEF Init
    <2>3. /\ [version |-> 1, rev |-> 0, active |-> TRUE, live |-> TRUE] \in Row
          /\ [version |-> 2, rev |-> 0, active |-> TRUE, live |-> TRUE] \in Row
        BY DEF Row
    <2> QED BY <2>1, <2>2, <2>3 DEF RowsOK, Present
<1>2. RespOK /\ ResolveOK /\ CountsOK /\ LateOK
    BY DEF Init, RespOK, ResolveOK, CountsOK, LateOK
<1>3. Idle \in OpState /\ Idle \in ReqState
    BY DEF Idle, OpState, ReqState
<1>4. op \in [Admins -> OpState] /\ req \in [Requests -> ReqState]
    BY <1>3 DEF Init
<1>5. HeldOK
    BY DEF Init, HeldOK, Idle
<1> QED
    BY <1>1, <1>2, <1>4, <1>5, TypeParts

\* A step of a request stores what it holds.
LEMMA RequestKeepsTypes ==
    ASSUME TypeInv, NEW r \in Requests, Serve(r)
    PROVE  TypeInv'
<1>1. /\ HeldOK /\ RowsOK /\ RespOK /\ ResolveOK /\ CountsOK /\ LateOK
      /\ op \in [Admins -> OpState] /\ req \in [Requests -> ReqState]
    BY TypeParts
<1>2. /\ UNCHANGED <<db, rev, data, op, uncleared, untold, ops, stale>>
    BY DEF Serve, ServeStep, GetHit, GetMiss, ReadCandidates, SetResolve, SetResolveFails, NotFound, ServeCached,
       Execute, SetResponse, LeaveUnstored, dbVars, adminVars
<1>3. HeldOK' /\ RowsOK' /\ CountsOK' /\ op' \in [Admins -> OpState]
    BY <1>1, <1>2 DEF HeldOK, RowsOK, CountsOK, Present
<1>4. /\ req[r].pc \in {"setting", "selecting"} => req[r].cands \subseteq Snapshot
      /\ req[r].pc = "storing" => req[r].id \in Eps /\ req[r].result \in [rev : Nat, data : Nat]
    BY <1>1, RequestShapes
<1>5. /\ Idle \in ReqState /\ [pc |-> "reading"] \in ReqState
      /\ \A c \in SUBSET Snapshot : [pc |-> "setting", cands |-> c] \in ReqState
                                    /\ [pc |-> "selecting", cands |-> c] \in ReqState
      /\ \A e \in Eps, x \in [rev : Nat, data : Nat] : [pc |-> "storing", id |-> e, result |-> x] \in ReqState
    BY DEF Idle, ReqState
<1>6. LateOK' /\ ResolveOK'
    <2>1. CASE ReadCandidates(r)
        BY <1>1, <2>1 DEF ReadCandidates, LateOK, ResolveOK
    <2>2. CASE SetResolve(r)
        <3>1. late[r] \in BOOLEAN
            BY <1>1 DEF LateOK
        <3> QED BY <1>1, <1>4, <2>2, <3>1 DEF SetResolve, LateOK, ResolveOK
    <2>3. CASE ~ReadCandidates(r) /\ ~SetResolve(r)
        BY <1>1, <2>3 DEF Serve, ServeStep, GetHit, GetMiss, SetResolveFails, NotFound, ServeCached,
           Execute, SetResponse, LeaveUnstored, LateOK, ResolveOK
    <2> QED BY <2>1, <2>2, <2>3
<1>7. RespOK'
    <2>1. CASE SetResponse(r)
        BY <1>1, <1>4, <2>1 DEF SetResponse, RespOK
    <2>2. CASE ~SetResponse(r)
        BY <1>1, <2>2 DEF Serve, ServeStep, GetHit, GetMiss, ReadCandidates, SetResolve, SetResolveFails, NotFound,
           ServeCached, Execute, LeaveUnstored, RespOK
    <2> QED BY <2>1, <2>2
<1>8. req' \in [Requests -> ReqState]
    <2>1. CASE GetHit(r)
        BY <1>1, <1>5, <2>1 DEF GetHit, GoReq, ResolveOK
    <2>2. CASE GetMiss(r)
        BY <1>1, <1>5, <2>2 DEF GetMiss, GoReq
    <2>3. CASE ReadCandidates(r)
        BY <1>1, <1>5, <2>3, CandidatesTyped DEF ReadCandidates, GoReq
    <2>4. CASE SetResolve(r) \/ SetResolveFails(r)
        BY <1>1, <1>4, <1>5, <2>4 DEF SetResolve, SetResolveFails, GoReq
    <2>5. CASE NotFound(r) \/ ServeCached(r) \/ SetResponse(r) \/ LeaveUnstored(r)
        BY <1>1, <1>5, <2>5 DEF NotFound, ServeCached, SetResponse, LeaveUnstored, GoReq
    <2>6. CASE Execute(r)
        <3>1. PICK c \in req[r].cands :
                req' = [req EXCEPT ![r] = [pc |-> "storing", id |-> c.id, result |-> [rev |-> c.rev, data |-> data]]]
            BY <2>6 DEF Execute, GoReq
        <3>2. c \in Snapshot
            BY <1>4, <2>6 DEF Execute
        <3>3. c.id \in Eps /\ [rev |-> c.rev, data |-> data] \in [rev : Nat, data : Nat]
            BY <1>1, <3>2 DEF Snapshot, CountsOK
        <3> QED BY <1>1, <1>5, <3>1, <3>3
    <2> QED BY <2>1, <2>2, <2>3, <2>4, <2>5, <2>6 DEF Serve, ServeStep
<1> QED
    <2>1. (HeldOK /\ RowsOK /\ RespOK /\ ResolveOK /\ CountsOK /\ LateOK)'
        BY <1>3, <1>6, <1>7
    <2> QED BY <1>3, <1>8, <2>1 DEF TypeInv, TypeOK, RowsOK, RespOK, ResolveOK, CountsOK, LateOK

\* A step of an administrator writes rows, and is suspended with what its next step needs.
LEMMA AdministratorKeepsTypes ==
    ASSUME TypeInv, NEW a \in Admins, Administer(a)
    PROVE  TypeInv'
<1>1. /\ HeldOK /\ RowsOK /\ RespOK /\ ResolveOK /\ CountsOK /\ LateOK
      /\ op \in [Admins -> OpState] /\ req \in [Requests -> ReqState]
    BY TypeParts
<1> DEFINE o == op[a]
<1>2. o \in OpState
    BY <1>1
<1>3. /\ o.pc = "creating" => o.version \in Nat
      /\ o.pc \in {"updating", "deleting", "toggling", "deprecating", "succeeding"} => o.id \in Eps
      /\ o.pc = "toggling" => o.active \in BOOLEAN
      /\ o.pc \in {"deprecating", "succeeding"} => o.row \in Row
      /\ o.pc = "bulk" =>
           /\ o.targets \subseteq Eps /\ o.done \subseteq Eps
           /\ \A e \in Eps : [o EXCEPT !.done = @ \cup {e}] \in OpState
      /\ o.pc = "invalidating" =>
           /\ o.todo \subseteq Eps
           /\ \A e \in Eps : o.todo # {e} /\ e \in o.todo => [o EXCEPT !.todo = @ \ {e}] \in OpState
    BY <1>2, OperationShapes
<1>4. /\ Idle \in OpState /\ [pc |-> "clearing"] \in OpState
      /\ \A v \in Nat : [pc |-> "creating", version |-> v] \in OpState
      /\ \A e \in Eps, n \in {"updating", "deleting"} : [pc |-> n, id |-> e] \in OpState
      /\ \A e \in Eps, b \in BOOLEAN : [pc |-> "toggling", id |-> e, active |-> b] \in OpState
      /\ \A e \in Eps, w \in Row : /\ [pc |-> "deprecating", id |-> e, row |-> w] \in OpState
                                   /\ [pc |-> "succeeding", id |-> e, row |-> w] \in OpState
      /\ \A t \in SUBSET Eps : [pc |-> "bulk", targets |-> t, done |-> {}] \in OpState
      /\ \A t \in SUBSET Eps : t # {} => [pc |-> "invalidating", todo |-> t] \in OpState
    <2>1. Idle \in OpState /\ [pc |-> "clearing"] \in OpState
        BY DEF Idle, OpState
    <2>2. \A v \in Nat : [pc |-> "creating", version |-> v] \in OpState
        BY DEF OpState
    <2>3. \A e \in Eps, n \in {"updating", "deleting"} : [pc |-> n, id |-> e] \in OpState
        BY DEF OpState
    <2>4. \A e \in Eps, b \in BOOLEAN : [pc |-> "toggling", id |-> e, active |-> b] \in OpState
        BY DEF OpState
    <2>5. \A e \in Eps, w \in Row : /\ [pc |-> "deprecating", id |-> e, row |-> w] \in OpState
                                    /\ [pc |-> "succeeding", id |-> e, row |-> w] \in OpState
        BY DEF OpState
    <2>6. \A t \in SUBSET Eps : [pc |-> "bulk", targets |-> t, done |-> {}] \in OpState
        BY DEF OpState
    <2>7. \A t \in SUBSET Eps : t # {} => [pc |-> "invalidating", todo |-> t] \in OpState
        BY DEF OpState
    <2> QED BY <2>1, <2>2, <2>3, <2>4, <2>5, <2>6, <2>7
<1> HIDE DEF o
<1>5. UNCHANGED <<req, data, stale>>
    BY DEF Administer, Proceed, ClearResolve, ClearFails, CreateInsert, CreateConflict, UpdateRow, DeleteRow, WriteFails,
       ToggleWrite, Deprecate, InsertSuccessor, BumpFails, BulkRow, BulkCommit, BulkRollback, BulkInvalidate,
       CreateCheck, InvalidateFirst, ToggleRead, BumpRead, BulkBegin
<1>6. LateOK' /\ ResolveOK'
    <2>1. CASE ClearResolve(a)
        BY <1>1, <2>1 DEF ClearResolve, LateOK, ResolveOK
    <2>2. CASE ~ClearResolve(a)
        <3>1. UNCHANGED <<late, resolve>>
            BY <2>2 DEF Administer, Proceed, ClearFails, CreateInsert, CreateConflict, UpdateRow, DeleteRow, WriteFails,
               ToggleWrite, Deprecate, InsertSuccessor, BumpFails, BulkRow, BulkCommit, BulkRollback, BulkInvalidate,
               CreateCheck, InvalidateFirst, ToggleRead, BumpRead, BulkBegin
        <3> QED BY <1>1, <3>1 DEF LateOK, ResolveOK
    <2> QED BY <2>1, <2>2
<1>7. CountsOK'
    <2>1. rev' \in Nat
        BY <1>1 DEF CountsOK, Administer, Proceed, ClearResolve, ClearFails, CreateInsert, CreateConflict, UpdateRow,
           DeleteRow, WriteFails, ToggleWrite, Deprecate, InsertSuccessor, BumpFails, BulkRow, BulkCommit, BulkRollback,
           BulkInvalidate, CreateCheck, InvalidateFirst, ToggleRead, BumpRead, BulkBegin, NewRev, dbVars
    <2>2. ops' \in Nat
        BY <1>1 DEF CountsOK, Administer, Proceed, ClearResolve, ClearFails, CreateInsert, CreateConflict, UpdateRow,
           DeleteRow, WriteFails, ToggleWrite, Deprecate, InsertSuccessor, BumpFails, BulkRow, BulkCommit, BulkRollback,
           BulkInvalidate, CreateCheck, InvalidateFirst, ToggleRead, BumpRead, BulkBegin, Begin
    <2>3. uncleared' \in BOOLEAN /\ untold' \in BOOLEAN
        BY <1>1 DEF CountsOK, Administer, Proceed, ClearResolve, ClearFails, CreateInsert, CreateConflict, UpdateRow,
           DeleteRow, WriteFails, ToggleWrite, Deprecate, InsertSuccessor, BumpFails, BulkRow, BulkCommit, BulkRollback,
           BulkInvalidate, CreateCheck, InvalidateFirst, ToggleRead, BumpRead, BulkBegin, Written
    <2> QED BY <1>1, <1>5, <2>1, <2>2, <2>3 DEF CountsOK
<1>8. RespOK'
    <2>1. CASE InvalidateFirst(a)
        BY <1>1, <2>1 DEF InvalidateFirst, RespOK
    <2>2. CASE BulkInvalidate(a)
        BY <1>1, <2>2 DEF BulkInvalidate, RespOK
    <2>3. CASE ~InvalidateFirst(a) /\ ~BulkInvalidate(a)
        <3>1. resp' = resp
            BY <2>3 DEF Administer, Proceed, ClearResolve, ClearFails, CreateInsert, CreateConflict, UpdateRow, DeleteRow,
               WriteFails, ToggleWrite, Deprecate, InsertSuccessor, BumpFails, BulkRow, BulkCommit, BulkRollback,
               CreateCheck, ToggleRead, BumpRead, BulkBegin
        <3> QED BY <1>1, <3>1 DEF RespOK
    <2> QED BY <2>1, <2>2, <2>3
<1>9. \A e \in Eps : Present(e) => db[e] \in Row
    BY <1>1 DEF RowsOK
<1>10. /\ RowsOK'
       /\ \A e \in Eps : Present(e) /\ ~(DeleteRow(a) /\ e = o.id) => Present(e)'
    <2> USE DEF RowsOK, Present
    <2>9. Absent \notin Row /\ Deleted \notin Row
        BY ConstantsAssumption DEF Row
    <2>0. rev + 1 \in Nat /\ rev \in Nat
        BY <1>1 DEF CountsOK
    <2>1. CASE CreateInsert(a)
        <3>1. PICK e \in Eps : db' = [db EXCEPT ![e] = [version |-> o.version, rev |-> rev', active |-> TRUE, live |-> TRUE]]
            BY <2>1 DEF CreateInsert, Insert, o
        <3>2. [version |-> o.version, rev |-> rev', active |-> TRUE, live |-> TRUE] \in Row
            BY <1>3, <2>0, <2>1 DEF CreateInsert, NewRev, Row, o
        <3> QED BY <1>1, <2>9, <3>1, <3>2
    <2>2. CASE UpdateRow(a)
        <3>1. PICK on \in BOOLEAN : db' = [db EXCEPT ![o.id].rev = rev', ![o.id].active = on]
            BY <2>2 DEF UpdateRow, o
        <3>2. o.id \in Eps /\ db[o.id] \in Row /\ rev' \in Nat
            BY <1>3, <1>9, <2>0, <2>2 DEF UpdateRow, NewRev, o
        <3>3. /\ db' = [e \in Eps |-> db'[e]] /\ db'[o.id] \in Row
              /\ \A e \in Eps \ {o.id} : db'[e] = db[e]
            BY <1>1, <3>1, <3>2 DEF Row
        <3> QED BY <1>1, <2>9, <3>2, <3>3
    <2>3. CASE DeleteRow(a)
        BY <1>1, <2>3 DEF DeleteRow, o
    <2>4. CASE ToggleWrite(a)
        <3>1. db' = [db EXCEPT ![o.id].active = ~o.active]
            BY <2>4 DEF ToggleWrite, o
        <3>2. o.id \in Eps /\ db[o.id] \in Row /\ o.active \in BOOLEAN
            BY <1>3, <1>9, <2>4 DEF ToggleWrite, o
        <3>3. /\ db' = [e \in Eps |-> db'[e]] /\ db'[o.id] \in Row
              /\ \A e \in Eps \ {o.id} : db'[e] = db[e]
            BY <1>1, <3>1, <3>2 DEF Row
        <3> QED BY <1>1, <2>9, <3>2, <3>3
    <2>5. CASE Deprecate(a)
        <3>1. \/ db' = db
              \/ Present(o.id) /\ db' = [db EXCEPT ![o.id].live = FALSE]
            BY <2>5 DEF Deprecate, o
        <3>2. o.id \in Eps
            BY <1>3, <2>5 DEF Deprecate, o
        <3>3. CASE Present(o.id) /\ db' = [db EXCEPT ![o.id].live = FALSE]
            <4>1. db[o.id] \in Row
                BY <1>9, <3>2, <3>3
            <4>2. /\ db' = [e \in Eps |-> db'[e]] /\ db'[o.id] \in Row
                  /\ \A e \in Eps \ {o.id} : db'[e] = db[e]
                BY <1>1, <3>2, <3>3, <4>1 DEF Row
            <4> QED BY <1>1, <2>9, <3>2, <4>2
        <3> QED BY <1>1, <2>9, <3>1, <3>3
    <2>6. CASE InsertSuccessor(a)
        <3>1. o.row \in Row
            BY <1>3, <2>6 DEF InsertSuccessor, o
        <3>2. \/ db' = db
              \/ \E e \in Eps : db' = [db EXCEPT ![e] = [version |-> o.row.version + 1, rev |-> o.row.rev, active |-> TRUE, live |-> TRUE]]
            BY <2>6 DEF InsertSuccessor, Insert, o
        <3>3. [version |-> o.row.version + 1, rev |-> o.row.rev, active |-> TRUE, live |-> TRUE] \in Row
            BY <3>1 DEF Row
        <3> QED BY <1>1, <2>9, <3>2, <3>3
    <2>7. CASE BulkCommit(a)
        <3>1. /\ db' = [e \in Eps |-> IF e \in o.targets THEN [db[e] EXCEPT !.rev = rev'] ELSE db[e]]
              /\ rev' \in Nat
            BY <2>0, <2>7 DEF BulkCommit, NewRev, o
        <3>2. ASSUME NEW e \in Eps, Present(e)' PROVE db'[e] \in Row
            <4>1. CASE e \in o.targets /\ Present(e)
                <5>1. db[e] \in Row
                    BY <1>9, <4>1
                <5> QED BY <3>1, <4>1, <5>1 DEF Row
            <4>2. CASE e \notin o.targets
                BY <1>9, <3>1, <3>2, <4>2
            <4>3. e \in o.targets => Present(e)
                BY <1>1, <2>7 DEF HeldOK, BulkCommit, o
            <4> QED BY <4>1, <4>2, <4>3
        <3>3. \A e \in Eps : Present(e) => Present(e)'
            <4> SUFFICES ASSUME NEW e \in Eps, Present(e) PROVE Present(e)'
                OBVIOUS
            <4>1. db'[e] \in Row
                BY <1>9, <3>1 DEF Row
            <4> QED BY <2>9, <4>1
        <3> QED BY <3>1, <3>2, <3>3
    <2>8. CASE ~Writing(a)
        <3>1. db' = db
            BY <2>8 DEF Writing, Administer, Proceed, ClearResolve, ClearFails, CreateConflict, WriteFails, BumpFails,
               BulkRow, BulkRollback, BulkInvalidate, CreateCheck, InvalidateFirst, ToggleRead, BumpRead, BulkBegin, dbVars
        <3> QED BY <1>1, <2>9, <3>1
    <2> QED BY <2>1, <2>2, <2>3, <2>4, <2>5, <2>6, <2>7, <2>8 DEF Writing
<1>11. op' \in [Admins -> OpState]
    <2>1. \A s \in OpState : op' = [op EXCEPT ![a] = s] => op' \in [Admins -> OpState]
        BY <1>1
    <2>2. CASE \/ ClearResolve(a) \/ ClearFails(a) \/ CreateConflict(a) \/ WriteFails(a) \/ BumpFails(a) \/ BulkRollback(a)
        BY <1>4, <2>1, <2>2 DEF ClearResolve, ClearFails, CreateConflict, WriteFails, BumpFails, BulkRollback, GoOp
    <2>3. CASE CreateInsert(a) \/ UpdateRow(a) \/ DeleteRow(a) \/ ToggleWrite(a) \/ InsertSuccessor(a)
        BY <1>4, <2>1, <2>3 DEF CreateInsert, UpdateRow, DeleteRow, ToggleWrite, InsertSuccessor, GoOp, Written
    <2>4. CASE CreateCheck(a)
        <3>1. PICK v \in 1 .. MaxVersion : op' = [op EXCEPT ![a] = [pc |-> "creating", version |-> v]]
            BY <2>4 DEF CreateCheck, GoOp
        <3>2. v \in Nat
            OBVIOUS
        <3> QED BY <1>4, <2>1, <3>1, <3>2
    <2>5. CASE InvalidateFirst(a)
        BY <1>4, <2>1, <2>5 DEF InvalidateFirst, GoOp
    <2>6. CASE ToggleRead(a)
        <3>1. PICK e \in Eps : Present(e) /\ op' = [op EXCEPT ![a] = [pc |-> "toggling", id |-> e, active |-> db[e].active]]
            BY <2>6 DEF ToggleRead, GoOp
        <3>2. db[e].active \in BOOLEAN
            BY <1>9, <3>1 DEF Row
        <3> QED BY <1>4, <2>1, <3>1, <3>2
    <2>7. CASE BumpRead(a)
        BY <1>4, <1>9, <2>1, <2>7 DEF BumpRead, GoOp
    <2>8. CASE Deprecate(a)
        BY <1>3, <1>4, <2>1, <2>8 DEF Deprecate, GoOp, o
    <2>9. CASE BulkBegin(a)
        BY <1>4, <2>1, <2>9 DEF BulkBegin, GoOp
    <2>10. CASE BulkRow(a)
        BY <1>3, <2>1, <2>10 DEF BulkRow, GoOp, o
    <2>11. CASE BulkCommit(a)
        <3>1. /\ o.targets \subseteq Eps /\ o.targets # {}
              /\ op' = [op EXCEPT ![a] = IF a \in Tools THEN Idle ELSE [pc |-> "invalidating", todo |-> o.targets]]
            BY <1>1, <1>3, <2>11 DEF BulkCommit, GoOp, Written, HeldOK, o
        <3> QED BY <1>4, <2>1, <3>1
    <2>12. CASE BulkInvalidate(a)
        BY <1>3, <1>4, <2>1, <2>12 DEF BulkInvalidate, GoOp, o
    <2> QED BY <2>2, <2>3, <2>4, <2>5, <2>6, <2>7, <2>8, <2>9, <2>10, <2>11, <2>12 DEF Administer, Proceed
<1>12. HeldOK'
    <2> SUFFICES ASSUME NEW b \in Admins, op'[b].pc = "bulk"
                 PROVE  op'[b].targets # {} /\ \A e \in op'[b].done : Present(e)'
        BY DEF HeldOK
    <2>1. CASE BulkBegin(a) /\ b = a
        BY <1>1, <2>1 DEF BulkBegin, GoOp
    <2>2. CASE BulkRow(a) /\ b = a
        <3>1. PICK e \in o.targets \ o.done : Present(e) /\ op' = [op EXCEPT ![a] = [o EXCEPT !.done = @ \cup {e}]] /\ db' = db
            BY <2>2 DEF BulkRow, GoOp, dbVars, o
        <3>2. o.pc = "bulk" /\ o \in [pc : {"bulk"}, targets : SUBSET Eps, done : SUBSET Eps]
            BY <1>2, <2>2 DEF BulkRow, OpState, o
        <3>3. op'[a].targets = o.targets /\ op'[a].done = o.done \cup {e}
            BY <1>1, <3>1, <3>2
        <3> QED BY <1>1, <2>2, <3>1, <3>2, <3>3 DEF HeldOK, Present, o
    <2>3. CASE b # a
        <3>1. op'[b] = op[b]
            BY <1>1, <2>3 DEF Administer, Proceed, ClearResolve, ClearFails, CreateInsert, CreateConflict, UpdateRow,
               DeleteRow, WriteFails, ToggleWrite, Deprecate, InsertSuccessor, BumpFails, BulkRow, BulkCommit, BulkRollback,
               BulkInvalidate, CreateCheck, InvalidateFirst, ToggleRead, BumpRead, BulkBegin, GoOp, Written
        <3>2. op[b].targets # {} /\ \A e \in op[b].done : Present(e)
            BY <1>1, <3>1 DEF HeldOK
        <3>3. op[b].done \subseteq Eps
            BY <1>1, <3>1, OperationShapes
        <3>4. ASSUME NEW e \in op[b].done PROVE ~(DeleteRow(a) /\ e = o.id)
            BY <2>3, <3>1, <3>4 DEF DeleteRow, Locked, o
        <3> QED BY <1>10, <3>1, <3>2, <3>3, <3>4
    <2>4. CASE b = a /\ ~BulkBegin(a) /\ ~BulkRow(a)
        <3>1. \A x : op' = [op EXCEPT ![a] = x] => op'[a] = x
            BY <1>1
        <3>2. CASE \/ ClearResolve(a) \/ ClearFails(a) \/ CreateConflict(a) \/ WriteFails(a) \/ BumpFails(a) \/ BulkRollback(a)
            BY <2>4, <3>1, <3>2 DEF ClearResolve, ClearFails, CreateConflict, WriteFails, BumpFails, BulkRollback, GoOp, Idle
        <3>3. CASE CreateInsert(a) \/ UpdateRow(a) \/ DeleteRow(a) \/ ToggleWrite(a) \/ InsertSuccessor(a) \/ Deprecate(a)
            BY <2>4, <3>1, <3>3 DEF CreateInsert, UpdateRow, DeleteRow, ToggleWrite, InsertSuccessor, Deprecate, GoOp, Written, Idle
        <3>4. CASE CreateCheck(a) \/ InvalidateFirst(a) \/ ToggleRead(a) \/ BumpRead(a) \/ BulkCommit(a)
            BY <2>4, <3>1, <3>4 DEF CreateCheck, InvalidateFirst, ToggleRead, BumpRead, BulkCommit, GoOp, Written, Idle
        <3>5. CASE BulkInvalidate(a)
            <4>1. PICK e \in o.todo : op' = [op EXCEPT ![a] = IF o.todo = {e} THEN [pc |-> "clearing"] ELSE [o EXCEPT !.todo = @ \ {e}]]
                BY <3>5 DEF BulkInvalidate, GoOp, o
            <4>2. o \in [pc : {"invalidating"}, todo : (SUBSET Eps) \ {{}}]
                BY <1>2, <3>5 DEF BulkInvalidate, OpState, o
            <4>3. [o EXCEPT !.todo = @ \ {e}].pc = "invalidating"
                BY <4>2
            <4> QED BY <2>4, <3>1, <4>1, <4>3
        <3> QED BY <2>4, <3>2, <3>3, <3>4, <3>5 DEF Administer, Proceed
    <2> QED BY <2>1, <2>2, <2>3, <2>4
<1> QED
    BY <1>1, <1>5, <1>6, <1>7, <1>8, <1>10, <1>11, <1>12 DEF TypeInv, TypeOK, RowsOK, RespOK, ResolveOK, CountsOK, LateOK

\* Redis and the data write neither the table nor a handler's state.
LEMMA BackgroundKeepsTypes ==
    ASSUME TypeInv, ExpireResolve \/ ChangeData \/ OnDataChange \/ \E e \in Eps : ExpireResponse(e)
    PROVE  TypeInv'
<1>1. /\ HeldOK /\ RowsOK /\ RespOK /\ ResolveOK /\ CountsOK /\ LateOK
      /\ op \in [Admins -> OpState] /\ req \in [Requests -> ReqState]
    BY TypeParts
<1>2. UNCHANGED <<db, rev, op, req, late, uncleared, untold, ops>>
    BY DEF ExpireResolve, ChangeData, OnDataChange, ExpireResponse, dbVars, adminVars
<1>3. HeldOK' /\ RowsOK' /\ LateOK'
    BY <1>1, <1>2 DEF HeldOK, RowsOK, LateOK, Present
<1>4. CountsOK'
    <2>1. data' \in {data, data + 1} /\ stale' \in {stale, TRUE, FALSE}
        BY DEF ExpireResolve, ChangeData, OnDataChange, ExpireResponse, dbVars, adminVars
    <2>2. data + 1 \in Nat
        BY <1>1 DEF CountsOK
    <2> QED BY <1>1, <1>2, <2>1, <2>2 DEF CountsOK
<1>5. ResolveOK'
    BY <1>1 DEF ResolveOK, ExpireResolve, ChangeData, OnDataChange, ExpireResponse
<1>6. RespOK'
    <2>1. CASE OnDataChange
        BY <1>1, <2>1 DEF OnDataChange, RespOK
    <2>2. CASE \E e \in Eps : ExpireResponse(e)
        BY <1>1, <2>2 DEF ExpireResponse, RespOK
    <2>3. CASE ExpireResolve \/ ChangeData
        BY <1>1, <2>3 DEF ExpireResolve, ChangeData, RespOK
    <2> QED BY <2>1, <2>2, <2>3
<1> QED
    BY <1>1, <1>2, <1>3, <1>4, <1>5, <1>6 DEF TypeInv, TypeOK, RowsOK, RespOK, ResolveOK, CountsOK, LateOK

\* Restores and the deletion of the project wait for the rows that are locked.
LEMMA WholesaleKeepsTypes ==
    ASSUME TypeInv, DeleteProject \/ RestoreRows
    PROVE  TypeInv'
<1>1. /\ HeldOK /\ RowsOK /\ RespOK /\ ResolveOK /\ CountsOK /\ LateOK
      /\ op \in [Admins -> OpState] /\ req \in [Requests -> ReqState]
    BY TypeParts
<1>2. /\ UNCHANGED <<data, resolve, resp, req, late, stale, op, uncleared>>
      /\ ops' = ops + 1 /\ untold' = TRUE /\ rev' \in {rev, rev + 1}
      /\ \A e \in Eps : ~Locked(Admins, e)
    BY DEF DeleteProject, RestoreRows, WholesaleWrite, NewRev
<1>3. CountsOK' /\ LateOK' /\ ResolveOK' /\ RespOK'
    BY <1>1, <1>2 DEF CountsOK, LateOK, ResolveOK, RespOK
<1>4. HeldOK'
    <2>1. \A b \in Admins : op[b].pc = "bulk" => op[b].done \subseteq Eps
        BY <1>1, OperationShapes
    <2> QED BY <1>1, <1>2, <2>1 DEF HeldOK, Locked
<1>5. RowsOK'
    <2> USE DEF RowsOK, Present
    <2>1. CASE DeleteProject
        BY <1>1, <2>1 DEF DeleteProject
    <2>2. CASE RestoreRows
        <3>1. PICK back \in SUBSET Eps, v \in 1..MaxVersion :
                db' = [e \in Eps |->
                        IF e \in back THEN [version |-> v, rev |-> rev', active |-> TRUE, live |-> TRUE]
                        ELSE IF Present(e) THEN Deleted ELSE db[e]]
            BY <2>2 DEF RestoreRows
        <3>2. [version |-> v, rev |-> rev', active |-> TRUE, live |-> TRUE] \in Row
            BY <1>1, <1>2 DEF CountsOK, Row
        <3> QED BY <1>1, <3>1, <3>2
    <2> QED BY <2>1, <2>2
<1> QED
    <2>1. op' \in [Admins -> OpState] /\ req' \in [Requests -> ReqState]
        BY <1>1, <1>2
    <2> QED
        BY <1>3, <1>4, <1>5, <2>1 DEF TypeInv, TypeOK, RowsOK, RespOK, ResolveOK, CountsOK, LateOK

\* The table, the caches and the suspended handlers have their types: above all, a row that a
\* bulk change commits is still there, since nobody deletes a row it has locked.
THEOREM CacheTypeCorrect == Spec => []TypeOK
<1>1. TypeInv /\ [Next]_vars => TypeInv'
    <2> SUFFICES ASSUME TypeInv, [Next]_vars PROVE TypeInv'
        OBVIOUS
    <2>1. CASE UNCHANGED vars
        BY <2>1 DEF vars, dbVars, TypeInv, HeldOK, TypeOK, Present
    <2> QED BY <2>1, RequestKeepsTypes, AdministratorKeepsTypes, BackgroundKeepsTypes,
            WholesaleKeepsTypes DEF Next
<1>2. TypeInv => TypeOK
    BY DEF TypeInv
<1> QED BY <1>1, <1>2, TypeInit, PTL DEF Spec

----------------------------------------------------------------------------
(***************************************************************************)
(* The transactions: their types, what a statement answered "ok" means,    *)
(* the accounting of connections, and that they implement AtomicBatches.   *)
(***************************************************************************)
Step(t) ==
    \/ BeginTxn(t) \/ Open(t) \/ BeginFails(t) \/ CommitCall(t) \/ RollbackCall(t)
    \/ RollbackEnded(t) \/ Timeout(t) \/ Finish(t) \/ Disconnect(t)

\* Type correctness of the transaction manager.
THEOREM TypeCorrect == TxnSpec => []TxnTypeOK
<1>1. TxnInit => TxnTypeOK
    BY DEF TxnInit, TxnTypeOK
<1>2. TxnTypeOK /\ [TxnNext]_txnVars => TxnTypeOK'
    <2> SUFFICES ASSUME TxnTypeOK, [TxnNext]_txnVars PROVE TxnTypeOK'
        OBVIOUS
    <2> USE DEF TxnTypeOK, callVars
    <2>1. CASE UNCHANGED txnVars
        BY <2>1 DEF txnVars
    <2>2. ASSUME NEW t \in Txns, Step(t) PROVE TxnTypeOK'
        <3>1. CASE BeginTxn(t) \/ Open(t) \/ BeginFails(t) \/ Disconnect(t)
            BY <3>1 DEF BeginTxn, Open, BeginFails, Disconnect
        <3>2. CASE CommitCall(t) \/ RollbackCall(t) \/ RollbackEnded(t)
            BY <3>2 DEF CommitCall, RollbackCall, RollbackEnded, EndEntry, Answer
        <3>5. CASE Timeout(t)
            BY <3>5 DEF Timeout, EndEntry
        <3>3. CASE Commit(t)
            BY <3>3 DEF Commit, Release
        <3>4. CASE Rollback(t) \/ Discard(t)
            BY <3>4 DEF Rollback, Discard, Release
        <3> QED BY <2>2, <3>1, <3>2, <3>3, <3>4, <3>5 DEF Step, Finish
    <2>3. ASSUME NEW c \in Calls, NEW t \in Txns, GetTrx(c, t) PROVE TxnTypeOK'
        BY <2>3 DEF GetTrx
    <2>4. ASSUME NEW c \in Calls, Send(c) \/ ValidationFails(c) PROVE TxnTypeOK'
        BY <2>4 DEF Send, ValidationFails
    <2>5. ASSUME NEW c \in Calls, ExecuteInTxn(c) PROVE TxnTypeOK'
        BY <2>5 DEF ExecuteInTxn
    <2>6. ASSUME NEW c \in Calls, StatementFails(c) PROVE TxnTypeOK'
        BY <2>6 DEF StatementFails
    <2> QED BY <2>1, <2>2, <2>3, <2>4, <2>5, <2>6 DEF TxnNext, Step, Statement
<1> QED BY <1>1, <1>2, PTL DEF TxnSpec

----------------------------------------------------------------------------
(***************************************************************************)
(* Lifecycles.  The entry, the signal, the session and the connection of a *)
(* transaction move together: a transaction that has not been opened has   *)
(* no session, the signal is settled when the entry leaves the map and not *)
(* before, and every session that runs has its connection.                 *)
(***************************************************************************)
LifeInv ==
    /\ \A t \in Txns : entry[t] \in {"none", "acquiring", "refused"} <=> pg[t] = "none"
    /\ \A t \in Txns : entry[t] = "ended" <=> signal[t] # "pending"
    /\ \A t \in held : entry[t] \in {"open", "ended"}
    /\ \A t \in Txns : pg[t] \in {"active", "failed"} => t \in held
    /\ \A t \in Txns : answers[t] # {} => entry[t] = "ended"
    /\ AnswerIsTheSignal

\* One step keeps LifeInv.
LEMMA NextKeepsLife ==
    ASSUME TxnTypeOK, LifeInv, [TxnNext]_txnVars
    PROVE  LifeInv'
<1> USE DEF TxnTypeOK, LifeInv, AnswerIsTheSignal, callVars
<1>1. CASE UNCHANGED txnVars
    BY <1>1 DEF txnVars
<1>2. ASSUME NEW t \in Txns, Step(t) PROVE LifeInv'
    <2>1. CASE BeginTxn(t) \/ BeginFails(t)
        BY <2>1 DEF BeginTxn, BeginFails
    <2>2. CASE Open(t)
        BY <2>2 DEF Open
    <2>3. CASE CommitCall(t)
        BY <2>3 DEF CommitCall, EndEntry, Answer
    <2>4. CASE RollbackCall(t)
        BY <2>4 DEF RollbackCall, EndEntry, Answer
    <2>9. CASE RollbackEnded(t)
        BY <2>9 DEF RollbackEnded, Answer
    <2>10. CASE Timeout(t)
        BY <2>10 DEF Timeout, EndEntry
    <2>5. CASE Commit(t)
        BY <2>5 DEF Commit, Release
    <2>6. CASE Rollback(t)
        BY <2>6 DEF Rollback, Release
    <2>7. CASE Discard(t)
        BY <2>7 DEF Discard, Release
    <2>8. CASE Disconnect(t)
        BY <2>8 DEF Disconnect
    <2> QED BY <1>2, <2>1, <2>2, <2>3, <2>4, <2>5, <2>6, <2>7, <2>8, <2>9, <2>10 DEF Step, Finish
<1>3. ASSUME NEW c \in Calls, Statement(c) \/ \E t \in Txns : GetTrx(c, t) PROVE LifeInv'
    <2>1. UNCHANGED <<entry, signal, held, answers>>
        BY <1>3 DEF Statement, GetTrx, Send, ValidationFails, ExecuteInTxn, StatementFails
    <2>2. pg' = pg \/ \E t : pg[t] = "active" /\ pg' = [pg EXCEPT ![t] = "failed"]
        BY <1>3 DEF Statement, GetTrx, Send, ValidationFails, ExecuteInTxn, StatementFails
    <2> QED BY <2>1, <2>2
<1> QED
    BY <1>1, <1>2, <1>3 DEF TxnNext, Step

\* Whichever of commit, rollback and timer comes first decides; "committed" is
\* answered of the transactions it decided to commit and of no other, and a
\* rollback that comes later is told that it came too late, not the outcome.
THEOREM AnswersMatchSignals == TxnSpec => []AnswerIsTheSignal
<1>1. TxnInit => LifeInv
    BY DEF TxnInit, LifeInv, AnswerIsTheSignal
<1>2. LifeInv => AnswerIsTheSignal
    BY DEF LifeInv
<1> QED BY <1>1, <1>2, NextKeepsLife, TypeCorrect, PTL DEF TxnSpec

----------------------------------------------------------------------------
(***************************************************************************)
(* Statements.  What a transaction has written is exactly the calls that   *)
(* were answered "ok" for it, and what is visible is exactly what the      *)
(* committed transactions have written.                                    *)
(***************************************************************************)
OkIn(t) == {c \in Calls : call[c] = "ok" /\ target[c] = t}

WritesInv ==
    /\ \A c \in Calls : call[c] # "idle" => target[c] \in Txns
    /\ \A t \in Txns : writes[t] = OkIn(t)
    /\ \A c \in Calls : c \in table <=> call[c] = "ok" /\ pg[target[c]] = "committed"

\* One step keeps WritesInv.
LEMMA NextKeepsWrites ==
    ASSUME TxnTypeOK, LifeInv, WritesInv, [TxnNext]_txnVars
    PROVE  WritesInv'
<1> USE DEF TxnTypeOK, WritesInv, OkIn, callVars
<1>1. CASE UNCHANGED txnVars
    BY <1>1 DEF txnVars
<1>2. ASSUME NEW t \in Txns, Step(t) PROVE WritesInv'
    <2>1. CASE BeginTxn(t) \/ BeginFails(t) \/ CommitCall(t) \/ RollbackCall(t)
               \/ RollbackEnded(t) \/ Timeout(t) \/ Discard(t)
        BY <2>1 DEF BeginTxn, BeginFails, CommitCall, RollbackCall, RollbackEnded, Timeout, EndEntry, Discard
    <2>2. CASE Commit(t)
        BY <2>2 DEF Commit
    <2>3. CASE Rollback(t) \/ Disconnect(t)
        BY <2>3 DEF Rollback, Disconnect
    <2>4. CASE Open(t)
        BY <2>4 DEF Open, LifeInv
    <2> QED BY <1>2, <2>1, <2>2, <2>3, <2>4 DEF Step, Finish
<1>3. ASSUME NEW c \in Calls, NEW t \in Txns, GetTrx(c, t) PROVE WritesInv'
    BY <1>3 DEF GetTrx
<1>4. ASSUME NEW c \in Calls, Send(c) \/ ValidationFails(c) PROVE WritesInv'
    BY <1>4 DEF Send, ValidationFails
<1>5. ASSUME NEW c \in Calls, ExecuteInTxn(c) PROVE WritesInv'
    BY <1>5 DEF ExecuteInTxn
<1>6. ASSUME NEW c \in Calls, StatementFails(c) PROVE WritesInv'
    BY <1>6 DEF StatementFails
<1> QED
    BY <1>1, <1>2, <1>3, <1>4, <1>5, <1>6 DEF TxnNext, Step, Statement

\* A statement answered "ok" is visible exactly when its transaction committed.
THEOREM StatementsRunInside == TxnSpec => []OkRunsInside
<1>1. TxnInit => LifeInv /\ WritesInv
    BY DEF TxnInit, LifeInv, WritesInv, AnswerIsTheSignal, OkIn
<1>2. WritesInv => OkRunsInside
    BY DEF WritesInv, OkRunsInside
<1> QED BY <1>1, <1>2, NextKeepsLife, NextKeepsWrites, TypeCorrect, PTL DEF TxnSpec

----------------------------------------------------------------------------
(***************************************************************************)
(* Connections.  The pool is never overdrawn.                              *)
(***************************************************************************)
PoolInv == Cardinality(held) <= PoolSize

\* Taking a connection that is free or giving one back stays within the pool.
LEMMA NextKeepsPool ==
    ASSUME TxnTypeOK, PoolInv, [TxnNext]_txnVars
    PROVE  PoolInv'
<1>1. IsFiniteSet(held)
    BY TxnAssumption, FS_Subset DEF TxnTypeOK
<1>2. Cardinality(held) \in Nat /\ PoolSize \in Nat
    BY <1>1, FS_CardinalityType, TxnAssumption
<1>3. CASE held' = held
    BY <1>3 DEF PoolInv
<1>4. ASSUME NEW t \in Txns, Open(t) PROVE PoolInv'
    <2>0. Cardinality(held \cup {t}) = IF t \in held THEN Cardinality(held) ELSE Cardinality(held) + 1
        BY <1>1, FS_AddElement
    <2>1. Cardinality(held \cup {t}) <= Cardinality(held) + 1
        BY <1>2, <2>0
    <2>2. IsFiniteSet(held \cup {t})
        BY <1>1, FS_AddElement
    <2>3. Cardinality(held \cup {t}) \in Nat
        BY <2>2, FS_CardinalityType
    <2> QED BY <1>2, <1>4, <2>1, <2>3 DEF Open, FreeConnection, PoolInv
<1>5. ASSUME NEW t \in Txns, Release(t) PROVE PoolInv'
    <2>1. held' \subseteq held
        BY <1>5 DEF Release
    <2>2. Cardinality(held') <= Cardinality(held) /\ Cardinality(held') \in Nat
        BY <1>1, <2>1, FS_Subset, FS_CardinalityType
    <2> QED BY <1>2, <2>2 DEF PoolInv
<1>6. held' = held \/ \E t \in Txns : Open(t) \/ Release(t)
    BY DEF TxnNext, txnVars, callVars, BeginTxn, BeginFails, CommitCall, RollbackCall, RollbackEnded,
        Timeout, EndEntry, Finish, Commit, Rollback, Discard, Disconnect, Statement, GetTrx, Send, ValidationFails,
        ExecuteInTxn, StatementFails
<1> QED
    BY <1>3, <1>4, <1>5, <1>6

\* The pool is never overdrawn, and no running transaction loses its connection.
THEOREM NoConnectionIsLost == TxnSpec => []ConnectionsAccounted
<1>1. TxnInit => LifeInv /\ PoolInv
    BY TxnAssumption, FS_EmptySet DEF TxnInit, LifeInv, PoolInv, AnswerIsTheSignal
<1>2. TxnTypeOK /\ LifeInv /\ PoolInv => ConnectionsAccounted
    BY DEF TxnTypeOK, LifeInv, PoolInv, ConnectionsAccounted
<1> QED BY <1>1, <1>2, NextKeepsLife, NextKeepsPool, TypeCorrect, PTL DEF TxnSpec

----------------------------------------------------------------------------
(***************************************************************************)
(* Refinement.  ExecuteInTxn is Join, the COMMIT of an active transaction is    *)
(* Commit, and whatever else ends a session is Abort; everything else the  *)
(* gateway does is invisible to AtomicBatches.                             *)
(***************************************************************************)
\* One step of the gateway is a step of AtomicBatches or none.
LEMMA StepRefines ==
    ASSUME TxnTypeOK, LifeInv, WritesInv, [TxnNext]_txnVars
    PROVE  [Batch!Next]_(Batch!vars)
<1> USE DEF TxnTypeOK, batchStatus, Batch!vars, callVars
<1>1. CASE UNCHANGED txnVars
    BY <1>1 DEF txnVars
<1>2. ASSUME NEW t \in Txns, BeginTxn(t) \/ BeginFails(t) \/ CommitCall(t) \/ RollbackCall(t)
                                      \/ RollbackEnded(t) \/ Timeout(t)
      PROVE  UNCHANGED Batch!vars
    BY <1>2 DEF BeginTxn, BeginFails, CommitCall, RollbackCall, RollbackEnded, Timeout, EndEntry
<1>3. ASSUME NEW t \in Txns, Open(t) PROVE UNCHANGED Batch!vars
    BY <1>3 DEF Open, LifeInv
<1>4. ASSUME NEW t \in Txns, Discard(t) PROVE UNCHANGED Batch!vars
    BY <1>4 DEF Discard
<1>5. ASSUME NEW t \in Txns, Commit(t) PROVE Batch!Commit(t) \/ Batch!Abort(t)
    <2>1. CASE pg[t] = "active"
        BY <1>5, <2>1 DEF Commit, Batch!Commit
    <2>2. CASE pg[t] # "active"
        BY <1>5, <2>2 DEF Commit, Batch!Abort
    <2> QED BY <2>1, <2>2
<1>6. ASSUME NEW t \in Txns, Rollback(t) \/ Disconnect(t) PROVE Batch!Abort(t)
    <2>1. CASE Rollback(t)
        BY <2>1 DEF Rollback, Batch!Abort
    <2>2. CASE Disconnect(t)
        BY <2>2 DEF Disconnect, Batch!Abort
    <2> QED BY <1>6, <2>1, <2>2
<1>7. ASSUME NEW c \in Calls, NEW t \in Txns, GetTrx(c, t) PROVE UNCHANGED Batch!vars
    BY <1>7 DEF GetTrx
<1>8. ASSUME NEW c \in Calls, Send(c) \/ ValidationFails(c) PROVE UNCHANGED Batch!vars
    BY <1>8 DEF Send, ValidationFails
<1>9. ASSUME NEW c \in Calls, StatementFails(c) PROVE UNCHANGED Batch!vars
    BY <1>9 DEF StatementFails
<1>10. ASSUME NEW c \in Calls, ExecuteInTxn(c) PROVE target[c] \in Txns /\ Batch!Join(target[c], c)
    <2>1. target[c] \in Txns
        BY <1>10 DEF ExecuteInTxn, WritesInv
    <2>2. \A t \in Txns : c \notin writes[t]
        BY <1>10 DEF ExecuteInTxn, WritesInv, OkIn
    <2> QED BY <1>10, <2>1, <2>2 DEF ExecuteInTxn, Batch!Join
<1> QED
    BY <1>1, <1>2, <1>3, <1>4, <1>5, <1>6, <1>7, <1>8, <1>9, <1>10
       DEF TxnNext, Finish, Statement, Batch!Next

\* The transactions of the gateway implement atomic batches.
THEOREM TransactionsAreAtomicBatches == TxnSpec => ImplementsAtomicBatches
<1>1. TxnInit => Batch!Init
    BY DEF TxnInit, Batch!Init, batchStatus
<1>2. TxnInit => LifeInv /\ WritesInv
    BY DEF TxnInit, LifeInv, WritesInv, AnswerIsTheSignal, OkIn
<1> QED
    BY <1>1, <1>2, NextKeepsLife, NextKeepsWrites, StepRefines, TypeCorrect, PTL
       DEF TxnSpec, ImplementsAtomicBatches, Batch!Spec
====
