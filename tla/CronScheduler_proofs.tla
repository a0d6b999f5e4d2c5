---- MODULE CronScheduler_proofs ----
(***************************************************************************)
(* Proofs about CronScheduler for any number of services, jobs, handlers   *)
(* and executions, and for all bounds.                                     *)
(***************************************************************************)
EXTENDS CronScheduler, TLAPS

JobRow == [active : BOOLEAN, rev : Nat]

\* The functions of the state, and TypeOK.
TypeInv ==
    /\ db = [j \in Jobs |-> db[j]]
    /\ op \in [Processes -> OpState]
    /\ exec \in [Execs -> ExecState]
    /\ TypeOK

\* A step of a handler keeps TypeInv.
LEMMA OperateKeepsType ==
    ASSUME TypeInv, NEW x \in Processes, Operate(x)
    PROVE  TypeInv'
<1> USE ConstantsAssumption DEF TypeInv, TypeOK, Present, GoOp, Used, SetTask, NewRev, Begin, Apply, jobVars, execVars, history
<1>0. op[x] \in OpState
    OBVIOUS
<1>1. ASSUME NEW s \in Services \ {Main}, NEW j \in Jobs, Create(x, s, j) \/ Update(x, s, j)
      PROVE  TypeInv'
    <2>1. PICK on \in BOOLEAN : /\ db' = [db EXCEPT ![j] = [active |-> on, rev |-> rev']]
                                /\ op' = [op EXCEPT ![x] = Apply(s, j, [active |-> on, rev |-> rev'])]
        BY <1>1 DEF Create, Update
    <2>2. rev' \in Nat /\ [active |-> on, rev |-> rev'] \in [active : BOOLEAN, rev : Nat]
        BY <1>1 DEF Create, Update
    <2>3. op'  \in [Processes -> OpState]
        BY <2>1, <2>2 DEF OpState
    <2>4. db' = [i \in Jobs |-> db'[i]] /\ \A i \in Jobs : Present(i)' => db'[i] \in [active : BOOLEAN, rev : Nat]
        BY <2>1, <2>2
    <2>5. UNCHANGED <<tasks, execVars, untold, parked, crashes>> /\ ops' = ops + 1
        BY <1>1 DEF Create, Update
    <2>6. users' = [users EXCEPT ![j] = @ \cup {s}]
        BY <1>1 DEF Create, Update
    <2>7. overlap' \in [Jobs -> BOOLEAN]
        <3>1. Begin(x, {j})
            BY <1>1 DEF Create, Update
        <3> QED
            BY <3>1
    <2>8. users' \in [Jobs -> SUBSET Services]
        BY <2>6
    <2>9. \A y \in Processes : op'[y] \in OpState
        BY <2>3
    <2>10. rev' \in Nat /\ ops' \in Nat /\ crashes' \in Nat
        BY <2>2, <2>5
    <2> QED
        BY <2>3, <2>4, <2>5, <2>7, <2>8, <2>9, <2>10
<1>2. ASSUME NEW s \in Services \ {Main}, NEW j \in Jobs, ToggleRead(x, s, j)
      PROVE  TypeInv'
    <2>1. op' \in [Processes -> OpState]
        BY <1>2 DEF ToggleRead, OpState
    <2> QED
        BY <1>2, <2>1 DEF ToggleRead
<1>3. ASSUME NEW s \in Services \ {Main}, NEW j \in Jobs, DeleteStop(x, s, j)
      PROVE  TypeInv'
    <2>1. op' \in [Processes -> OpState]
        BY <1>3 DEF DeleteStop, OpState
    <2> QED
        BY <1>3, <2>1 DEF DeleteStop
<1>4. CASE SwitchProject(x)
    <2>1. op' \in [Processes -> OpState]
        BY <1>4 DEF SwitchProject, OpState
    <2> QED
        BY <1>4, <2>1 DEF SwitchProject
<1>5. CASE PurgeProject(x)
    BY <1>5 DEF PurgeProject
<1>6. CASE ToggleWrite(x)
    <2>1. op[x].job \in Jobs /\ op[x].svc \in Services /\ op[x].active \in BOOLEAN
        BY <1>0, <1>6 DEF ToggleWrite, OpState
    <2>2. CASE Present(op[x].job)
        <3> DEFINE row == [db[op[x].job] EXCEPT !.active = ~op[x].active]
        <3>1. row \in [active : BOOLEAN, rev : Nat]
            BY <2>1, <2>2
        <3>2. op' = [op EXCEPT ![x] = Apply(op[x].svc, op[x].job, row)] /\ db' = [db EXCEPT ![op[x].job] = row]
            BY <1>6, <2>2 DEF ToggleWrite
        <3>3. op' \in [Processes -> OpState]
            BY <2>1, <3>1, <3>2 DEF OpState
        <3> QED
            BY <1>6, <2>1, <3>1, <3>2, <3>3 DEF ToggleWrite
    <2>3. CASE ~Present(op[x].job)
        <3>1. PICK state \in {Idle, Apply(op[x].svc, op[x].job, [active |-> FALSE, rev |-> 0])} :
                    op' = [op EXCEPT ![x] = state]
            BY <1>6, <2>3 DEF ToggleWrite
        <3>2. Idle \in OpState /\ Apply(op[x].svc, op[x].job, [active |-> FALSE, rev |-> 0]) \in OpState
            BY <2>1 DEF OpState, Idle
        <3>3. op' \in [Processes -> OpState]
            BY <3>1, <3>2
        <3> QED
            BY <1>6, <2>3, <3>3 DEF ToggleWrite
    <2> QED
        BY <2>2, <2>3
<1>7. CASE ApplyRow(x)
    <2>1. op[x].job \in Jobs /\ op[x].svc \in Services /\ op[x].row \in [active : BOOLEAN, rev : Nat]
        BY <1>0, <1>7 DEF ApplyRow, OpState
    <2>2. op' \in [Processes -> OpState]
        BY <1>7 DEF ApplyRow, OpState, Idle
    <2>3. tasks' \in [Services -> [Jobs -> Nat \cup {NoTask}]]
        BY <1>7, <2>1 DEF ApplyRow
    <2> QED
        BY <1>7, <2>2, <2>3 DEF ApplyRow
<1>8. CASE ResultLost(x) \/ DeleteFails(x)
    <2>1. op' \in [Processes -> OpState]
        BY <1>8 DEF ResultLost, DeleteFails, OpState, Idle
    <2> QED
        BY <1>8, <2>1 DEF ResultLost, DeleteFails
<1>9. CASE DeleteRow(x)
    <2>1. op' \in [Processes -> OpState]
        BY <1>9 DEF DeleteRow, OpState, Idle
    <2> QED
        BY <1>9, <2>1 DEF DeleteRow
<1>10. CASE ListJobs(x)
    <2>1. op[x].next \in {"start", "stop"}
        BY <1>0, <1>10 DEF ListJobs, OpState
    <2>2. [j \in Jobs |-> IF j \in ActiveJobs THEN db[j].rev ELSE NoTask] \in [Jobs -> Nat \cup {NoTask}]
        BY DEF ActiveJobs
    <2>3. op' \in [Processes -> OpState]
        BY <1>10, <2>1, <2>2 DEF ListJobs, OpState
    <2> QED
        BY <1>10, <2>3 DEF ListJobs
<1>11. CASE ListFails(x)
    <2>1. op' \in [Processes -> OpState]
        BY <1>11 DEF ListFails, OpState, Idle
    <2> QED
        BY <1>11, <2>1 DEF ListFails
<1>12. CASE ApplyAll(x)
    <2>1. op' \in [Processes -> OpState]
        BY <1>12 DEF ApplyAll, OpState, Idle
    <2>2. op[x].rows \in [Jobs -> Nat \cup {NoTask}]
        BY <1>0, <1>12 DEF ApplyAll, OpState
    <2>3. tasks' \in [Services -> [Jobs -> Nat \cup {NoTask}]]
        BY <1>12, <2>2 DEF ApplyAll
    <2> QED
        BY <1>12, <2>1, <2>3 DEF ApplyAll
<1> QED
    BY <1>1, <1>2, <1>3, <1>4, <1>5, <1>6, <1>7, <1>8, <1>9, <1>10, <1>11, <1>12 DEF Operate

\* A step of an execution keeps TypeInv.
LEMMA ExecKeepsType ==
    ASSUME TypeInv, NEW n \in Execs, Start(n) \/ Execute(n) \/ ReadBody(n)
    PROVE  TypeInv'
<1> USE DEF TypeInv, TypeOK, Present, GoExec, At, jobVars, history
<1>0. exec[n] \in ExecState
    OBVIOUS
<1>1. exec' \in [Execs -> ExecState]
    <2>1. ASSUME NEW j \in Jobs, NEW r \in Nat, exec' = [exec EXCEPT ![n] = [pc |-> "checking", job |-> j, rev |-> r, left |-> Attempts]]
          PROVE  exec' \in [Execs -> ExecState]
        BY <2>1, ConstantsAssumption DEF ExecState
    <2>2. ASSUME NEW p \in {"acting", "reading", "reading_error", "recording", "counting", "failing", "counting_failure", "over"},
                 exec[n].pc # "idle", exec' = [exec EXCEPT ![n] = [exec[n] EXCEPT !.pc = p]]
          PROVE  exec' \in [Execs -> ExecState]
        <3>1. exec[n].pc # "idle" => [exec[n] EXCEPT !.pc = p] \in ExecState
            BY <1>0, <2>2 DEF ExecState
        <3> QED
            BY <2>2, <3>1
    <2>3. CASE Start(n)
        <3>1. ASSUME NEW j \in Jobs, RunNow(n, j)
              PROVE  exec' \in [Execs -> ExecState]
            BY <2>1, <3>1 DEF RunNow
        <3>2. ASSUME NEW j \in Jobs, NEW s \in Services, Tick(n, s, j)
              PROVE  exec' \in [Execs -> ExecState]
            <4>1. tasks[s][j] \in Nat
                BY <3>2 DEF Tick
            <4> QED
                BY <2>1, <3>2, <4>1 DEF Tick
        <3> QED
            BY <2>3, <3>1, <3>2 DEF Start
    <2>5. ASSUME exec[n].pc # "idle", FailedAttempt(n)
          PROVE  exec' \in [Execs -> ExecState]
        <3>1. CASE GoExec(n, At(n, "failing"))
            BY <2>2, <2>5, <3>1
        <3>2. CASE exec[n].left > 1 /\ GoExec(n, [pc |-> "acting", job |-> exec[n].job, rev |-> exec[n].rev, left |-> exec[n].left - 1])
            <4>1. PICK p \in {"checking", "acting", "reading", "reading_error", "recording", "counting", "failing",
                              "counting_failure", "over"}, j \in Jobs, r \in Nat, l \in Nat :
                    exec[n] = [pc |-> p, job |-> j, rev |-> r, left |-> l]
                BY <1>0, <2>5 DEF ExecState
            <4>2. exec[n].left = l /\ l - 1 \in Nat
                BY <3>2, <4>1
            <4>4. [pc |-> "acting", job |-> exec[n].job, rev |-> exec[n].rev, left |-> exec[n].left - 1] \in ExecState
                BY <4>1, <4>2 DEF ExecState
            <4> QED
                BY <3>2, <4>4
        <3> QED
            BY <2>5, <3>1, <3>2 DEF FailedAttempt
    <2>6. CASE Act(n)
        <3>1. exec[n].pc # "idle"
            BY <2>6 DEF Act
        <3>2. \/ FailedAttempt(n)
              \/ \E p \in {"reading", "reading_error", "recording"} : GoExec(n, At(n, p))
            BY <2>6 DEF Act
        <3> QED
            BY <2>2, <2>5, <3>1, <3>2
    <2>7. CASE ReadBody(n)
        <3>1. exec[n].pc # "idle"
            BY <2>7 DEF ReadBody
        <3>2. FailedAttempt(n) \/ GoExec(n, At(n, "recording"))
            BY <2>7 DEF ReadBody
        <3> QED
            BY <2>2, <2>5, <3>1, <3>2
    <2>4. CASE Execute(n) /\ ~Act(n)
        BY <2>2, <2>4 DEF Execute, Skip, InsertRun, Act, Performed, FailedAttempt, ReadBody, RecordSuccess, Count, RecordFails, RecordFailure,
            CatchFails
    <2> QED
        BY <2>3, <2>4, <2>6, <2>7
<1>2. UNCHANGED <<jobVars, tasks, op, history, ops, crashes>>
    BY DEF Start, RunNow, Tick, Execute, Skip, InsertRun, Act, Performed, FailedAttempt, ReadBody, RecordSuccess, Count, RecordFails,
        RecordFailure, CatchFails
<1>3. /\ runRow' \in [Execs -> {"none", "running", "success", "failed", "gone"}]
      /\ acted' \in [Execs -> BOOLEAN]
      /\ lostRun' \in [Execs -> BOOLEAN]
    BY DEF Start, RunNow, Tick, Execute, Skip, InsertRun, Act, Performed, FailedAttempt, ReadBody, RecordSuccess, Count, RecordFails,
        RecordFailure, CatchFails, Mark
<1> QED
    BY <1>1, <1>2, <1>3

\* A restart keeps TypeInv.
LEMMA RestartKeepsType ==
    ASSUME TypeInv, Restart
    PROVE  TypeInv'
<1> USE DEF TypeInv, TypeOK, Present, jobVars
<1>1. exec' \in [Execs -> ExecState]
    <2>1. ASSUME NEW n \in Execs, exec[n].pc # "idle"
          PROVE  At(n, "over") \in ExecState
        <3>1. exec[n] \in ExecState
            OBVIOUS
        <3> QED
            BY <2>1, <3>1 DEF ExecState, At
    <2>2. Idle \in ExecState
        BY DEF Idle, ExecState
    <2> QED
        BY <2>1, <2>2 DEF Restart
<1>2. op' \in [Processes -> OpState]
    BY DEF Restart, OpState, Idle
<1> QED
    BY <1>1, <1>2 DEF Restart

\* One step keeps TypeInv.
LEMMA NextKeepsType ==
    ASSUME TypeInv, [Next]_vars
    PROVE  TypeInv'
<1>1. CASE UNCHANGED vars
    BY <1>1 DEF vars, jobVars, execVars, history, TypeInv, TypeOK, Present
<1> QED
    BY <1>1, OperateKeepsType, ExecKeepsType, RestartKeepsType DEF Next

\* The functions of the state, and the type invariant of the module.
THEOREM TypeInvariant == Spec => []TypeInv
<1>1. Init => TypeInv
    <2> SUFFICES ASSUME Init
                 PROVE  TypeInv
        OBVIOUS
    <2>1. op \in [Processes -> OpState]
        BY DEF Init, OpState, Idle
    <2>2. exec \in [Execs -> ExecState]
        BY DEF Init, ExecState, Idle
    <2>3. db = [j \in Jobs |-> db[j]] /\ \A j \in Jobs : Present(j) => db[j] \in [active : BOOLEAN, rev : Nat]
        BY DEF Init, Present
    <2> QED
        BY <2>1, <2>2, <2>3 DEF Init, TypeInv, TypeOK
<1> QED
    BY <1>1, NextKeepsType, PTL DEF Spec

\* The table, the timers, the handlers and the executions keep their types.
THEOREM TypeCorrect == Spec => []TypeOK
BY TypeInvariant, PTL DEF TypeInv

----------------------------------------------------------------------------
(***************************************************************************)
(* Run rows.  An execution records a success only after its action, and    *)
(* what is recorded before the action is never a success.                  *)
(***************************************************************************)
Begun(n) == exec[n].pc \in {"idle", "checking", "acting", "reading", "reading_error"}

RunInv ==
    \A n \in Execs :
        /\ exec[n].pc \in {"reading", "recording", "counting"} => acted[n]
        /\ Begun(n) => runRow[n] # "success"
        /\ runRow[n] = "success" => acted[n]

\* A step of an execution keeps RunInv.
LEMMA ExecKeepsRun ==
    ASSUME TypeInv, RunInv, NEW n \in Execs, Start(n) \/ Execute(n) \/ ReadBody(n)
    PROVE  RunInv'
<1> USE DEF RunInv, Begun
<1>1. ASSUME NEW m \in Execs \ {n}
      PROVE  exec'[m] = exec[m] /\ acted'[m] = acted[m] /\ runRow'[m] = runRow[m]
    BY <1>1 DEF Start, RunNow, Tick, Execute, Skip, InsertRun, Act, Performed, FailedAttempt, ReadBody, RecordSuccess, Count, RecordFails,
        RecordFailure, CatchFails, GoExec, Mark, TypeInv, TypeOK
<1>2. /\ exec'[n].pc \in {"reading", "recording", "counting"} => acted'[n]
      /\ Begun(n)' => runRow'[n] # "success"
      /\ runRow'[n] = "success" => acted'[n]
    <2>1. exec[n] \in ExecState
        BY DEF TypeInv
    <2>2. ASSUME NEW p, exec[n].pc # "idle"
          PROVE  [exec[n] EXCEPT !.pc = p].pc = p
        BY <2>1, <2>2 DEF ExecState
    <2>3. CASE Start(n)
        BY <2>3 DEF Start, RunNow, Tick, GoExec, TypeInv
    <2> USE DEF GoExec, At, Mark, TypeInv, TypeOK
    <2>4. CASE Skip(n) \/ Count(n) \/ CatchFails(n)
        <3>1. exec'[n].pc = "over" /\ runRow' = runRow /\ acted' = acted
            BY <2>2, <2>4 DEF Skip, Count, CatchFails
        <3> QED
            BY <3>1
    <2>5. CASE InsertRun(n)
        <3>1. exec'[n].pc \in {"acting", "over"} /\ acted' = acted
            BY <2>2, <2>5 DEF InsertRun
        <3>2. runRow'[n] # "success"
            BY <2>5 DEF InsertRun
        <3> QED
            BY <3>1, <3>2
    <2>9. ASSUME exec[n].pc # "idle", FailedAttempt(n)
          PROVE  exec'[n].pc \in {"failing", "acting"}
        <3>1. [pc |-> "acting", job |-> exec[n].job, rev |-> exec[n].rev, left |-> exec[n].left - 1].pc = "acting"
            BY <2>1, <2>9 DEF ExecState
        <3> QED
            BY <2>2, <2>9, <3>1 DEF FailedAttempt
    <2>6. CASE Act(n)
        <3>1. PICK done \in BOOLEAN :
                /\ acted' = [acted EXCEPT ![n] = @ \/ done]
                /\ \/ FailedAttempt(n)
                   \/ GoExec(n, At(n, "reading_error"))
                   \/ done /\ \E next \in {"recording", "reading"} : GoExec(n, At(n, next))
            BY <2>6 DEF Act, Performed
        <3>2. exec[n].pc = "acting" /\ runRow'[n] # "success"
            BY <2>6 DEF Act
        <3>3. exec'[n].pc \in {"failing", "acting", "reading_error"} \/ done
            BY <2>2, <2>9, <3>1, <3>2
        <3>4. done => acted'[n]
            BY <3>1
        <3> QED
            BY <3>2, <3>3, <3>4
    <2>10. CASE ReadBody(n)
        <3>1. exec[n].pc # "idle" /\ acted' = acted /\ runRow'[n] # "success"
            BY <2>10 DEF ReadBody
        <3>2. exec'[n].pc \in {"failing", "acting"} \/ (exec[n].pc = "reading" /\ exec'[n].pc = "recording")
            BY <2>2, <2>9, <2>10, <3>1 DEF ReadBody
        <3> QED
            BY <3>1, <3>2
    <2>7. CASE RecordSuccess(n) \/ RecordFails(n)
        <3>1. exec'[n].pc \in {"counting", "failing"} /\ acted' = acted /\ acted[n]
            BY <2>2, <2>7 DEF RecordSuccess, RecordFails
        <3> QED
            BY <3>1
    <2>8. CASE RecordFailure(n)
        <3>1. exec'[n].pc = "counting_failure" /\ acted' = acted /\ runRow'[n] # "success"
            BY <2>2, <2>8 DEF RecordFailure
        <3> QED
            BY <3>1
    <2> QED
        BY <2>3, <2>4, <2>5, <2>6, <2>7, <2>8, <2>10 DEF Execute
<1> QED
    BY <1>1, <1>2

\* One step keeps RunInv: handlers only turn rows into "gone".
LEMMA NextKeepsRun ==
    ASSUME TypeInv, RunInv, [Next]_vars
    PROVE  RunInv'
<1>1. ASSUME NEW x \in Processes, Operate(x)
      PROVE  RunInv'
    <2>1. CASE DeleteRow(x) \/ PurgeProject(x)
        <3>1. exec' = exec /\ acted' = acted
            BY <2>1 DEF DeleteRow, PurgeProject
        <3>2. \A n \in Execs : runRow'[n] = runRow[n] \/ runRow'[n] = "gone"
            BY <2>1 DEF DeleteRow, PurgeProject
        <3> QED
            BY <3>1, <3>2 DEF RunInv, Begun
    <2>2. CASE ~(DeleteRow(x) \/ PurgeProject(x))
        <3>1. UNCHANGED execVars
            BY <1>1, <2>2 DEF Operate, Create, Update, ToggleRead, DeleteStop, SwitchProject, ToggleWrite,
                ApplyRow, ResultLost, DeleteFails, ListJobs, ListFails, ApplyAll
        <3> QED
            BY <3>1 DEF RunInv, Begun, execVars
    <2> QED
        BY <2>1, <2>2
<1>2. CASE Restart
    <2>1. \A n \in Execs : exec'[n].pc = "over" \/ exec'[n] = exec[n]
        <3> TAKE n \in Execs
        <3>1. exec[n] \in ExecState
            BY DEF TypeInv
        <3>2. exec[n].pc = "idle" => exec[n] = Idle
            BY <3>1 DEF ExecState, Idle
        <3>3. exec[n].pc # "idle" => At(n, "over").pc = "over"
            BY <3>1 DEF ExecState, At
        <3> QED
            BY <1>2, <3>2, <3>3 DEF Restart
    <2> QED
        BY <1>2, <2>1 DEF Restart, RunInv, Begun
<1>3. CASE UNCHANGED vars
    BY <1>3 DEF vars, execVars, RunInv, Begun
<1> QED
    BY <1>1, <1>2, <1>3, ExecKeepsRun DEF Next

\* A run recorded as a success performed its action (cron.service.ts:250-300), in
\* whatever order deletes, restarts and failed updates fell.
THEOREM RecordedSuccessIsTrue == Spec => []SuccessIsTrue
<1>1. Init => RunInv
    BY DEF Init, RunInv, Begun, Idle
<1>2. TypeInv /\ RunInv /\ [Next]_vars => RunInv'
    BY NextKeepsRun
<1>3. RunInv => SuccessIsTrue
    BY DEF RunInv, SuccessIsTrue
<1> QED
    BY <1>1, <1>2, <1>3, TypeInvariant, PTL DEF Spec

----------------------------------------------------------------------------
(***************************************************************************)
(* Timers and table.  As long as operations on a job have not overlapped   *)
(* and every change of the table was told to a service, at most one        *)
(* operation is under way on it, which has established what OpFits says,   *)
(* and unless it is about to replace the timer, the timer of the only      *)
(* service used is in step and an active job has a timer or a reason.      *)
(***************************************************************************)
Clean(j) == ~overlap[j] /\ ~untold[j]

Applying(x, j) == op[x].pc = "applying" /\ op[x].job = j

Deleting(x, j) == op[x].pc = "deleting" /\ op[x].job = j

Toggling(x, j) == op[x].pc = "toggling" /\ op[x].job = j

\* An operation that ends by giving an active job a timer, or by deleting it.
Starting(x) == op[x].pc \in {"listing", "applying_all"} /\ op[x].next = "start"

OpFits(x, j) ==
    /\ Applying(x, j) \/ Deleting(x, j) \/ Toggling(x, j) => op[x].svc \in users[j]
    /\ Applying(x, j) => IF op[x].row.active THEN Present(j) /\ db[j] = op[x].row ELSE j \notin ActiveJobs
    /\ Deleting(x, j) => tasks[op[x].svc][j] = NoTask
    /\ op[x].pc = "applying_all" => op[x].rows[j] = IF j \in ActiveJobs THEN db[j].rev ELSE NoTask

\* Only the service that was used has a timer, and that timer is in step.
Settled(j) == \A s \in Services : users[j] \subseteq {s} => tasks[s][j] = NoTask \/ InStep(s, j)

Served(j) == parked[j] \/ j \notin ActiveJobs \/ \E s \in Services : tasks[s][j] # NoTask

JobInv(j) == Clean(j) =>
    /\ \A x, y \in Processes : j \in Touches(x) /\ j \in Touches(y) => x = y
    /\ \A x \in Processes : OpFits(x, j)
    /\ (\E x \in Processes : Applying(x, j)) \/ Settled(j)
    /\ (\E x \in Processes : Applying(x, j) \/ Deleting(x, j) \/ Starting(x)) \/ Served(j)

TimerInv == \A j \in Jobs : JobInv(j)

\* A process that has something to establish about a job touches it.
LEMMA TouchesWhatItHolds ==
    ASSUME NEW x \in Processes, NEW j \in Jobs
    PROVE  /\ Applying(x, j) \/ Deleting(x, j) \/ Toggling(x, j) => j \in Touches(x)
           /\ op[x].pc \in {"listing", "applying_all"} => j \in Touches(x)
           /\ j \notin Touches(x) => OpFits(x, j)
BY DEF Applying, Deleting, Toggling, Touches, OpFits

\* A step that concerns other jobs only.
LEMMA OtherJob ==
    ASSUME TypeInv, NEW x \in Processes, NEW j \in Jobs, JobInv(j),
           Clean(j)' => Clean(j),
           db'[j] = db[j], users'[j] = users[j], parked'[j] = parked[j],
           \A s \in Services : tasks'[s][j] = tasks[s][j],
           \A y \in Processes \ {x} : op'[y] = op[y],
           j \notin Touches(x), j \notin Touches(x)'
    PROVE  JobInv(j)'
<1> SUFFICES ASSUME Clean(j)'
             PROVE  /\ \A y, z \in Processes : j \in Touches(y)' /\ j \in Touches(z)' => y = z
                    /\ \A y \in Processes : OpFits(y, j)'
                    /\ (\E y \in Processes : Applying(y, j)') \/ Settled(j)'
                    /\ (\E y \in Processes : (Applying(y, j) \/ Deleting(y, j) \/ Starting(y))') \/ Served(j)'
    BY DEF JobInv
<1>1. Clean(j)
    OBVIOUS
<1>2. (j \in ActiveJobs)' <=> j \in ActiveJobs
    BY DEF ActiveJobs, Present
<1>3. \A y \in Processes \ {x} :
        /\ Touches(y)' = Touches(y)
        /\ OpFits(y, j) => OpFits(y, j)'
        /\ Applying(y, j)' <=> Applying(y, j)
        /\ Deleting(y, j)' <=> Deleting(y, j)
        /\ Starting(y)' <=> Starting(y)
    <2>1. ASSUME NEW y \in Processes \ {x}
          PROVE  /\ Touches(y)' = Touches(y)
                 /\ Applying(y, j)' <=> Applying(y, j)
                 /\ Deleting(y, j)' <=> Deleting(y, j)
                 /\ Starting(y)' <=> Starting(y)
        BY DEF Touches, Applying, Deleting, Starting
    <2>2. ASSUME NEW y \in Processes \ {x}, OpFits(y, j)
          PROVE  OpFits(y, j)'
        <3>1. op[y].pc = "deleting" => op[y].svc \in Services
            BY DEF TypeInv, OpState
        <3> QED
            BY <1>2, <2>2, <3>1 DEF OpFits, Applying, Deleting, Toggling, Present
    <2> QED
        BY <2>1, <2>2
<1>4. ~Applying(x, j) /\ ~Deleting(x, j) /\ ~Starting(x) /\ OpFits(x, j)'
    <2>1. OpFits(x, j)'
        BY DEF OpFits, Applying, Deleting, Toggling, Touches
    <2> QED
        BY <2>1, TouchesWhatItHolds DEF Starting
<1>5. Settled(j) => Settled(j)'
    BY <1>2 DEF Settled, InStep
<1>6. Served(j) => Served(j)'
    BY <1>2 DEF Served
<1>7. /\ \A y, z \in Processes : j \in Touches(y) /\ j \in Touches(z) => y = z
      /\ \A y \in Processes : OpFits(y, j)
      /\ (\E y \in Processes : Applying(y, j)) \/ Settled(j)
      /\ (\E y \in Processes : Applying(y, j) \/ Deleting(y, j) \/ Starting(y)) \/ Served(j)
    BY <1>1 DEF JobInv
<1>8. \A y, z \in Processes : j \in Touches(y)' /\ j \in Touches(z)' => y = z
    BY <1>3, <1>7
<1>9. \A y \in Processes : OpFits(y, j)'
    BY <1>3, <1>4, <1>7
<1>10. (\E y \in Processes : Applying(y, j)') \/ Settled(j)'
    BY <1>3, <1>4, <1>5, <1>7
<1>11. (\E y \in Processes : (Applying(y, j) \/ Deleting(y, j) \/ Starting(y))') \/ Served(j)'
    BY <1>3, <1>4, <1>6, <1>7
<1> QED
    BY <1>8, <1>9, <1>10, <1>11

\* A step of the only process that touches a job afterwards, if any does.
LEMMA OwnJob ==
    ASSUME NEW x \in Processes, NEW j \in Jobs,
           \A y \in Processes \ {x} : j \notin Touches(y) /\ op'[y] = op[y],
           OpFits(x, j)',
           Applying(x, j)' \/ Settled(j)',
           Applying(x, j)' \/ Deleting(x, j)' \/ Starting(x)' \/ Served(j)'
    PROVE  JobInv(j)'
<1>1. \A y \in Processes \ {x} : j \notin Touches(y)'
    BY DEF Touches
<1>2. \A y \in Processes \ {x} : OpFits(y, j)'
    BY <1>1 DEF Touches, OpFits, Applying, Deleting, Toggling
<1> QED
    BY <1>1, <1>2 DEF JobInv

\* Before a step of a process that touches a clean job nobody else does.
LEMMA Alone ==
    ASSUME TimerInv, NEW x \in Processes, NEW j \in Jobs, Clean(j), j \in Touches(x)
    PROVE  /\ \A y \in Processes \ {x} : j \notin Touches(y)
           /\ OpFits(x, j)
           /\ Applying(x, j) \/ Settled(j)
           /\ Applying(x, j) \/ Deleting(x, j) \/ Starting(x) \/ Served(j)
BY TouchesWhatItHolds DEF TimerInv, JobInv, Starting

\* Before an operation that begins on a clean job nobody touches it.
LEMMA BeginsAlone ==
    ASSUME TypeInv, TimerInv, NEW x \in Processes, NEW js, Begin(x, js), NEW j \in Jobs, Clean(j)', untold'[j] = untold[j]
    PROVE  /\ Clean(j)
           /\ j \notin Touches(x)
           /\ j \in js => Quiet(j) /\ Settled(j) /\ Served(j)
<1>1. Clean(j) /\ (j \in js => Quiet(j))
    BY DEF Begin, Clean, TypeInv, TypeOK
<1>2. j \notin Touches(x)
    BY DEF Begin, Touches
<1>3. Quiet(j) => Settled(j) /\ Served(j)
    BY <1>1, TouchesWhatItHolds DEF TimerInv, JobInv, Quiet, Starting
<1> QED
    BY <1>1, <1>2, <1>3

\* Operations of the panel and the gateway begin.
LEMMA BeginKeepsTimers ==
    ASSUME TypeInv, TimerInv, NEW x \in Processes, NEW s \in Services, NEW j \in Jobs,
           Create(x, s, j) \/ Update(x, s, j) \/ ToggleRead(x, s, j) \/ DeleteStop(x, s, j)
    PROVE  TimerInv'
<1>1. Begin(x, {j}) /\ Used(s, j) /\ UNCHANGED <<untold, parked>>
    BY DEF Create, Update, ToggleRead, DeleteStop
<1>2. /\ \A y \in Processes \ {x} : op'[y] = op[y]
      /\ \A i \in Jobs \ {j} : db'[i] = db[i] /\ users'[i] = users[i] /\ overlap'[i] = overlap[i]
      /\ \A i \in Jobs \ {j}, t \in Services : tasks'[t][i] = tasks[t][i]
    <2>1. \A y \in Processes \ {x} : op'[y] = op[y]
        BY DEF Create, Update, ToggleRead, DeleteStop, GoOp, TypeInv
    <2>2. \A i \in Jobs \ {j} : db'[i] = db[i]
        BY DEF Create, Update, ToggleRead, DeleteStop, TypeInv, jobVars
    <2>3. \A i \in Jobs \ {j} : users'[i] = users[i] /\ overlap'[i] = overlap[i]
        BY <1>1 DEF Begin, Used, TypeInv, TypeOK
    <2>4. \A i \in Jobs \ {j}, t \in Services : tasks'[t][i] = tasks[t][i]
        BY DEF Create, Update, ToggleRead, DeleteStop, SetTask, TypeInv, TypeOK
    <2> QED
        BY <2>1, <2>2, <2>3, <2>4
<1>3. op'[x].pc \in {"applying", "toggling", "deleting"} /\ op'[x].job = j /\ op'[x].svc = s
    BY DEF Create, Update, ToggleRead, DeleteStop, GoOp, Apply, TypeInv
<1>4. ASSUME NEW i \in Jobs \ {j}
      PROVE  JobInv(i)'
    <2>1. i \notin Touches(x) /\ i \notin Touches(x)'
        BY <1>1, <1>3 DEF Begin, Touches
    <2> QED
        BY <1>1, <1>2, <2>1, OtherJob DEF TimerInv, Clean
<1>5. ASSUME Clean(j)'
      PROVE  JobInv(j)'
    <2>1. Quiet(j) /\ Settled(j) /\ Served(j)
        BY <1>1, <1>5, BeginsAlone
    <2>2. \A y \in Processes \ {x} : j \notin Touches(y) /\ op'[y] = op[y]
        BY <1>2, <2>1 DEF Quiet
    <2>3. users'[j] = users[j] \cup {s}
        BY <1>1 DEF Used, TypeInv, TypeOK
    <2>4. CASE Create(x, s, j) \/ Update(x, s, j)
        <3>1. PICK on \in BOOLEAN :
                /\ db' = [db EXCEPT ![j] = [active |-> on, rev |-> rev']]
                /\ op' = [op EXCEPT ![x] = Apply(s, j, [active |-> on, rev |-> rev'])]
            BY <2>4 DEF Create, Update, GoOp
        <3>2. op'[x] = Apply(s, j, [active |-> on, rev |-> rev'])
            BY <3>1 DEF TypeInv
        <3>3. db'[j] = [active |-> on, rev |-> rev'] /\ Present(j)'
            <4>1. rev' \in Nat
                BY <2>4 DEF Create, Update, NewRev, TypeInv, TypeOK
            <4> QED
                BY <3>1, <4>1, ConstantsAssumption DEF TypeInv, Present
        <3>4. Applying(x, j)' /\ OpFits(x, j)'
            BY <2>3, <3>2, <3>3 DEF Applying, OpFits, Deleting, Toggling, Apply, ActiveJobs
        <3> QED
            BY <2>2, <3>4, OwnJob
    <2>5. CASE ToggleRead(x, s, j)
        <3>1. op'[x].pc = "toggling" /\ UNCHANGED <<db, tasks, parked>>
            BY <2>5 DEF ToggleRead, GoOp, TypeInv, jobVars
        <3>2. OpFits(x, j)'
            BY <1>3, <2>3, <3>1 DEF OpFits, Applying, Deleting, Toggling
        <3>3. Settled(j)' /\ Served(j)'
            BY <2>1, <2>3, <3>1 DEF Settled, Served, InStep, ActiveJobs, Present
        <3> QED
            BY <2>2, <3>2, <3>3, OwnJob
    <2>6. CASE DeleteStop(x, s, j)
        <3>1. op'[x].pc = "deleting" /\ tasks'[s][j] = NoTask
            BY <2>6 DEF DeleteStop, GoOp, SetTask, TypeInv, TypeOK
        <3>2. OpFits(x, j)' /\ Deleting(x, j)'
            BY <1>3, <2>3, <3>1 DEF OpFits, Applying, Deleting, Toggling
        <3>3. Settled(j)'
            BY <2>3, <3>1 DEF Settled
        <3> QED
            BY <2>2, <3>2, <3>3, OwnJob
    <2> QED
        BY <2>4, <2>5, <2>6
<1> QED
    BY <1>4, <1>5 DEF TimerInv, JobInv

\* Operations on one job go on and end.
LEMMA EndKeepsTimers ==
    ASSUME TypeInv, TimerInv, NEW x \in Processes,
           ToggleWrite(x) \/ ApplyRow(x) \/ ResultLost(x) \/ DeleteRow(x) \/ DeleteFails(x)
    PROVE  TimerInv'
<1>0. /\ op[x].pc \in {"toggling", "applying", "deleting"}
      /\ op[x].job \in Jobs /\ op[x].svc \in Services
    BY DEF ToggleWrite, ApplyRow, ResultLost, DeleteRow, DeleteFails, TypeInv, OpState
<1>1. PICK j \in Jobs, s \in Services :
        op[x].pc \in {"toggling", "applying", "deleting"} /\ op[x].job = j /\ op[x].svc = s
    BY <1>0
<1>2. /\ \A y \in Processes \ {x} : op'[y] = op[y]
      /\ \A i \in Jobs \ {j} : db'[i] = db[i] /\ parked'[i] = parked[i] /\ untold'[i] = untold[i]
      /\ \A i \in Jobs \ {j}, t \in Services : tasks'[t][i] = tasks[t][i]
      /\ UNCHANGED <<users, overlap>>
    <2>1. \A y \in Processes \ {x} : op'[y] = op[y]
        BY DEF ToggleWrite, ApplyRow, ResultLost, DeleteRow, DeleteFails, GoOp, TypeInv
    <2>2. \A i \in Jobs \ {j} : db'[i] = db[i]
        BY <1>1 DEF ToggleWrite, ApplyRow, ResultLost, DeleteRow, DeleteFails, TypeInv, jobVars
    <2>3. \A i \in Jobs \ {j} : parked'[i] = parked[i] /\ untold'[i] = untold[i]
        BY <1>1 DEF ToggleWrite, ApplyRow, ResultLost, DeleteRow, DeleteFails, TypeInv, TypeOK, history
    <2>4. \A i \in Jobs \ {j}, t \in Services : tasks'[t][i] = tasks[t][i]
        BY <1>1 DEF ToggleWrite, ApplyRow, ResultLost, DeleteRow, DeleteFails, SetTask, TypeInv, TypeOK
    <2>5. UNCHANGED <<users, overlap>>
        BY DEF ToggleWrite, ApplyRow, ResultLost, DeleteRow, DeleteFails, history
    <2> QED
        BY <2>1, <2>2, <2>3, <2>4, <2>5
<1>3. op'[x] = Idle \/ (op'[x].pc = "applying" /\ op'[x].job = j /\ op'[x].svc = s)
    BY <1>1 DEF ToggleWrite, ApplyRow, ResultLost, DeleteRow, DeleteFails, GoOp, Apply, TypeInv
<1>4. ASSUME NEW i \in Jobs, i # j
      PROVE  JobInv(i)'
    <2>1. i \notin Touches(x)
        BY <1>1, <1>4 DEF Touches
    <2>2. i \notin Touches(x)'
        BY <1>3, <1>4 DEF Touches, Idle
    <2> QED
        BY <1>2, <1>4, <2>1, <2>2, OtherJob DEF TimerInv, Clean
<1>5. ASSUME Clean(j)'
      PROVE  JobInv(j)'
    <2>1. Clean(j)
        BY <1>1, <1>2, <1>5 DEF Clean, ToggleWrite, ApplyRow, ResultLost, DeleteRow, DeleteFails, history,
            TypeInv, TypeOK
    <2>2. j \in Touches(x)
        BY <1>1 DEF Touches
    <2>3. /\ \A y \in Processes \ {x} : j \notin Touches(y) /\ op'[y] = op[y]
          /\ OpFits(x, j)
          /\ Applying(x, j) \/ Settled(j)
          /\ Applying(x, j) \/ Deleting(x, j) \/ Starting(x) \/ Served(j)
        BY <1>1, <1>2, <2>1, <2>2, Alone
    <2>4. s \in users[j]
        BY <1>1, <2>3 DEF OpFits, Applying, Deleting, Toggling
    <2>5. op'[x] = Idle => OpFits(x, j)'
        BY DEF Idle, OpFits, Applying, Deleting, Toggling
    <2>6. CASE ToggleWrite(x) /\ Present(j)
        <3> DEFINE row == [db[j] EXCEPT !.active = ~op[x].active]
        <3>1. op'[x] = Apply(s, j, row) /\ db'[j] = row
            BY <1>1, <2>6 DEF ToggleWrite, GoOp, TypeInv
        <3>2. row \in [active : BOOLEAN, rev : Nat]
            <4>1. db[j] \in [active : BOOLEAN, rev : Nat]
                BY <2>6 DEF TypeInv, TypeOK
            <4>2. (~op[x].active) \in BOOLEAN
                OBVIOUS
            <4> QED
                BY <4>1, <4>2
        <3> HIDE DEF row
        <3>3. Present(j)'
            BY <3>1, <3>2, ConstantsAssumption DEF Present
        <3>4. Applying(x, j)' /\ OpFits(x, j)'
            BY <1>2, <2>4, <3>1, <3>3 DEF Applying, OpFits, Deleting, Toggling, Apply, ActiveJobs
        <3> QED
            BY <1>1, <2>3, <3>4, OwnJob
    <2>7. CASE ToggleWrite(x) /\ ~Present(j)
        <3>1. UNCHANGED <<db, tasks, parked>> /\ op[x].pc = "toggling"
            BY <1>1, <2>7 DEF ToggleWrite, history
        <3>2. Settled(j)' /\ Served(j)'
            BY <1>2, <2>3, <2>7, <3>1 DEF Settled, Served, InStep, ActiveJobs, Present, Applying
        <3>3. OpFits(x, j)'
            <4>1. CASE op'[x] = Apply(s, j, [active |-> FALSE, rev |-> 0])
                BY <1>2, <2>4, <2>7, <3>1, <4>1 DEF Apply, OpFits, Applying, Deleting, Toggling, ActiveJobs, Present
            <4> QED
                BY <1>1, <2>5, <2>7, <4>1 DEF ToggleWrite, GoOp, TypeInv
        <3> QED
            BY <1>1, <2>3, <3>2, <3>3, OwnJob
    <2>8. CASE ApplyRow(x)
        <3>1. /\ op'[x] = Idle /\ db' = db
              /\ tasks'[s][j] = IF op[x].row.active THEN op[x].row.rev ELSE NoTask
            BY <1>1, <2>8 DEF ApplyRow, GoOp, SetTask, TypeInv, TypeOK, jobVars
        <3>2. IF op[x].row.active THEN Present(j) /\ db[j] = op[x].row ELSE j \notin ActiveJobs
            BY <1>1, <2>3, <2>8 DEF OpFits, Applying, ApplyRow
        <3>3. op[x].row.active => op[x].row.rev \in Nat
            BY <1>1, <3>2 DEF TypeInv, TypeOK
        <3>4. Settled(j)'
            BY <1>1, <1>2, <2>4, <3>1, <3>2 DEF Settled, InStep, ActiveJobs, Present
        <3>5. Served(j)'
            BY <1>1, <3>1, <3>2, <3>3, ConstantsAssumption DEF Served, ActiveJobs, Present
        <3> QED
            BY <1>1, <2>3, <2>5, <3>1, <3>4, <3>5, OwnJob
    <2>9. CASE ResultLost(x)
        BY <1>1, <1>5, <2>9 DEF ResultLost, Clean, TypeInv, TypeOK
    <2>10. CASE DeleteRow(x)
        <3>1. op'[x] = Idle /\ j \notin ActiveJobs' /\ tasks' = tasks /\ tasks[s][j] = NoTask
            <4>1. op'[x] = Idle /\ tasks' = tasks
                BY <2>10 DEF DeleteRow, GoOp, TypeInv
            <4>2. j \notin ActiveJobs'
                BY <1>1, <2>10 DEF DeleteRow, TypeInv, ActiveJobs, Present
            <4>3. tasks[s][j] = NoTask
                BY <1>1, <2>3, <2>10 DEF DeleteRow, OpFits, Deleting
            <4> QED
                BY <4>1, <4>2, <4>3
        <3>2. Settled(j)' /\ Served(j)'
            BY <1>2, <2>4, <3>1 DEF Settled, Served
        <3> QED
            BY <1>1, <2>3, <2>5, <3>1, <3>2, OwnJob
    <2>11. CASE DeleteFails(x)
        <3>1. op'[x] = Idle /\ UNCHANGED <<db, tasks>> /\ parked'[j]
            BY <1>1, <2>11 DEF DeleteFails, GoOp, TypeInv, TypeOK, jobVars
        <3>2. Settled(j)' /\ Served(j)'
            BY <1>2, <2>3, <2>11, <3>1 DEF DeleteFails, Settled, Served, InStep, ActiveJobs, Present, Applying
        <3> QED
            BY <1>1, <2>3, <2>5, <3>1, <3>2, OwnJob
    <2> QED
        BY <2>6, <2>7, <2>8, <2>9, <2>10, <2>11
<1> QED
    BY <1>4, <1>5 DEF TimerInv, JobInv

\* Switching a project, and the start-up code.
LEMMA ListKeepsTimers ==
    ASSUME TypeInv, TimerInv, NEW x \in Processes,
           SwitchProject(x) \/ ListJobs(x) \/ ListFails(x) \/ ApplyAll(x)
    PROVE  TimerInv'
<1> SUFFICES ASSUME NEW j \in Jobs, Clean(j)'
             PROVE  JobInv(j)'
    BY DEF TimerInv, JobInv
<1>1. \A y \in Processes \ {x} : op'[y] = op[y]
    BY DEF SwitchProject, ListJobs, ListFails, ApplyAll, GoOp, TypeInv
<1>2. CASE SwitchProject(x)
    <2>1. Begin(x, Jobs) /\ UNCHANGED <<db, tasks, users, untold, parked>>
        BY <1>2 DEF SwitchProject, jobVars
    <2>2. Quiet(j) /\ Settled(j) /\ Served(j)
        BY <2>1, BeginsAlone
    <2>3. Settled(j)' /\ Served(j)'
        BY <2>1, <2>2 DEF Settled, Served, InStep, ActiveJobs, Present
    <2>4. op'[x].pc = "listing"
        BY <1>2 DEF SwitchProject, GoOp, TypeInv
    <2>5. OpFits(x, j)'
        BY <2>4 DEF OpFits, Applying, Deleting, Toggling
    <2> QED
        BY <1>1, <2>2, <2>3, <2>5, OwnJob DEF Quiet
<1>3. CASE ListJobs(x) \/ ListFails(x) \/ ApplyAll(x)
    <2>1. op[x].pc \in {"listing", "applying_all"} /\ UNCHANGED <<db, overlap, untold>>
        BY <1>3 DEF ListJobs, ListFails, ApplyAll, history, jobVars
    <2>2. j \in Touches(x) /\ Clean(j) /\ ~Applying(x, j) /\ ~Deleting(x, j)
        BY <2>1 DEF Touches, Clean, Applying, Deleting
    <2>3. /\ \A y \in Processes \ {x} : j \notin Touches(y) /\ op'[y] = op[y]
          /\ OpFits(x, j)
          /\ Settled(j)
          /\ Starting(x) \/ Served(j)
        BY <1>1, <2>2, Alone
    <2>4. CASE ListJobs(x)
        <3>1. /\ op'[x].pc = "applying_all" /\ op'[x].next = op[x].next
              /\ op'[x].rows = [i \in Jobs |-> IF i \in ActiveJobs THEN db[i].rev ELSE NoTask]
              /\ UNCHANGED <<tasks, users, parked>>
            BY <2>4 DEF ListJobs, GoOp, TypeInv, history
        <3>2. OpFits(x, j)'
            BY <2>1, <3>1 DEF OpFits, Applying, Deleting, Toggling, ActiveJobs, Present
        <3>3. Settled(j)' /\ (Served(j) => Served(j)') /\ (Starting(x) => Starting(x)')
            BY <2>1, <2>3, <3>1 DEF Settled, Served, Starting, InStep, ActiveJobs, Present
        <3> QED
            BY <2>3, <3>2, <3>3, OwnJob
    <2>5. CASE ListFails(x)
        <3>1. op'[x].pc \in {"off", "idle"} /\ parked'[j] /\ UNCHANGED <<tasks, users>>
            BY <2>5 DEF ListFails, GoOp, TypeInv, Idle
        <3>2. OpFits(x, j)'
            BY <3>1 DEF OpFits, Applying, Deleting, Toggling
        <3>3. Settled(j)' /\ Served(j)'
            BY <2>1, <2>3, <3>1 DEF Settled, Served, InStep, ActiveJobs, Present
        <3> QED
            BY <2>3, <3>2, <3>3, OwnJob
    <2>6. CASE ApplyAll(x)
        <3>1. /\ op[x].pc = "applying_all" /\ op[x].next \in {"start", "stop"}
              /\ op[x].rows[j] = IF j \in ActiveJobs THEN db[j].rev ELSE NoTask
            BY <2>3, <2>6 DEF ApplyAll, OpFits, TypeInv, OpState
        <3>2. (op[x].rows[j] # NoTask) <=> (j \in ActiveJobs)
            BY <3>1, ConstantsAssumption DEF ActiveJobs, TypeInv, TypeOK
        <3>3. op'[x].pc \in {"off", "idle"}
            BY <2>6 DEF ApplyAll, GoOp, TypeInv, Idle
        <3>4. OpFits(x, j)'
            BY <3>3 DEF OpFits, Applying, Deleting, Toggling
        <3>5. Main \in Services
            BY ConstantsAssumption
        <3>6. CASE j \notin ActiveJobs
            <4>1. users'[j] = users[j] /\ \A s \in Services : tasks'[s][j] = tasks[s][j]
                BY <2>6, <3>2, <3>5, <3>6 DEF ApplyAll, TypeInv, TypeOK
            <4>2. Settled(j)' /\ Served(j)'
                BY <2>1, <2>3, <3>6, <4>1 DEF Settled, Served, InStep, ActiveJobs, Present
            <4> QED
                BY <2>3, <3>4, <4>2, OwnJob
        <3>7. CASE j \in ActiveJobs /\ op[x].next = "start"
            <4>1. /\ users'[j] = users[j] \cup {Main}
                  /\ tasks'[Main][j] = db[j].rev
                BY <2>6, <3>1, <3>2, <3>5, <3>7 DEF ApplyAll, TypeInv, TypeOK
            <4>2. Settled(j)'
                BY <2>1, <3>5, <3>7, <4>1 DEF Settled, InStep, ActiveJobs, Present
            <4>3. Served(j)'
                BY <3>1, <3>2, <3>5, <3>7, <4>1 DEF Served
            <4> QED
                BY <2>3, <3>4, <4>2, <4>3, OwnJob
        <3>8. CASE j \in ActiveJobs /\ op[x].next = "stop"
            <4>1. /\ users'[j] = users[j] /\ parked'[j]
                  /\ \A s \in Services : tasks'[s][j] \in {NoTask, tasks[s][j]}
                BY <2>6, <3>2, <3>5, <3>8 DEF ApplyAll, TypeInv, TypeOK
            <4>2. Settled(j)' /\ Served(j)'
                BY <2>1, <2>3, <4>1 DEF Settled, Served, InStep, ActiveJobs, Present
            <4> QED
                BY <2>3, <3>4, <4>2, OwnJob
        <3> QED
            BY <3>1, <3>6, <3>7, <3>8
    <2> QED
        BY <1>3, <2>4, <2>5, <2>6
<1> QED
    BY <1>2, <1>3

\* A process that has just been started has no timers and is about to create them.
LEMMA FreshTimers ==
    ASSUME op = [x \in Processes |-> IF x = Boot THEN [pc |-> "listing", next |-> "start"] ELSE Idle],
           tasks = [s \in Services |-> [j \in Jobs |-> NoTask]]
    PROVE  TimerInv
<1> SUFFICES ASSUME NEW j \in Jobs
             PROVE  JobInv(j)
    BY DEF TimerInv
<1>1. Boot \in Processes /\ Starting(Boot)
    BY DEF Starting, Processes
<1>2. \A x \in Processes : x # Boot => op[x].pc = "idle"
    BY DEF Idle
<1>3. op[Boot].pc = "listing"
    BY <1>1
<1>4. \A x \in Processes : j \in Touches(x) => x = Boot
    BY <1>2 DEF Touches
<1>5. \A x \in Processes : OpFits(x, j)
    BY <1>2, <1>3 DEF OpFits, Applying, Deleting, Toggling
<1>6. Settled(j)
    BY DEF Settled
<1> QED
    BY <1>1, <1>4, <1>5, <1>6 DEF JobInv

\* One step keeps TimerInv.
LEMMA NextKeepsTimers ==
    ASSUME TypeInv, TimerInv, [Next]_vars
    PROVE  TimerInv'
<1>1. ASSUME UNCHANGED <<jobVars, tasks, op, history>>
      PROVE  TimerInv'
    <2>1. \A x \in Processes, j \in Jobs :
            /\ OpFits(x, j)' <=> OpFits(x, j)
            /\ Applying(x, j)' <=> Applying(x, j)
            /\ Deleting(x, j)' <=> Deleting(x, j)
            /\ Starting(x)' <=> Starting(x)
            /\ Touches(x)' = Touches(x)
        BY <1>1 DEF OpFits, Applying, Deleting, Toggling, Starting, Touches, ActiveJobs, Present, jobVars, history
    <2>2. \A j \in Jobs :
            /\ Clean(j)' <=> Clean(j)
            /\ Settled(j)' <=> Settled(j)
            /\ Served(j)' <=> Served(j)
        BY <1>1 DEF Clean, Settled, Served, InStep, ActiveJobs, Present, jobVars, history
    <2> QED
        BY <2>1, <2>2 DEF TimerInv, JobInv
<1>2. ASSUME NEW x \in Processes, Operate(x)
      PROVE  TimerInv'
    <2>1. CASE PurgeProject(x)
        BY <2>1 DEF PurgeProject, TimerInv, JobInv, Clean
    <2> QED
        BY <1>2, <2>1, BeginKeepsTimers, EndKeepsTimers, ListKeepsTimers DEF Operate
<1>3. ASSUME NEW n \in Execs, Start(n) \/ Execute(n) \/ ReadBody(n)
      PROVE  TimerInv'
    BY <1>1, <1>3 DEF Start, RunNow, Tick, Execute, Skip, InsertRun, Act, Performed, FailedAttempt, ReadBody, RecordSuccess, Count, RecordFails,
        RecordFailure, CatchFails
<1>4. CASE Restart
    <2>1. /\ op' = [x \in Processes |-> IF x = Boot THEN [pc |-> "listing", next |-> "start"] ELSE Idle]
          /\ tasks' = [s \in Services |-> [j \in Jobs |-> NoTask]]
        BY <1>4 DEF Restart
    <2> SUFFICES ASSUME NEW j \in Jobs
                 PROVE  JobInv(j)'
        BY DEF TimerInv
    <2>2. Boot \in Processes /\ Starting(Boot)'
        BY <2>1 DEF Starting, Processes
    <2>3. \A x \in Processes : x # Boot => op'[x].pc = "idle"
        BY <2>1 DEF Idle
    <2>4. op'[Boot].pc = "listing"
        BY <2>1, <2>2
    <2>5. \A x \in Processes : j \in Touches(x)' => x = Boot
        BY <2>3 DEF Touches
    <2>6. \A x \in Processes : OpFits(x, j)'
        BY <2>3, <2>4 DEF OpFits, Applying, Deleting, Toggling
    <2>7. Settled(j)'
        BY <2>1 DEF Settled
    <2> QED
        BY <2>2, <2>5, <2>6, <2>7 DEF JobInv
<1>5. CASE UNCHANGED vars
    BY <1>1, <1>5 DEF vars
<1> QED
    BY <1>2, <1>3, <1>4, <1>5 DEF Next

\* The invariants of timers and table hold of every behaviour.
THEOREM TimersFollowTable == Spec => []TimerInv
<1>1. Init => TimerInv
    BY FreshTimers DEF Init
<1>2. TypeInv /\ TimerInv /\ [Next]_vars => TimerInv'
    BY NextKeepsTimers
<1> QED
    BY <1>1, <1>2, TypeInvariant, PTL DEF Spec

\* A timer of a deleted, paused or changed job is left behind only when several
\* services were used for the job, operations on it overlapped, or nobody was told
\* of a change (cron.service.ts:100-150, index.ts:222).
THEOREM GhostTasksAreExplained == Spec => []GhostTaskExplained
<1>1. TimerInv => GhostTaskExplained
    <2> SUFFICES ASSUME TimerInv, NEW s \in Services, NEW j \in Jobs,
                        tasks[s][j] # NoTask, ~InStep(s, j), Quiet(j), users[j] = {s}, Clean(j)
                 PROVE  FALSE
        BY DEF GhostTaskExplained, Clean
    <2>1. Settled(j)
        BY TouchesWhatItHolds DEF TimerInv, JobInv, Quiet
    <2> QED
        BY <2>1 DEF Settled
<1> QED
    BY <1>1, TimersFollowTable, PTL

\* An active job is without a timer only when operations overlapped, a result or a
\* list was lost, a delete failed after its stop, or the project was switched off.
THEOREM LostJobsAreExplained == Spec => []LostJobExplained
<1>1. TimerInv => LostJobExplained
    <2> SUFFICES ASSUME TimerInv, NEW j \in Jobs, j \in ActiveJobs, Quiet(j),
                        \A s \in Services : tasks[s][j] = NoTask, Clean(j), ~parked[j]
                 PROVE  FALSE
        BY DEF LostJobExplained, Clean, ActiveJobs
    <2>1. Served(j)
        BY TouchesWhatItHolds DEF TimerInv, JobInv, Quiet, Starting
    <2> QED
        BY <2>1 DEF Served
<1> QED
    BY <1>1, TimersFollowTable, PTL
====
