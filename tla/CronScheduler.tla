---- MODULE CronScheduler ----
(***************************************************************************)
(* Cron jobs are rows of cron_jobs; the timers that run them live in the   *)
(* memory of CronService objects.  The worker builds several of them, each *)
(* with its own map of timers: the one of index.ts:222, which starts the   *)
(* active jobs at boot and follows the switching of projects, the one of   *)
(* cron.routes.ts:9 behind the panel, and one in every AiGatewayService.   *)
(* An operation changes the shared table and the timers of the service it  *)
(* was called on.  A timer keeps the row it was scheduled with.            *)
(*                                                                         *)
(* The second half is executeJob: a run row is inserted, the action        *)
(* performed and its outcome written to two tables.                        *)
(***************************************************************************)
EXTENDS FiniteSets, Naturals

CONSTANTS
    Services,   \* CronService objects of the process
    Main,       \* the one built by index.ts; routes are served by the others
    Jobs,       \* identifiers of cron jobs of one project
    Handlers,   \* HTTP handlers, each running one operation after another
    Boot,       \* the start-up code, which runs startAll beside the handlers
    Execs,      \* executions of jobs; each happens once
    Attempts,   \* bound: attempts of one HTTP action (at most ten in the code)
    MaxRev,     \* bound: changes to the definitions of jobs
    MaxOps,     \* bound: operations begun
    MaxCrashes, \* bound: restarts of the process
    Absent,     \* an identifier not yet given to a job
    Deleted,    \* the job was deleted
    NoTask      \* no timer for a job in a service

ASSUME ConstantsAssumption ==
    /\ Main \in Services
    /\ Boot \notin Handlers
    /\ Absent # Deleted
    /\ \A m \in {Absent, Deleted} : m \notin [active : BOOLEAN, rev : Nat]
    /\ NoTask \notin Nat
    /\ MaxRev \in Nat /\ MaxOps \in Nat /\ MaxCrashes \in Nat /\ Attempts \in Nat

VARIABLES
    db,        \* the table cron_jobs: is_active, and a revision for the rest
    rev,       \* the last revision written
    tasks,     \* the revision each service's timer for a job was created with
    op,        \* where each handler, and the start-up code, is suspended
    exec,      \* where each execution is suspended
    runRow,    \* the status column of each execution's row in cron_job_runs
    acted,     \* history: the execution's action was performed
    lostRun,   \* history: a crash or a failed write ended the execution
    users,     \* history: services that changed or scheduled each job
    overlap,   \* history: two operations on the job were under way at once
    untold,    \* history: the table changed and no service was told
    parked,    \* history: a service stopped the job and left it active
    ops, crashes

jobVars == <<db, rev>>
history == <<users, overlap, untold, parked>>
execVars == <<exec, runRow, acted, lostRun>>
vars == <<jobVars, tasks, op, execVars, history, ops, crashes>>

Processes == Handlers \cup {Boot}

Present(j) == db[j] \notin {Absent, Deleted}
ActiveJobs == {j \in Jobs : Present(j) /\ db[j].active}

Idle == [pc |-> "idle"]

\* Jobs an operation under way may still stop or schedule.
Touches(x) ==
    CASE op[x].pc \in {"idle", "off"} -> {}
      [] op[x].pc \in {"listing", "applying_all"} -> Jobs
      [] OTHER -> {op[x].job}

Quiet(j) == \A x \in Processes : j \notin Touches(x)

----------------------------------------------------------------------------
\* A process that has just been started: listening, with startAll to run.
Init ==
    /\ db \in [Jobs -> [active : BOOLEAN, rev : {0}] \cup {Absent}]
    /\ rev = 0
    /\ tasks = [s \in Services |-> [j \in Jobs |-> NoTask]]
    /\ op = [x \in Processes |-> IF x = Boot THEN [pc |-> "listing", next |-> "start"] ELSE Idle]
    /\ exec = [n \in Execs |-> Idle]
    /\ runRow = [n \in Execs |-> "none"]
    /\ acted = [n \in Execs |-> FALSE]
    /\ lostRun = [n \in Execs |-> FALSE]
    /\ users = [j \in Jobs |-> {}]
    /\ overlap = [j \in Jobs |-> FALSE]
    /\ untold = [j \in Jobs |-> FALSE]
    /\ parked = [j \in Jobs |-> FALSE]
    /\ ops = 0
    /\ crashes = 0

\* An operation on these jobs begins.
Begin(x, js) ==
    /\ x \in Handlers
    /\ op[x].pc = "idle"
    /\ ops < MaxOps
    /\ ops' = ops + 1
    /\ overlap' = [j \in Jobs |-> overlap[j] \/ (j \in js /\ ~Quiet(j))]

Used(s, j) == users' = [users EXCEPT ![j] = @ \cup {s}]

GoOp(x, s) == op' = [op EXCEPT ![x] = s]

SetTask(s, j, t) == tasks' = [tasks EXCEPT ![s][j] = t]

NewRev == rev < MaxRev /\ rev' = rev + 1

----------------------------------------------------------------------------
\* The statement has committed and returned this row to the handler of service s.
Apply(s, j, row) == [pc |-> "applying", svc |-> s, job |-> j, row |-> row]

Create(x, s, j) ==
    /\ Begin(x, {j})
    /\ db[j] = Absent
    /\ NewRev
    /\ \E on \in BOOLEAN :
        LET row == [active |-> on, rev |-> rev'] IN
        /\ db' = [db EXCEPT ![j] = row]
        /\ GoOp(x, Apply(s, j, row))
    /\ Used(s, j)
    /\ UNCHANGED <<tasks, execVars, untold, parked, crashes>>

Update(x, s, j) ==
    /\ Begin(x, {j})
    /\ Present(j)
    /\ NewRev
    /\ \E on \in BOOLEAN :
        LET row == [active |-> on, rev |-> rev'] IN
        /\ db' = [db EXCEPT ![j] = row]
        /\ GoOp(x, Apply(s, j, row))
    /\ Used(s, j)
    /\ UNCHANGED <<tasks, execVars, untold, parked, crashes>>

ToggleRead(x, s, j) ==
    /\ Begin(x, {j})
    /\ Present(j)
    /\ GoOp(x, [pc |-> "toggling", svc |-> s, job |-> j, active |-> db[j].active])
    /\ Used(s, j)
    /\ UNCHANGED <<jobVars, tasks, execVars, untold, parked, crashes>>

\* The row may be gone by now: the update returns nothing, and the handler stops
\* the timer if it was pausing the job and throws if it was activating it.
ToggleWrite(x) ==
    LET o == op[x]
        row == [db[o.job] EXCEPT !.active = ~o.active] IN
    /\ o.pc = "toggling"
    /\ \/ /\ Present(o.job)
          /\ db' = [db EXCEPT ![o.job] = row]
          /\ GoOp(x, Apply(o.svc, o.job, row))
       \/ /\ ~Present(o.job)
          /\ GoOp(x, IF o.active THEN Apply(o.svc, o.job, [active |-> FALSE, rev |-> 0]) ELSE Idle)
          /\ UNCHANGED db
    /\ UNCHANGED <<rev, tasks, execVars, history, ops, crashes>>

\* Mutant of ApplyRow: an inactive row leaves the timer alone.
ApplyRowKeepsTimer(x) ==
    LET o == op[x] IN
    /\ o.pc = "applying"
    /\ IF o.row.active THEN SetTask(o.svc, o.job, o.row.rev) ELSE UNCHANGED tasks
    /\ GoOp(x, Idle)
    /\ UNCHANGED <<jobVars, execVars, history, ops, crashes>>

\* Mutant of ApplyRow: the old timer is stopped and no new one started.
ApplyRowStopsOnly(x) ==
    LET o == op[x] IN
    /\ o.pc = "applying"
    /\ SetTask(o.svc, o.job, NoTask)
    /\ GoOp(x, Idle)
    /\ UNCHANGED <<jobVars, execVars, history, ops, crashes>>

\* create, update and toggle end alike: the service's timer is replaced if the
\* returned row is active and stopped if it is not.
ApplyRow(x) ==
    LET o == op[x] IN
    /\ o.pc = "applying"
    /\ SetTask(o.svc, o.job, IF o.row.active THEN o.row.rev ELSE NoTask)
    /\ GoOp(x, Idle)
    /\ UNCHANGED <<jobVars, execVars, history, ops, crashes>>

\* The connection broke after the statement committed: the handler throws.
ResultLost(x) ==
    /\ op[x].pc = "applying"
    /\ untold' = [untold EXCEPT ![op[x].job] = TRUE]
    /\ GoOp(x, Idle)
    /\ UNCHANGED <<jobVars, tasks, execVars, users, overlap, parked, ops, crashes>>

\* delete stops the timer first, before it knows whether the job exists ...
DeleteStop(x, s, j) ==
    /\ Begin(x, {j})
    /\ db[j] # Absent
    /\ SetTask(s, j, NoTask)
    /\ GoOp(x, [pc |-> "deleting", svc |-> s, job |-> j])
    /\ Used(s, j)
    /\ UNCHANGED <<jobVars, execVars, untold, parked, crashes>>

\* ... then the row, and by its foreign key the rows of its runs.
DeleteRow(x) ==
    LET j == op[x].job IN
    /\ op[x].pc = "deleting"
    /\ db' = IF Present(j) THEN [db EXCEPT ![j] = Deleted] ELSE db
    /\ runRow' = [n \in Execs |-> IF exec[n].pc # "idle" /\ exec[n].job = j /\ runRow[n] # "none"
                                  THEN "gone" ELSE runRow[n]]
    /\ GoOp(x, Idle)
    /\ UNCHANGED <<rev, tasks, exec, acted, lostRun, history, ops, crashes>>

\* The statement fails: the job stays active in the table and without its timer.
DeleteFails(x) ==
    /\ op[x].pc = "deleting"
    /\ parked' = [parked EXCEPT ![op[x].job] = TRUE]
    /\ GoOp(x, Idle)
    /\ UNCHANGED <<jobVars, tasks, execVars, users, overlap, untold, ops, crashes>>

\* The project is switched on or off: index.ts's service lists the active jobs ...
SwitchProject(x) ==
    /\ Begin(x, Jobs)
    /\ \E next \in {"start", "stop"} : GoOp(x, [pc |-> "listing", next |-> next])
    /\ UNCHANGED <<jobVars, tasks, execVars, users, untold, parked, crashes>>

ListJobs(x) ==
    /\ op[x].pc = "listing"
    /\ GoOp(x, [pc |-> "applying_all", next |-> op[x].next, rows |-> [j \in Jobs |-> IF j \in ActiveJobs THEN db[j].rev ELSE NoTask]])
    /\ UNCHANGED <<jobVars, tasks, execVars, history, ops, crashes>>

\* ... and starts or stops its own timers for them, in one go.
ApplyAll(x) ==
    LET listed == {j \in Jobs : op[x].rows[j] # NoTask}
        start == op[x].next = "start" IN
    /\ op[x].pc = "applying_all"
    /\ tasks' = [tasks EXCEPT ![Main] = [j \in Jobs |->
                    IF j \notin listed THEN @[j] ELSE IF start THEN op[x].rows[j] ELSE NoTask]]
    /\ users' = [j \in Jobs |-> IF start /\ j \in listed THEN users[j] \cup {Main} ELSE users[j]]
    /\ parked' = [j \in Jobs |-> parked[j] \/ (~start /\ j \in listed)]
    /\ GoOp(x, IF x = Boot THEN [pc |-> "off"] ELSE Idle)
    /\ UNCHANGED <<jobVars, execVars, overlap, untold, ops, crashes>>

\* The list cannot be read: start-up logs it and goes on without timers.
ListFails(x) ==
    /\ op[x].pc = "listing"
    /\ parked' = [j \in Jobs |-> TRUE]
    /\ GoOp(x, IF x = Boot THEN [pc |-> "off"] ELSE Idle)
    /\ UNCHANGED <<jobVars, tasks, execVars, users, overlap, untold, ops, crashes>>

\* Deleting a project deletes its jobs in the table and stops no timer.
PurgeProject(x) ==
    /\ Begin(x, {})
    /\ db' = [j \in Jobs |-> IF Present(j) THEN Deleted ELSE db[j]]
    /\ runRow' = [n \in Execs |-> IF runRow[n] = "none" THEN "none" ELSE "gone"]
    /\ untold' = [j \in Jobs |-> TRUE]
    /\ UNCHANGED <<rev, tasks, op, exec, acted, lostRun, users, parked, crashes>>

----------------------------------------------------------------------------
GoExec(n, s) == exec' = [exec EXCEPT ![n] = s]

At(n, p) == [exec[n] EXCEPT !.pc = p]

\* A timer fires with the row it captured ...
Tick(n, s, j) ==
    /\ exec[n].pc = "idle"
    /\ tasks[s][j] # NoTask
    /\ GoExec(n, [pc |-> "checking", job |-> j, rev |-> tasks[s][j], left |-> Attempts])
    /\ UNCHANGED <<jobVars, tasks, op, runRow, acted, lostRun, history, ops, crashes>>

\* ... or a job is run by hand with the row just read, active or not.
RunNow(n, j) ==
    /\ exec[n].pc = "idle"
    /\ Present(j)
    /\ GoExec(n, [pc |-> "checking", job |-> j, rev |-> db[j].rev, left |-> Attempts])
    /\ UNCHANGED <<jobVars, tasks, op, runRow, acted, lostRun, history, ops, crashes>>

\* The project's cron module is switched off.
Skip(n) ==
    /\ exec[n].pc = "checking"
    /\ GoExec(n, At(n, "over"))
    /\ UNCHANGED <<jobVars, tasks, op, runRow, acted, lostRun, history, ops, crashes>>

\* The foreign key refuses a run of a deleted job, and executeJob rejects.
InsertRun(n) ==
    /\ exec[n].pc = "checking"
    /\ IF Present(exec[n].job)
       THEN runRow' = [runRow EXCEPT ![n] = "running"] /\ GoExec(n, At(n, "acting"))
       ELSE UNCHANGED runRow /\ GoExec(n, At(n, "over"))
    /\ UNCHANGED <<jobVars, tasks, op, acted, lostRun, history, ops, crashes>>

\* An HTTP attempt threw, or its answer was not a success: try again or give up.
FailedAttempt(n) ==
    \/ GoExec(n, At(n, "failing"))
    \/ /\ exec[n].left > 1
       /\ GoExec(n, [pc |-> "acting", job |-> exec[n].job, rev |-> exec[n].rev, left |-> exec[n].left - 1])

Performed(n, done) == acted' = [acted EXCEPT ![n] = @ \/ done]

\* Mutant of Act: the outcome is recorded without waiting for the action.
ActWithoutWaiting(n) ==
    /\ exec[n].pc = "acting"
    /\ \E done \in BOOLEAN :
        /\ Performed(n, done)
        /\ FailedAttempt(n) \/ GoExec(n, At(n, "recording"))
    /\ UNCHANGED <<jobVars, tasks, op, runRow, lostRun, history, ops, crashes>>

\* The action, waited for under a time limit: the SQL succeeds, or the headers of
\* an HTTP answer arrive, or the attempt fails.  One that was performed may still
\* report a failure (an answer lost or late).
Act(n) ==
    /\ exec[n].pc = "acting"
    /\ \E done \in BOOLEAN :
        /\ Performed(n, done)
        /\ \/ FailedAttempt(n)
           \/ GoExec(n, At(n, "reading_error"))
           \/ done /\ \E next \in {"recording", "reading"} : GoExec(n, At(n, next))
    /\ UNCHANGED <<jobVars, tasks, op, runRow, lostRun, history, ops, crashes>>

\* The timer of the attempt is cleared before its body is read: a peer that never
\* ends the body is waited for without limit.
ReadBody(n) ==
    /\ exec[n].pc \in {"reading", "reading_error"}
    /\ \/ FailedAttempt(n)
       \/ exec[n].pc = "reading" /\ GoExec(n, At(n, "recording"))
    /\ UNCHANGED <<jobVars, tasks, op, runRow, acted, lostRun, history, ops, crashes>>

Mark(n, status) == runRow' = [runRow EXCEPT ![n] = IF @ = "gone" THEN "gone" ELSE status]

RecordSuccess(n) ==
    /\ exec[n].pc = "recording"
    /\ Mark(n, "success")
    /\ GoExec(n, At(n, "counting"))
    /\ UNCHANGED <<jobVars, tasks, op, acted, lostRun, history, ops, crashes>>

\* The second UPDATE, on cron_jobs, ends the execution.
Count(n) ==
    /\ exec[n].pc \in {"counting", "counting_failure"}
    /\ GoExec(n, At(n, "over"))
    /\ UNCHANGED <<jobVars, tasks, op, runRow, acted, lostRun, history, ops, crashes>>

\* Mutant of RecordFails: the UPDATEs of a success are outside the try block.
RecordFailsUncaught(n) ==
    /\ exec[n].pc \in {"recording", "counting"}
    /\ GoExec(n, At(n, "over"))
    /\ UNCHANGED <<jobVars, tasks, op, runRow, acted, lostRun, history, ops, crashes>>

\* Either UPDATE of a success that throws lands in the catch block.
RecordFails(n) ==
    /\ exec[n].pc \in {"recording", "counting"}
    /\ GoExec(n, At(n, "failing"))
    /\ UNCHANGED <<jobVars, tasks, op, runRow, acted, lostRun, history, ops, crashes>>

\* Mutant of RecordFailure: a status the table does not know.
RecordFailureAsError(n) ==
    /\ exec[n].pc = "failing"
    /\ Mark(n, "error")
    /\ GoExec(n, At(n, "counting_failure"))
    /\ UNCHANGED <<jobVars, tasks, op, acted, lostRun, history, ops, crashes>>

RecordFailure(n) ==
    /\ exec[n].pc = "failing"
    /\ Mark(n, "failed")
    /\ GoExec(n, At(n, "counting_failure"))
    /\ UNCHANGED <<jobVars, tasks, op, acted, lostRun, history, ops, crashes>>

\* An UPDATE of the catch block throws too: the promise is only logged.
CatchFails(n) ==
    /\ exec[n].pc \in {"failing", "counting_failure"}
    /\ GoExec(n, At(n, "over"))
    /\ lostRun' = [lostRun EXCEPT ![n] = TRUE]
    /\ UNCHANGED <<jobVars, tasks, op, runRow, acted, history, ops, crashes>>

\* The process dies and is started again.
Restart ==
    /\ crashes < MaxCrashes
    /\ crashes' = crashes + 1
    /\ tasks' = [s \in Services |-> [j \in Jobs |-> NoTask]]
    /\ op' = [x \in Processes |-> IF x = Boot THEN [pc |-> "listing", next |-> "start"] ELSE Idle]
    /\ exec' = [n \in Execs |-> IF exec[n].pc = "idle" THEN Idle ELSE At(n, "over")]
    /\ lostRun' = [n \in Execs |-> lostRun[n] \/ exec[n].pc \notin {"idle", "over"}]
    /\ users' = [j \in Jobs |-> {}]
    /\ overlap' = [j \in Jobs |-> FALSE]
    /\ untold' = [j \in Jobs |-> FALSE]
    /\ parked' = [j \in Jobs |-> FALSE]
    /\ UNCHANGED <<jobVars, runRow, acted, ops>>

----------------------------------------------------------------------------
Operate(x) ==
    \/ \E s \in Services \ {Main}, j \in Jobs :
        Create(x, s, j) \/ Update(x, s, j) \/ ToggleRead(x, s, j) \/ DeleteStop(x, s, j)
    \/ SwitchProject(x) \/ PurgeProject(x)
    \/ ToggleWrite(x) \/ ApplyRow(x) \/ ResultLost(x) \/ DeleteRow(x) \/ DeleteFails(x)
    \/ ListJobs(x) \/ ListFails(x) \/ ApplyAll(x)

Execute(n) ==
    \/ Skip(n) \/ InsertRun(n) \/ Act(n) \/ RecordSuccess(n) \/ Count(n)
    \/ RecordFails(n) \/ RecordFailure(n) \/ CatchFails(n)

Start(n) == \E j \in Jobs : RunNow(n, j) \/ \E s \in Services : Tick(n, s, j)

Next ==
    \/ \E x \in Processes : Operate(x)
    \/ \E n \in Execs : Start(n) \/ Execute(n) \/ ReadBody(n)
    \/ Restart

Spec == Init /\ [][Next]_vars

\* An execution that has begun goes on: every await in it has a time limit, except
\* the one for the body of an HTTP answer, of which nothing is assumed.
FairSpec == Spec /\ \A n \in Execs : WF_vars(Execute(n))

----------------------------------------------------------------------------
OpState ==
    [pc : {"idle", "off"}]
    \cup [pc : {"applying"}, svc : Services, job : Jobs, row : [active : BOOLEAN, rev : Nat]]
    \cup [pc : {"toggling"}, svc : Services, job : Jobs, active : BOOLEAN]
    \cup [pc : {"deleting"}, svc : Services, job : Jobs]
    \cup [pc : {"listing"}, next : {"start", "stop"}]
    \cup [pc : {"applying_all"}, next : {"start", "stop"}, rows : [Jobs -> Nat \cup {NoTask}]]

ExecState ==
    [pc : {"idle"}]
    \cup [pc : {"checking", "acting", "reading", "reading_error", "recording", "counting", "failing",
                "counting_failure", "over"},
          job : Jobs, rev : Nat, left : Nat]

\* Type invariant of the table, the timers, the handlers and the executions.
TypeOK ==
    /\ \A j \in Jobs : Present(j) => db[j] \in [active : BOOLEAN, rev : Nat]
    /\ rev \in Nat /\ ops \in Nat /\ crashes \in Nat
    /\ tasks \in [Services -> [Jobs -> Nat \cup {NoTask}]]
    /\ \A x \in Processes : op[x] \in OpState
    /\ \A n \in Execs : exec[n] \in ExecState
    /\ runRow \in [Execs -> {"none", "running", "success", "failed", "gone"}]
    /\ acted \in [Execs -> BOOLEAN] /\ lostRun \in [Execs -> BOOLEAN]
    /\ users \in [Jobs -> SUBSET Services]
    /\ overlap \in [Jobs -> BOOLEAN] /\ untold \in [Jobs -> BOOLEAN] /\ parked \in [Jobs -> BOOLEAN]

\* The timer runs what the table says is to be run.
InStep(s, j) == j \in ActiveJobs /\ db[j].rev = tasks[s][j]

\* A timer left behind by a deleted, paused or changed job is explained: another
\* service was used for that job, two operations on it overlapped, or the table
\* changed and no service was told.  One service used in sequence stays in step.
GhostTaskExplained ==
    \A s \in Services, j \in Jobs :
        tasks[s][j] # NoTask /\ ~InStep(s, j) /\ Quiet(j) =>
            users[j] # {s} \/ overlap[j] \/ untold[j]

\* An active job that no service runs is explained: operations overlapped, a result
\* or a list was lost, a delete failed after the stop, or the project was off.
LostJobExplained ==
    \A j \in ActiveJobs :
        Quiet(j) /\ (\A s \in Services : tasks[s][j] = NoTask) =>
            overlap[j] \/ untold[j] \/ parked[j]

\* A run recorded as a success performed its action, in whatever order deletes,
\* restarts and failures of the bookkeeping fell.
SuccessIsTrue == \A n \in Execs : runRow[n] = "success" => acted[n]

Reading(n) == exec[n].pc \in {"reading", "reading_error"}

\* A run does not stay "running" unless the process died, the database refused to
\* record its failure, or it waits for ever for the body of an HTTP answer, which
\* no timer of the code bounds.
RunsSettle ==
    \A n \in Execs : (runRow[n] = "running") ~> (runRow[n] # "running" \/ lostRun[n] \/ []Reading(n))

\* mcp-tools.ts:1005: "Active jobs run on schedule; inactive jobs are paused",
\* asked only of jobs whose operations never overlapped and were all completed.
PausedJobsDoNotRun ==
    [][\A n \in Execs, s \in Services, j \in Jobs :
        Tick(n, s, j) /\ Quiet(j) /\ Present(j) /\ ~overlap[j] /\ ~untold[j] => db[j].active]_vars
====
