---- MODULE UptimeMonitors ----
(***************************************************************************)
(* Uptime monitors: a table, the timers of UptimeScheduler, which hold a   *)
(* monitor as it was when they were set, and the checks, which outlive     *)
(* their timer.                                                            *)
(***************************************************************************)
EXTENDS ControlBase

CONSTANT Monitors \* the monitors of one project

VARIABLES
    mons,       \* uptime_monitors
    timers,     \* what the timer of a monitor holds
    checks,     \* checks on their way, each with its monitor as it was when it began and, for
                \* the properties, whether the timer has been set or cleared since
    halted      \* history: monitors whose timer a request of another project has stopped and
                \* nothing has set since

monVars == <<mons, timers, checks, halted>>

NoMonitor == [rev |-> 0, active |-> FALSE, gone |-> FALSE]
Removed == [rev |-> 0, active |-> FALSE, gone |-> TRUE]
There(m) == mons[m].rev > 0
MonObject(m) == <<"monitor", m>>
MonObjects == {MonObject(m) : m \in Monitors}

MonitorsInit ==
    /\ mons = [m \in Monitors |-> NoMonitor] /\ timers = mons
    /\ checks = {} /\ halted = {}

----------------------------------------------------------------------------
\* The timers.  scheduleMonitor clears the old one and runs a check at once.
Check(m, rev) == [m |-> m, rev |-> rev, old |-> FALSE]
Before(m) == {IF c.m = m THEN [c EXCEPT !.old = TRUE] ELSE c : c \in checks}

\* Mutant: leaves the timer of a monitor that is no longer active.
ScheduleActiveOnly(m, row) ==
    /\ timers' = [timers EXCEPT ![m] = IF row.active THEN row ELSE @] /\ halted' = halted \ {m}
    /\ checks' = Before(m) \cup (IF row.active THEN {Check(m, row.rev)} ELSE {})

Schedule(m, row) ==
    /\ timers' = [timers EXCEPT ![m] = IF row.active THEN row ELSE NoMonitor] /\ halted' = halted \ {m}
    /\ checks' = Before(m) \cup (IF row.active THEN {Check(m, row.rev)} ELSE {})

Stop(m) == timers' = [timers EXCEPT ![m] = NoMonitor] /\ checks' = Before(m)

Tick(m) ==
    /\ timers[m] # NoMonitor
    /\ checks' = checks \cup {Check(m, timers[m].rev)}
    /\ UNCHANGED <<baseVars, mons, timers, halted>>

\* The page has answered or not, and the result is in uptime_logs of the project's schema, or
\* of public without the project, or is dropped when that table or PostgreSQL fails.
CheckEnds(c) ==
    /\ checks' = checks \ {c}
    /\ UNCHANGED <<baseVars, mons, timers, halted>>

\* A delete through another project stops the timer of any monitor before the statement
\* that looks for the row in that project finds none; it answers 204.
StopElsewhere(m) ==
    /\ mons[m] # NoMonitor
    /\ Stop(m) /\ halted' = halted \cup {m}
    /\ UNCHANGED <<baseVars, mons>>

MonitorTimers ==
    \/ \E m \in Monitors : Tick(m) \/ StopElsewhere(m)
    \/ \E c \in checks : CheckEnds(c)

----------------------------------------------------------------------------
\* The routes: ensureTables first, then the row, then the timer of the row as returned.
MonOps == {"add monitor", "change monitor", "remove monitor"}
OfMonitor(h, at) == \E op \in MonOps : At(h, op, at)

\* A scenario with requests about monitors has the start-up that sets their timers.
MonRow == [rev : Nat, active : BOOLEAN, gone : BOOLEAN]
ASSUME MonitorsAssumption ==
    /\ \A s \in Scenarios : s.calls \in Nat /\ (s.menu \cap MonOps # {} => "start monitors" \in s.menu)
    /\ NoReq \notin
          [op : MonOps \cup {"start monitors"}, on : SUBSET MonObjects,
           at : {"tables", "row", "timer", "list", "timers"},
           data : {NoData} \cup [m : Monitors, new : MonRow] \cup [found : [Monitors -> MonRow]],
           sure : SUBSET MonObjects]

AddMonitor(h) ==
    \E m \in Monitors, active \in BOOLEAN :
        /\ mons[m] = NoMonitor /\ \A w \in Workers : req[w] # NoReq => req[w].op # "add monitor"
        /\ BeginIn("projects", h, "add monitor", {MonObject(m)}, "tables", [m |-> m, new |-> [rev |-> calls, active |-> active, gone |-> FALSE]])
        /\ UNCHANGED monVars

ChangeMonitor(h) ==
    \E m \in Monitors, active \in BOOLEAN :
        /\ BeginIn("projects", h, "change monitor", {MonObject(m)}, "tables", [m |-> m, new |-> [rev |-> calls, active |-> active, gone |-> FALSE]])
        /\ UNCHANGED monVars

RemoveMonitor(h) ==
    \E m \in Monitors :
        /\ BeginIn("projects", h, "remove monitor", {MonObject(m)}, "tables", [m |-> m, new |-> Removed])
        /\ UNCHANGED monVars

\* A delete stops the timer in the same step; without the schema the table cannot be made.
EnsureTables(h) ==
    /\ OfMonitor(h, "tables") /\ project.schema
    /\ IF req[h].op = "remove monitor" THEN Stop(req[h].data.m) ELSE UNCHANGED <<timers, checks>>
    /\ GoOn(h, "row")
    /\ UNCHANGED <<mons, halted>>

EnsureTablesFails(h) ==
    /\ OfMonitor(h, "tables") /\ ~project.schema
    /\ Finish(h, {})
    /\ UNCHANGED monVars

\* An update finds the row or answers that there is none.
Written(d, op) == IF op = "change monitor" /\ ~There(d.m) THEN mons ELSE [mons EXCEPT ![d.m] = d.new]

WriteMonitor(h) ==
    /\ OfMonitor(h, "row")
    /\ LET d == req[h].data IN
        /\ mons' = Written(d, req[h].op)
        /\ IF mons'[d.m] = d.new /\ d.new # Removed THEN GoOn(h, "timer")
           ELSE Finish(h, IF d.new = Removed THEN {MonObject(d.m)} ELSE {})
    /\ UNCHANGED <<timers, checks, halted>>

SetTimer(h) ==
    /\ OfMonitor(h, "timer")
    /\ LET d == req[h].data IN Schedule(d.m, d.new) /\ Finish(h, {MonObject(d.m)})
    /\ UNCHANGED mons

\* The write fails, having been done or not: the timer is not set, or is stopped already.
WriteMonitorFails(h) ==
    /\ OfMonitor(h, "row")
    /\ LET d == req[h].data IN
        /\ mons' \in {mons, Written(d, req[h].op)}
        /\ Fail(h, {MonObject(d.m)})
    /\ UNCHANGED <<timers, checks, halted>>

\* startAll: the active rows are read, and their timers set in one step.
ReadMonitors(h) ==
    /\ At(h, "start monitors", "list")
    /\ Go(h, "timers", [found |-> mons])
    /\ UNCHANGED monVars

SetTimers(h) ==
    /\ At(h, "start monitors", "timers")
    /\ LET found == {m \in Monitors : req[h].data.found[m].active} IN
        /\ timers' = [m \in Monitors |-> IF m \in found THEN req[h].data.found[m] ELSE timers[m]]
        /\ checks' = checks \cup {Check(m, req[h].data.found[m].rev) : m \in found}
        /\ halted' = halted \ found
    /\ Finish(h, {})
    /\ UNCHANGED mons

ReadMonitorsFails(h) ==
    /\ At(h, "start monitors", "list")
    /\ Fail(h, {MonObject(m) : m \in {m \in Monitors : There(m)}})
    /\ UNCHANGED monVars

MonitorStep(h) ==
    \/ AddMonitor(h) \/ ChangeMonitor(h) \/ RemoveMonitor(h)
    \/ EnsureTables(h) \/ EnsureTablesFails(h)
    \/ WriteMonitor(h) \/ SetTimer(h) \/ WriteMonitorFails(h)
    \/ ReadMonitors(h) \/ SetTimers(h) \/ ReadMonitorsFails(h)
====
