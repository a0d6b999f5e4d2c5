---- MODULE ControlBase ----
(***************************************************************************)
(* Handlers of the worker that keep two stores in step: a table of the     *)
(* worker and Redis, a table and the timers in memory, two tables.  A      *)
(* handler is a request at one of its awaits; between two steps any other  *)
(* handler may take one, a step may fail, and the worker may stop.         *)
(*                                                                         *)
(* An object is what such a handler brings to a new state in both stores:  *)
(* a token, a project, a monitor.  The history variable doubt holds the    *)
(* objects that a failure, or two handlers at once, may have left          *)
(* different in the two; Conflicts names the pairs of operations for which *)
(* being at work at once is reason for doubt.                              *)
(***************************************************************************)
EXTENDS Naturals, FiniteSets, Sequences

CONSTANTS
    Handlers,  \* requests being served at a time
    NoReq,
    Scenarios  \* what the clients ask for, how often, with how many failed steps, stops of the
               \* worker and losses of Redis' memory, and the worker's first tables

VARIABLES
    req,    \* what each handler is doing
    menu,   \* the operations of the scenario
    calls,  \* requests still to come
    faults, \* failures still to come
    project, \* whether the project has its row in projects, and its schema
    known,  \* the caches in memory that have the project: "projects" of nodeAuthMiddleware,
            \* "slugs" of the dynamic API; its deletion leaves both alone
    doubt   \* history: see above

NoData == [none |-> TRUE]
NoProject == [row |-> FALSE, schema |-> FALSE]

baseVars == <<req, menu, calls, faults, known, doubt>>

\* What the worker does on its own when it starts.
Boots == {"tokens", "monitors"}
Workers == Handlers \cup Boots

Conflicts == {
    {"create token"}, {"create token", "revoke token"},
    {"create token", "restore tokens"}, {"revoke token", "restore tokens"},
    {"create token", "delete project"},
    {"create project", "delete project"}, {"delete project"},
    {"switch project"},
    {"change monitor"}, {"change monitor", "remove monitor"}, {"add monitor", "change monitor"},
    {"add monitor", "remove monitor"}, {"start monitors", "change monitor"},
    {"start monitors", "remove monitor"},
    {"talk"}, {"talk", "forget session"}, {"talk", "disable plugin"},
    {"enable plugin"}, {"disable plugin"}, {"enable plugin", "disable plugin"},
    {"upload file", "delete project"},
    {"enable plugin", "delete project"}, {"enable plugin", "create project"},
    {"talk", "delete project"},
    {"login"}}

\* Objects of which a project has one.
ProjectObject == <<"project", "one">>
SwitchObject == <<"switch", "one">>
PluginObject == <<"plugin", "one">>
LayoutObject == <<"layout", "one">>

Busy(o) == {w \in Workers : req[w] # NoReq /\ o \in req[w].on}
Idle(o) == Busy(o) = {}

\* Handlers at work on o that op must not overlap.
Disturbed(op, o) == {w \in Busy(o) : {req[w].op, op} \in Conflicts}

----------------------------------------------------------------------------
\* A request arrives: on holds its objects, at the await it starts with, data the rest.
Arrive(h, op, on, at, data) ==
    LET hit == {o \in on : Disturbed(op, o) # {}} IN
    /\ req[h] = NoReq
    /\ req' = [w \in Workers |->
          IF w = h THEN [op |-> op, on |-> on, at |-> at, data |-> data, sure |-> on \ hit]
          ELSE IF req[w] # NoReq /\ {req[w].op, op} \in Conflicts
               THEN [req[w] EXCEPT !.sure = @ \ on]
          ELSE req[w]]
    /\ doubt' = doubt \cup hit

Called(h, op, on, at, data) ==
    /\ h \in Handlers /\ calls > 0 /\ op \in menu
    /\ calls' = calls - 1
    /\ Arrive(h, op, on, at, data)
    /\ UNCHANGED <<menu, faults>>

Begin(h, op, on, at, data) == Called(h, op, on, at, data) /\ UNCHANGED known

\* A request that looks for the project's row first, or finds it in a cache.
BeginIn(cache, h, op, on, at, data) ==
    /\ project.row \/ cache \in known
    /\ Called(h, op, on, at, data)
    /\ known' = known \cup {cache}

\* A cached project expires, after five and thirty minutes; while the project has its row the
\* next request would cache it again.
ForgetProject ==
    /\ ~project.row
    /\ \E cache \in known : known' = known \ {cache}
    /\ UNCHANGED <<req, menu, calls, faults, doubt>>

At(h, op, at) == req[h] # NoReq /\ req[h].op = op /\ req[h].at = at

Go(h, at, data) ==
    /\ req' = [req EXCEPT ![h].at = at, ![h].data = data]
    /\ UNCHANGED <<menu, calls, faults, known, doubt>>

GoOn(h, at) == Go(h, at, req[h].data)

\* The handler answers; settled are the objects it has brought to one state everywhere.
Finish(h, settled) ==
    /\ req' = [req EXCEPT ![h] = NoReq]
    /\ doubt' = doubt \ (settled \cap req[h].sure)
    /\ UNCHANGED <<menu, calls, faults, known>>

\* It answers although something was left undone.
Leave(h, doubtful) ==
    /\ req' = [req EXCEPT ![h] = NoReq]
    /\ doubt' = doubt \cup doubtful
    /\ UNCHANGED <<menu, calls, faults, known>>

Fault == faults > 0 /\ faults' = faults - 1

\* A step fails and the handler with it.
Fail(h, doubtful) ==
    /\ Fault
    /\ req' = [req EXCEPT ![h] = NoReq]
    /\ doubt' = doubt \cup doubtful
    /\ UNCHANGED <<menu, calls, known>>

\* A failure of the last step is ignored: the answer is a success.
FinishAnyway(h, settled) ==
    /\ Fault
    /\ req' = [req EXCEPT ![h] = NoReq]
    /\ doubt' = doubt \ (settled \cap req[h].sure)
    /\ UNCHANGED <<menu, calls, known>>

\* A step fails and the handler goes on.
Swallow(h, at, data, doubtful) ==
    /\ Fault
    /\ req' = [req EXCEPT ![h].at = at, ![h].data = data]
    /\ doubt' = doubt \cup doubtful
    /\ UNCHANGED <<menu, calls, known>>

BaseInit(s) ==
    /\ req = [w \in Workers |-> NoReq]
    /\ menu = s.menu /\ calls = s.calls
    /\ faults = s.faults
    /\ project = s.project
    /\ known = {}
    /\ doubt = {}
====
