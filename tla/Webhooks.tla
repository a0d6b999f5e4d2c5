---- MODULE Webhooks ----
(***************************************************************************)
(* Webhooks: their table with its migration on the first call, and the     *)
(* dispatcher, which sends an event with retries and logs each attempt.    *)
(* A delivery belongs to no request: it goes on for minutes with the       *)
(* webhook as it was when the event looked it up.                          *)
(***************************************************************************)
EXTENDS ControlBase

CONSTANTS
    Hooks,      \* webhooks, all of one project
    Events,     \* changes announced, in the order of their numbers
    MaxRetries  \* bound of retry_count

VARIABLES
    layout,     \* of webhooks: "old" (table_name), "added" (both), "filled" (both), "new" (table_names)
    hooks,      \* the webhooks' rows
    hookLogs,   \* webhook_logs
    cleared,    \* history: webhooks whose log a removal has deleted
    sends,      \* deliveries by event and webhook
    lookups,    \* events announced whose webhooks are being looked up
    received,   \* what the receiver answered to the event, attempt by attempt
    announced   \* events announced so far

hookVars == <<layout, hooks, hookLogs, cleared, sends, lookups, received, announced>>

NoHook == [there |-> FALSE, gone |-> FALSE, active |-> FALSE, named |-> FALSE, retries |-> 0]
GoneHook(hook) == [NoHook EXCEPT !.gone = hook.there \/ hook.gone]
NoSend == [at |-> "none", attempt |-> 0, retries |-> 0]
Answered == {"ok", "4xx", "5xx", "none"}

HookRow == [there : BOOLEAN, gone : BOOLEAN, active : BOOLEAN, named : BOOLEAN, retries : Nat]
ASSUME HooksAssumption ==
    /\ MaxRetries \in Nat
    /\ \A s \in Scenarios :
        /\ s.hooks \in [Hooks -> HookRow] /\ \A k \in Hooks : s.hooks[k].active => s.hooks[k].there
        /\ s.layout \in {"old", "new"}
        /\ s.layout = "new" => \A k \in Hooks : s.hooks[k].there => s.hooks[k].named

HooksInit(s) ==
    /\ layout = s.layout
    /\ hooks = s.hooks
    /\ hookLogs = {} /\ cleared = {}
    /\ sends = [e \in Events |-> [k \in Hooks |-> NoSend]]
    /\ lookups = {}
    /\ received = [e \in Events |-> [k \in Hooks |-> <<>>]]
    /\ announced = {}

----------------------------------------------------------------------------
\* ensureTableNamesColumn, which create, findAll and update run first.  A failure is the
\* request's.
HookRequest(h, op) == BeginIn("projects", h, op, {LayoutObject}, "has column", NoData)
HookOps == {"add hook", "change hook", "list hooks"}
InHookOp(h, at) == \E op \in HookOps : At(h, op, at)
Unlaid == <<hooks, hookLogs, cleared, sends, lookups, received, announced>>

HasColumn(h) ==
    /\ InHookOp(h, "has column")
    /\ GoOn(h, IF layout = "old" THEN "add column" ELSE "work")
    /\ UNCHANGED hookVars

\* A second ALTER finds the column there.
AddColumn(h) ==
    /\ InHookOp(h, "add column") /\ layout = "old"
    /\ layout' = "added"
    /\ GoOn(h, "fill column")
    /\ UNCHANGED Unlaid

AddColumnRefused(h) ==
    /\ InHookOp(h, "add column") /\ layout # "old"
    /\ Finish(h, {})
    /\ UNCHANGED hookVars

FillColumn(h) ==
    /\ InHookOp(h, "fill column")
    /\ layout' = "filled"
    /\ hooks' = [k \in Hooks |-> [hooks[k] EXCEPT !.named = hooks[k].there]]
    /\ GoOn(h, "drop column")
    /\ UNCHANGED <<hookLogs, cleared, sends, lookups, received, announced>>

DropColumn(h) ==
    /\ InHookOp(h, "drop column")
    /\ layout' = "new"
    /\ GoOn(h, "work")
    /\ UNCHANGED Unlaid

\* The request's own statement, of any webhook and values.  An insert without table_name is
\* refused while that is NOT NULL, and one for a project that is gone.
AddHook(h) == HookRequest(h, "add hook") /\ UNCHANGED hookVars
ChangeHook(h) == HookRequest(h, "change hook") /\ UNCHANGED hookVars

\* findAll reads.
ListHooks(h) == HookRequest(h, "list hooks") /\ UNCHANGED hookVars

ReadHooks(h) ==
    /\ At(h, "list hooks", "work")
    /\ Finish(h, {})
    /\ UNCHANGED hookVars

InsertHook(h) ==
    /\ At(h, "add hook", "work")
    /\ IF layout = "new" /\ project.row
       THEN \E k \in Hooks, active \in BOOLEAN, retries \in 0 .. MaxRetries :
            /\ hooks[k] = NoHook
            /\ hooks' = [hooks EXCEPT ![k] = [there |-> TRUE, gone |-> FALSE, active |-> active,
                                              named |-> TRUE, retries |-> retries]]
       ELSE UNCHANGED hooks
    /\ Finish(h, {})
    /\ UNCHANGED <<layout, hookLogs, cleared, sends, lookups, received, announced>>

UpdateHook(h) ==
    /\ At(h, "change hook", "work")
    /\ \E k \in Hooks, active \in BOOLEAN, retries \in 0 .. MaxRetries :
        hooks' = IF hooks[k].there
                 THEN [hooks EXCEPT ![k] = [@ EXCEPT !.active = active, !.retries = retries]]
                 ELSE hooks
    /\ Finish(h, {})
    /\ UNCHANGED <<layout, hookLogs, cleared, sends, lookups, received, announced>>

\* delete: the logs, then the row, whose removal takes later logs with it.
RemoveHook(h) ==
    \E k \in Hooks :
        /\ hooks[k].there
        /\ BeginIn("projects", h, "remove hook", {}, "logs", [k |-> k])
        /\ UNCHANGED hookVars

DeleteLogs(h) ==
    /\ At(h, "remove hook", "logs")
    /\ hookLogs' = {l \in hookLogs : l.k # req[h].data.k}
    /\ cleared' = cleared \cup {req[h].data.k}
    /\ GoOn(h, "row")
    /\ UNCHANGED <<layout, hooks, sends, lookups, received, announced>>

DeleteHook(h) ==
    /\ At(h, "remove hook", "row")
    /\ hooks' = [hooks EXCEPT ![req[h].data.k] = GoneHook(@)]
    /\ hookLogs' = {l \in hookLogs : l.k # req[h].data.k}
    /\ Finish(h, {})
    /\ UNCHANGED <<layout, cleared, sends, lookups, received, announced>>

\* A restore of the project's backup removes its webhooks, the logs with them, and inserts
\* those of the backup, ids and all.  The backup is of a time when the table had the new
\* layout: the table refuses its rows in any other, and they stay as they are.
RestoreHooks(h) ==
    /\ BeginIn("projects", h, "restore hooks", {}, "row", NoData)
    /\ UNCHANGED hookVars

SavedHook ==
    {NoHook} \cup [there : {TRUE}, gone : {TRUE}, active : BOOLEAN, named : {TRUE}, retries : 0 .. MaxRetries]

ReplaceHooks(h) ==
    /\ At(h, "restore hooks", "row")
    /\ IF layout = "new" /\ project.row
       THEN /\ \E saved \in [Hooks -> SavedHook] :
                /\ \A k \in Hooks : saved[k].there => hooks[k].there \/ hooks[k].gone
                /\ hooks' = [k \in Hooks |-> IF saved[k].there THEN saved[k] ELSE GoneHook(hooks[k])]
            /\ hookLogs' = {} /\ cleared' = Hooks
       ELSE UNCHANGED <<hooks, hookLogs, cleared>>
    /\ Finish(h, {})
    /\ UNCHANGED <<layout, sends, lookups, received, announced>>

HookStepFails(h) ==
    /\ req[h] # NoReq /\ req[h].op \in HookOps \cup {"remove hook", "restore hooks"}
    /\ Fail(h, IF req[h].at \in {"fill column", "drop column"} THEN {LayoutObject} ELSE {})
    /\ UNCHANGED hookVars

----------------------------------------------------------------------------
\* A change is announced: the webhooks that want it are looked up later.
Announce(e) ==
    /\ "announce" \in menu
    /\ e \notin announced /\ \A f \in Events : f < e => f \in announced
    /\ announced' = announced \cup {e}
    /\ lookups' = lookups \cup {e}
    /\ UNCHANGED <<baseVars, layout, hooks, hookLogs, cleared, sends, received>>

\* SELECT ... WHERE is_active AND ? = ANY(table_names), and a dispatch for each row.
LookUp(e) ==
    /\ e \in lookups
    /\ lookups' = lookups \ {e}
    /\ sends' = [sends EXCEPT ![e] = [k \in Hooks |->
          IF layout # "old" /\ hooks[k].active /\ hooks[k].named
          THEN [at |-> "send", attempt |-> 1, retries |-> hooks[k].retries]
          ELSE NoSend]]
    /\ UNCHANGED <<baseVars, layout, hooks, hookLogs, cleared, received, announced>>

\* The lookup fails, or the module is switched off: no webhook hears of the event.
LookUpFails(e) ==
    /\ e \in lookups
    /\ Fault
    /\ lookups' = lookups \ {e}
    /\ UNCHANGED <<req, menu, calls, known, doubt, layout, hooks, hookLogs, cleared, sends, received, announced>>

Sending(e, k, at) == sends[e][k].at = at
Staged(s, at) == [s EXCEPT !.at = at]
Then(e, k, at) == sends' = [sends EXCEPT ![e][k] = Staged(@, at)]

\* The receiver answers; with no answer the call throws, whether it was received or not.
Send(e, k) ==
    /\ Sending(e, k, "send")
    /\ \E a \in Answered :
        /\ received' = [received EXCEPT ![e][k] = Append(@, a)]
        /\ Then(e, k, IF a = "none" THEN "logError" ELSE "log")
    /\ UNCHANGED <<baseVars, layout, hooks, hookLogs, cleared, lookups, announced>>

Answer(e, k) == received[e][k][sends[e][k].attempt]
Final(a) == a \in {"ok", "4xx"}

\* The end of an attempt: a pause of 2, 4, 8 ... seconds, and the next.
\* Mutant: retries as often as the webhook says, counting the first.
NextTryOneMore(s) ==
    IF s.attempt <= s.retries + 1 THEN [at |-> "send", attempt |-> s.attempt + 1, retries |-> s.retries]
    ELSE Staged(s, "done")

NextTry(s) ==
    IF s.attempt <= s.retries THEN [at |-> "send", attempt |-> s.attempt + 1, retries |-> s.retries]
    ELSE Staged(s, "done")
NextAttempt(e, k) == sends' = [sends EXCEPT ![e][k] = NextTry(@)]

Logged(e, k, error) ==
    hookLogs' = hookLogs \cup {[e |-> e, k |-> k, attempt |-> sends[e][k].attempt, error |-> error]}

\* Mutant: tries again after an answer that refuses the event.
LogAttemptInsists(e, k) ==
    /\ Sending(e, k, "log") /\ hooks[k].there
    /\ Logged(e, k, FALSE)
    /\ IF Answer(e, k) = "ok" THEN Then(e, k, "done") ELSE NextAttempt(e, k)
    /\ UNCHANGED <<baseVars, layout, hooks, cleared, lookups, received, announced>>

LogAttempt(e, k) ==
    /\ Sending(e, k, "log") /\ hooks[k].there
    /\ Logged(e, k, FALSE)
    /\ IF Final(Answer(e, k)) THEN Then(e, k, "done") ELSE NextAttempt(e, k)
    /\ UNCHANGED <<baseVars, layout, hooks, cleared, lookups, received, announced>>

\* The insert is refused because the webhook is gone, or fails, written or not: the catch
\* logs the attempt again.
LogFails(e, k) ==
    /\ Sending(e, k, "log")
    /\ IF hooks[k].there
       THEN Fault /\ (Logged(e, k, FALSE) \/ UNCHANGED hookLogs)
       ELSE UNCHANGED <<faults, hookLogs>>
    /\ Then(e, k, "logError")
    /\ UNCHANGED <<req, menu, calls, known, doubt, layout, hooks, cleared, lookups, received, announced>>

LogError(e, k) ==
    /\ Sending(e, k, "logError") /\ hooks[k].there
    /\ Logged(e, k, TRUE)
    /\ NextAttempt(e, k)
    /\ UNCHANGED <<baseVars, layout, hooks, cleared, lookups, received, announced>>

\* Nothing catches the second failure: the delivery ends here.
LogErrorFails(e, k) ==
    /\ Sending(e, k, "logError")
    /\ IF hooks[k].there THEN Fault ELSE UNCHANGED faults
    /\ Then(e, k, "rejected")
    /\ UNCHANGED <<req, menu, calls, known, doubt, layout, hooks, hookLogs, cleared, lookups, received, announced>>

Deliver(e, k) == Send(e, k) \/ LogAttempt(e, k) \/ LogFails(e, k) \/ LogError(e, k) \/ LogErrorFails(e, k)

Delivery ==
    \E e \in Events : Announce(e) \/ LookUp(e) \/ LookUpFails(e) \/ \E k \in Hooks : Deliver(e, k)

HookStep(h) ==
    \/ AddHook(h) \/ ChangeHook(h) \/ ListHooks(h) \/ RemoveHook(h) \/ RestoreHooks(h) \/ ReplaceHooks(h)
    \/ HasColumn(h) \/ AddColumn(h) \/ AddColumnRefused(h) \/ FillColumn(h) \/ DropColumn(h)
    \/ InsertHook(h) \/ UpdateHook(h) \/ ReadHooks(h) \/ DeleteLogs(h) \/ DeleteHook(h)
    \/ HookStepFails(h)

\* The worker stops: what was being looked up or sent is given up.
DeliveriesEnd ==
    /\ lookups' = {}
    /\ sends' = [e \in Events |-> [k \in Hooks |->
          IF sends[e][k].at \in {"none", "done", "rejected"} THEN sends[e][k]
          ELSE Staged(sends[e][k], "cut")]]
    /\ UNCHANGED <<layout, hooks, hookLogs, cleared, received, announced>>
====
