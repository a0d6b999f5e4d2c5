---- MODULE ControlPlane ----
(***************************************************************************)
(* A project as the control plane makes, switches and deletes it, with the *)
(* worker's tables and services that belong to it: tokens, webhooks,       *)
(* uptime monitors, counters, the AI studio, files, quotas and players.     *)
(***************************************************************************)
EXTENDS ApiTokens, Webhooks, UptimeMonitors, Analytics, AiStudio, Files, Quotas, PlayerSessions

VARIABLES
    disabled,  \* project_disabled:<id> in Redis
    toldAlive, \* history: what the last answer about the project's existence was
    toldOff    \* history: what the last answer about its switch was, while Redis keeps it

projectVars == <<project, disabled, toldAlive, toldOff>>
vars == <<baseVars, projectVars, tokenVars, hookVars, monVars, statVars, studioVars, fileVars, quotaVars, playerVars>>

\* The requests there can be, NoReq being none of them: on objects, at an await, with data.
Objects == TokenObjects \cup MonObjects \cup SessionObjects \cup FileObjects \cup PlayerObjects
           \cup {ProjectObject, PluginObject, SwitchObject, LayoutObject}
Operations == {
    "create token", "revoke token", "restore tokens", "upload file", "remove file", "create project",
    "switch project", "delete project", "serve", "change quota", "login", "talk", "forget session",
    "remove hook", "restore hooks", "start monitors"} \cup HookOps \cup MonOps \cup PluginOps \cup UseOps
Awaits == {
    "key", "row", "list", "next", "set", "write", "insert", "find", "unlink", "schema", "flag", "files",
    "file rows", "plugins", "raw logs", "hooks", "token rows", "pluck", "keys", "uploads", "quota", "fetch",
    "wait", "store", "count", "notice", "update", "expire", "touch", "active", "project", "endpoints",
    "logs", "contexts", "delete", "endpoint", "purge", "context", "provider", "log", "logError", "save",
    "has column", "add column", "fill column", "drop column", "work", "tables", "timer", "timers"}
RequestData ==
    {NoData} \cup [t : Tokens, new : TokenRow] \cup [rows : [Tokens -> TokenRow], left : SUBSET Tokens]
    \cup [rows : [Tokens -> TokenRow], left : SUBSET Tokens, t : Tokens]
    \cup [f : Files] \cup [f : Files, unlinked : BOOLEAN] \cup [left : SUBSET Tokens] \cup [off : BOOLEAN]
    \cup [limit : Nat, since : Nat, of : Workers] \cup [was : {"none", "on", "off"}]
    \cup [s : Sessions] \cup [s : Sessions, n : Nat, endpoint : Nat, found : ContextRow]
    \cup [p : Players, key : Nat] \cup [key : Nat] \cup [k : Hooks]
    \cup [m : Monitors, new : MonRow] \cup [found : [Monitors -> MonRow]]
Requests == [op : Operations, on : SUBSET Objects, at : Awaits, data : RequestData, sure : SUBSET Objects]

ASSUME ControlAssumption ==
    /\ \A s \in Scenarios :
        /\ s.calls \in Nat /\ s.faults \in Nat
        /\ \E there \in BOOLEAN : s.project = [row |-> there, schema |-> there]
    /\ NoReq \notin Requests

Init ==
    \E s \in Scenarios :
        /\ BaseInit(s) /\ HooksInit(s) /\ StudioInit(s) /\ FilesInit(s) /\ QuotasInit(s)
        /\ TokensInit /\ MonitorsInit /\ StatsInit /\ PlayersInit
        /\ disabled = FALSE
        /\ toldAlive = s.project.row
        /\ toldOff = FALSE

----------------------------------------------------------------------------
\* POST /projects: the schema, then the row.
CreateProject(h) ==
    /\ Begin(h, "create project", {ProjectObject}, "schema", NoData)
    /\ UNCHANGED projectVars

MakeSchema(h) ==
    /\ At(h, "create project", "schema")
    /\ project' = [project EXCEPT !.schema = TRUE]
    /\ GoOn(h, "row")
    /\ UNCHANGED <<disabled, toldAlive, toldOff>>

MakeRow(h) ==
    /\ At(h, "create project", "row")
    /\ project' = [project EXCEPT !.row = TRUE]
    /\ toldAlive' = TRUE
    /\ Finish(h, {ProjectObject})
    /\ UNCHANGED <<disabled, toldOff>>

\* POST /projects/:id/toggle, after the cron jobs have been stopped or started.
Switch(h) ==
    \E off \in BOOLEAN :
        /\ Begin(h, "switch project", {SwitchObject}, "flag", [off |-> off])
        /\ UNCHANGED projectVars

SetFlag(h) ==
    /\ At(h, "switch project", "flag")
    /\ disabled' = req[h].data.off
    /\ toldOff' = req[h].data.off
    /\ Finish(h, {SwitchObject})
    /\ UNCHANGED <<project, toldAlive>>

\* A step fails, done or not.
ProjectFails(h) ==
    /\ req[h] # NoReq /\ req[h].op \in {"create project", "switch project"}
    /\ project' \in {project, [project EXCEPT !.schema = @ \/ req[h].at = "schema", !.row = @ \/ req[h].at = "row"]}
    /\ disabled' \in {disabled, IF req[h].at = "flag" THEN req[h].data.off ELSE disabled}
    /\ Fail(h, req[h].on)
    /\ UNCHANGED <<toldAlive, toldOff>>

ProjectStep(h) ==
    CreateProject(h) \/ MakeSchema(h) \/ MakeRow(h) \/ Switch(h) \/ SetFlag(h) \/ ProjectFails(h)

----------------------------------------------------------------------------
\* DELETE /projects/:id.  One step after the other, what fails of the first eight and of the
\* last being ignored.
DeleteSteps == <<"files", "file rows", "plugins", "raw logs", "hooks", "token rows", "pluck", "schema", "row", "uploads">>
AfterStep(at) == DeleteSteps[1 + CHOOSE i \in 1 .. Len(DeleteSteps) - 1 : DeleteSteps[i] = at]
Deleting(h, at) == At(h, "delete project", at)

DeleteProject(h) ==
    /\ Begin(h, "delete project", {ProjectObject, PluginObject} \cup TokenObjects \cup SessionObjects \cup FileObjects, "find", NoData)
    /\ UNCHANGED <<projectVars, tokenVars, hookVars, monVars, statVars, studioVars>>

FindProject(h) ==
    /\ Deleting(h, "find")
    /\ IF project.row THEN GoOn(h, "files") ELSE Finish(h, {})
    /\ UNCHANGED <<projectVars, tokenVars, hookVars, monVars, statVars, studioVars>>

DeleteFiles(h) ==
    /\ Deleting(h, "files")
    /\ DropFiles
    /\ GoOn(h, "file rows")

DeleteFileRows(h) ==
    /\ Deleting(h, "file rows")
    /\ DropFileRows
    /\ GoOn(h, "plugins")

\* A file that cannot be unlinked loses its row with the others; a failed statement ends
\* both steps.
KeepFile(h) ==
    /\ Deleting(h, "files")
    /\ \E f \in disk \cap fileRows :
        /\ disk' = disk \ (fileRows \ {f})
        /\ Swallow(h, "file rows", NoData, {FileObject(f)})
    /\ UNCHANGED fileRows

DeleteFilesFail(h) ==
    /\ Deleting(h, "files") \/ Deleting(h, "file rows")
    /\ fileRows' \in {fileRows, IF req[h].at = "files" THEN fileRows ELSE {}}
    /\ Swallow(h, "plugins", NoData, FileObjects)
    /\ UNCHANGED disk

\* The directory goes last, with whatever is in it.
RemoveUploads(h) ==
    /\ Deleting(h, "uploads")
    /\ DropUploads
    /\ Finish(h, {ProjectObject})

RemoveUploadsFails(h) ==
    /\ Deleting(h, "uploads")
    /\ FinishAnyway(h, {ProjectObject})
    /\ UNCHANGED fileVars

FileDeletion(h) ==
    \/ DeleteFiles(h) \/ DeleteFileRows(h) \/ KeepFile(h) \/ DeleteFilesFail(h)
    \/ RemoveUploads(h) \/ RemoveUploadsFails(h)

DeletePlugins(h) ==
    /\ Deleting(h, "plugins")
    /\ plugin' = "none"
    /\ GoOn(h, "raw logs")
    /\ UNCHANGED <<projectVars, tokenVars, hookVars, monVars, statVars, studio, endpoint, contexts, said>>

DeleteRawLogs(h) ==
    /\ Deleting(h, "raw logs")
    /\ first' = Len(batches) + 1
    /\ GoOn(h, "hooks")
    /\ UNCHANGED <<projectVars, tokenVars, hookVars, monVars, studioVars,
                   buffer, raw, flush, stored, batches, seen, broken, trimmed>>

\* The logs go with their webhooks.
HooksGone ==
    /\ hooks' = [k \in Hooks |-> GoneHook(hooks[k])]
    /\ hookLogs' = {}
    /\ UNCHANGED <<layout, cleared, sends, lookups, received, announced>>

DeleteHooks(h) ==
    /\ Deleting(h, "hooks")
    /\ HooksGone
    /\ GoOn(h, "token rows")
    /\ UNCHANGED <<projectVars, tokenVars, monVars, statVars, studioVars>>

DeleteTokenRows(h) ==
    /\ Deleting(h, "token rows")
    /\ rows' = [t \in Tokens |-> NoToken]
    /\ GoOn(h, "pluck")
    /\ UNCHANGED <<projectVars, hookVars, monVars, statVars, studioVars, keys, late, told, lost, rowless>>

\* The hashes to delete from Redis are read from the rows that are left, and deleted one by one.
PluckHashes(h) ==
    /\ Deleting(h, "pluck")
    /\ LET found == {t \in Tokens : rows[t] # NoToken} IN
        Go(h, IF found = {} THEN "schema" ELSE "keys", [left |-> found])
    /\ UNCHANGED <<projectVars, tokenVars, hookVars, monVars, statVars, studioVars>>

DeleteKey(h) ==
    /\ Deleting(h, "keys")
    /\ \E t \in req[h].data.left :
        /\ keys' = [keys EXCEPT ![t] = NoToken]
        /\ IF req[h].data.left = {t} THEN Go(h, "schema", NoData) ELSE Go(h, "keys", [left |-> req[h].data.left \ {t}])
    /\ UNCHANGED <<projectVars, hookVars, monVars, statVars, studioVars, rows, late, told, lost, rowless>>

DeleteStepFails(h) ==
    /\ \E at \in {"plugins", "raw logs", "hooks", "token rows", "pluck"} :
        Deleting(h, at) /\ Swallow(h, AfterStep(at), NoData, IF at = "plugins" THEN {PluginObject} ELSE {})
    /\ UNCHANGED <<projectVars, tokenVars, hookVars, monVars, statVars, studioVars>>

DeleteKeysFail(h) ==
    /\ Deleting(h, "keys")
    /\ Swallow(h, "schema", NoData, {})
    /\ UNCHANGED <<projectVars, tokenVars, hookVars, monVars, statVars, studioVars>>

\* DROP SCHEMA ... CASCADE: the tables of the plugins go too, and the players'.
DropSchema(h) ==
    /\ Deleting(h, "schema")
    /\ project' = [project EXCEPT !.schema = FALSE]
    /\ studio' = {} /\ endpoint' = 0 /\ contexts' = NoContexts /\ said' = Silence
    /\ PlayersGone
    /\ Go(h, "row", NoData)
    /\ UNCHANGED <<disabled, toldAlive, toldOff, tokenVars, hookVars, statVars, plugin, monVars>>

\* The row, with the webhooks that refer to it.
DeleteRow(h) ==
    /\ Deleting(h, "row")
    /\ project' = [project EXCEPT !.row = FALSE]
    /\ HooksGone
    /\ toldAlive' = FALSE
    /\ told' = [t \in Tokens |-> NoToken] /\ rowless' = Tokens
    /\ GoOn(h, "uploads")
    /\ UNCHANGED <<disabled, toldOff, keys, rows, late, lost, monVars, statVars, studioVars>>

DeleteFails(h) ==
    /\ Deleting(h, "schema") \/ Deleting(h, "row")
    /\ Fail(h, {ProjectObject, PluginObject} \cup TokenObjects)
    /\ UNCHANGED <<projectVars, tokenVars, hookVars, monVars, statVars, studioVars>>

RowDeletion(h) ==
    \/ DeleteProject(h) \/ FindProject(h) \/ DeletePlugins(h) \/ DeleteRawLogs(h) \/ DeleteHooks(h)
    \/ DeleteTokenRows(h) \/ PluckHashes(h) \/ DeleteKey(h) \/ DeleteStepFails(h) \/ DeleteKeysFail(h)
    \/ DeleteRow(h) \/ DeleteFails(h)

Deletion(h) ==
    \/ RowDeletion(h) /\ UNCHANGED <<fileVars, playerVars>>
    \/ DropSchema(h) /\ UNCHANGED fileVars
    \/ FileDeletion(h) /\ UNCHANGED <<projectVars, tokenVars, hookVars, monVars, statVars, studioVars, playerVars>>

----------------------------------------------------------------------------
\* What a request leaves in doubt when the worker stops at its await.  A monitor's row and
\* timer agree again once the worker has started.
CutOff(r) ==
    CASE r.op = "restore tokens" \/ r.op \in MonOps \cup {"start monitors"} -> {}
      [] r.op \in HookOps -> IF r.at \in {"fill column", "drop column"} THEN {LayoutObject} ELSE {}
      [] r.op = "talk" -> IF r.at = "save" THEN r.on ELSE {}
      [] r.op = "delete project" -> {ProjectObject, PluginObject} \cup TokenObjects \cup FileObjects
      [] OTHER -> r.on

Boot(op, on, at) == [op |-> op, on |-> on, at |-> at, data |-> NoData, sure |-> on]

\* The worker stops at any moment and starts again, which restores tokens and timers.
Restart ==
    /\ Fault
    /\ req' = [w \in Workers |->
          CASE w = "tokens" /\ "restore tokens" \in menu -> Boot("restore tokens", TokenObjects, "list")
            [] w = "monitors" /\ "start monitors" \in menu -> Boot("start monitors", MonObjects, "list")
            [] OTHER -> NoReq]
    /\ doubt' = (doubt \cup UNION {CutOff(req[w]) : w \in {w \in Workers : req[w] # NoReq}}) \ MonObjects
    /\ timers' = [m \in Monitors |-> NoMonitor]
    /\ checks' = {} /\ halted' = {}
    /\ DeliveriesEnd
    /\ CountersEnd
    /\ known' = {}
    /\ TouchesEnd
    /\ fetching' = "none" /\ refresh' = NoRefresh
    /\ behind' = (behind \/ \E h \in Handlers : At(h, "change quota", "notice"))
    /\ UNCHANGED <<menu, calls, projectVars, tokenVars, studioVars, mons, fileVars,
                   limit, quotaKey, locked, daily, notices, passed, highest>>

\* Redis comes back empty.
RedisLost ==
    /\ Fault
    /\ keys' = [t \in Tokens |-> NoToken]
    /\ disabled' = FALSE
    /\ lost' = Tokens /\ toldOff' = FALSE
    /\ req' = [w \in Workers |->
          IF req[w] = NoReq THEN NoReq ELSE [req[w] EXCEPT !.sure = @ \ (TokenObjects \cup {SwitchObject})]]
    /\ doubt' = doubt \cup UNION {req[w].on \cap (TokenObjects \cup {SwitchObject}) :
                     w \in {w \in Handlers : req[w] # NoReq /\ req[w].op # "delete project"}}
    /\ quotaKey' = NoQuota /\ behind' = FALSE /\ locked' = FALSE
    /\ daily' = 0 /\ passed' = 0
    /\ ActiveLost
    /\ UNCHANGED <<menu, calls, known, project, toldAlive, rows, late, told, rowless,
                   hookVars, monVars, statVars, studioVars, fileVars,
                   limit, fetching, refresh, notices, highest>>

\* A worker is at a step of its own operation, or free and asked for one of the menu: the same
\* guards the steps have, once for all the steps of a component.
Serves(w, ops) == IF req[w] = NoReq THEN calls > 0 /\ ops \cap menu # {} ELSE req[w].op \in ops

Next ==
    \/ \E w \in Workers :
        \/ Serves(w, {"create token", "revoke token", "restore tokens"}) /\ TokenStep(w)
           /\ UNCHANGED <<projectVars, hookVars, monVars, statVars, studioVars, fileVars, quotaVars, playerVars>>
        \/ Serves(w, HookOps \cup {"remove hook", "restore hooks"}) /\ HookStep(w)
           /\ UNCHANGED <<projectVars, tokenVars, monVars, statVars, studioVars, fileVars, quotaVars, playerVars>>
        \/ Serves(w, MonOps \cup {"start monitors"}) /\ MonitorStep(w)
           /\ UNCHANGED <<projectVars, tokenVars, hookVars, statVars, studioVars, fileVars, quotaVars, playerVars>>
        \/ Serves(w, PluginOps \cup {"talk", "forget session"}) /\ StudioStep(w)
           /\ UNCHANGED <<projectVars, tokenVars, hookVars, monVars, statVars, fileVars, quotaVars, playerVars>>
        \/ Serves(w, {"upload file", "remove file"}) /\ FileStep(w)
           /\ UNCHANGED <<projectVars, tokenVars, hookVars, monVars, statVars, studioVars, quotaVars, playerVars>>
        \/ Serves(w, {"serve", "change quota"}) /\ QuotaStep(w)
           /\ UNCHANGED <<projectVars, tokenVars, hookVars, monVars, statVars, studioVars, fileVars, playerVars>>
        \/ Serves(w, UseOps \cup {"login"}) /\ PlayerStep(w)
           /\ UNCHANGED <<projectVars, tokenVars, hookVars, monVars, statVars, studioVars, fileVars, quotaVars>>
        \/ Serves(w, {"create project", "switch project"}) /\ ProjectStep(w)
           /\ UNCHANGED <<tokenVars, hookVars, monVars, statVars, studioVars, fileVars, quotaVars, playerVars>>
        \/ Serves(w, {"delete project"}) /\ Deletion(w)
           /\ UNCHANGED quotaVars
    \/ StudioStatement /\ UNCHANGED <<projectVars, tokenVars, hookVars, monVars, statVars, fileVars, quotaVars, playerVars>>
    \/ TokenTime /\ UNCHANGED <<projectVars, hookVars, monVars, statVars, studioVars, fileVars, quotaVars, playerVars>>
    \/ Delivery /\ UNCHANGED <<projectVars, tokenVars, monVars, statVars, studioVars, fileVars, quotaVars, playerVars>>
    \/ MonitorTimers /\ UNCHANGED <<projectVars, tokenVars, hookVars, statVars, studioVars, fileVars, quotaVars, playerVars>>
    \/ Counting /\ UNCHANGED <<projectVars, tokenVars, hookVars, monVars, studioVars, fileVars, quotaVars, playerVars>>
    \/ QuotaTime /\ UNCHANGED <<projectVars, tokenVars, hookVars, monVars, statVars, studioVars, fileVars, playerVars>>
    \/ PlayerTime /\ UNCHANGED <<projectVars, tokenVars, hookVars, monVars, statVars, studioVars, fileVars, quotaVars>>
    \/ ForgetProject /\ UNCHANGED <<projectVars, tokenVars, hookVars, monVars, statVars, studioVars, fileVars, quotaVars, playerVars>>
    \/ Restart
    \/ RedisLost

Spec == Init /\ [][Next]_vars

----------------------------------------------------------------------------
\* A project's objects are known ones, a handler is sure of what it works on only, a
\* delivery under way has an attempt its webhook allows, a flush only entries it has taken,
\* and the studio keeps at most MaxKept exchanges of a session.
ControlTypeOK ==
    /\ \A w \in Workers : req[w] # NoReq => req[w].sure \subseteq req[w].on
    /\ doubt \subseteq Objects
    /\ \A t \in Tokens : keys[t].rev \in Nat /\ rows[t].rev \in Nat /\ told[t].rev \in Nat
    /\ \A e \in Events, k \in Hooks :
        sends[e][k].at \in {"send", "log", "logError"} => sends[e][k].attempt \in 1 .. sends[e][k].retries + 1
    /\ \A f \in Flushes : flush[f].at = "bucket" <=> flush[f].order # <<>>
    /\ disk \cup fileRows \subseteq Files /\ quotaKey.limit \in Limits \cup {0}
    /\ \A r \in players : r.of \in Players /\ r.age \in 0 .. SessionTtl + 1
    /\ \A a \in active : a.left \in 1 .. ActiveTicks /\ \A b \in active : a.key = b.key => a = b
    /\ \A s \in Sessions : Len(contexts[s].kept) <= MaxKept /\ contexts[s].tokens \in Nat

\* authenticateAiRequest.
Accepts(t) == project.row /\ ~disabled /\ keys[t] # NoToken /\ ~Expired(keys[t])

\* A token is accepted just as the last tokens/sync had it, while its project is there and
\* switched on: a token revoked or replaced comes back only by a restore of a row that the
\* table failed to change, and a good one is refused only when Redis has lost its memory
\* and no restore has gone through since.
TokensAgree ==
    \A t \in Tokens :
        (Idle(TokenObject(t)) /\ TokenObject(t) \notin doubt) =>
            /\ Accepts(t) => (keys[t] = told[t] \/ t \in rowless)
            /\ (told[t] # NoToken /\ ~Expired(told[t]) /\ project.row /\ ~disabled /\ t \notin lost) => Accepts(t)
            /\ t \notin rowless => (rows[t] = told[t] \/ (rows[t] = NoToken /\ Expired(told[t])))

\* The project's row and schema are there together as the control plane was told, and the
\* switch is as it was told.
ProjectAgrees ==
    /\ (Idle(ProjectObject) /\ ProjectObject \notin doubt) => project = [row |-> toldAlive, schema |-> toldAlive]
    /\ (Idle(SwitchObject) /\ SwitchObject \notin doubt) => disabled = toldOff

\* A file is on the disk exactly when it has its row.
FilesAgree ==
    \A f \in Files : (Idle(FileObject(f)) /\ FileObject(f) \notin doubt) => (f \in disk <=> f \in fileRows)

\* The quota kept is the control plane's, unless its notice is still to come, failed, or was
\* overtaken by a fetch that had asked before it; no more requests of a day are let through
\* by their count than the limit has ever allowed, those not among them that are let through
\* because counting failed; and requests wait for a fetch under way only.
QuotaAgrees ==
    /\ quotaKey.age \in {"fresh", "soft"} =>
        quotaKey.limit = limit \/ behind \/ \E h \in Handlers : At(h, "change quota", "notice")
    /\ passed <= highest
    /\ \A h \in Handlers : At(h, "serve", "wait") =>
        LET of == req[h].data.of IN At(of, "serve", "fetch") \/ At(of, "serve", "store")

\* The table of webhooks keeps a layout between the two only when its migration failed, and
\* has the names of all its webhooks' tables in the new one.
LayoutAgrees ==
    /\ (Idle(LayoutObject) /\ LayoutObject \notin doubt) => layout \in {"old", "new"}
    /\ layout = "new" => \A k \in Hooks : hooks[k].there => hooks[k].named

\* What is kept in two stores, or in two places of one, agrees wherever no request works on it and no failed or
\* conflicting request has left it in doubt: tokens in Redis and in the table, the project's
\* row, schema and switch, files on the disk and in the table, the quota in Redis and at the
\* control plane, and the webhooks with the layout of their table.
StoresAgree == TokensAgree /\ ProjectAgrees /\ FilesAgree /\ QuotaAgrees /\ LayoutAgrees

\* A monitor that no request and no start-up works on, and that no failure or conflict has
\* left in doubt, has a timer exactly when it is active, and the timer checks what the row
\* says: after any changes, removals and restarts.  Or it has none because a delete sent
\* through another project has stopped it, and nothing has set it since.  Its checks under
\* way are of the row, or began before the last change.
MonitorExplained ==
    \A m \in Monitors :
        (Idle(MonObject(m)) /\ MonObject(m) \notin doubt) =>
            /\ \/ timers[m] = IF mons[m].active THEN mons[m] ELSE NoMonitor
               \/ timers[m] = NoMonitor /\ m \in halted
            /\ \A c \in checks : (c.m = m /\ ~c.old) => (mons[m].active /\ c.rev = mons[m].rev)

\* The dispatcher catches the failure to log an attempt like a failure to send it, logs the
\* attempt as an error and goes on to the next, whatever the receiver had answered.
SentAgainUnlogged(e, k, i) == [e |-> e, k |-> k, attempt |-> i, error |-> TRUE] \in hookLogs

\* A removal, also by a restore that brings the webhook back, takes the logs that would tell.
LogsRemoved(k) == hooks[k].gone \/ k \in cleared

\* An event is sent to a webhook at most once and retry_count times more; again after an
\* answer of success or refusal, which should end the delivery, only when the log of that
\* attempt failed, or the webhook has been removed since; a delivery ends without such an
\* answer only after all attempts, when the worker stops, or when even the log of the error
\* failed; and every attempt of one that goes on or is done is logged, while the logs stay.
DeliveryExplained ==
    /\ \A e \in Events, k \in Hooks :
        LET s == sends[e][k]  answers == received[e][k] IN
        /\ Len(answers) <= s.retries + 1
        /\ \A i \in 1 .. Len(answers) - 1 :
            Final(answers[i]) => SentAgainUnlogged(e, k, i) \/ LogsRemoved(k)
        /\ (s.at = "done" /\ ~\E i \in 1 .. Len(answers) : Final(answers[i])) => Len(answers) = s.retries + 1
        /\ (s.at \in {"done", "send"} /\ hooks[k].there /\ k \notin cleared) =>
            \A i \in 1 .. Len(answers) : \E l \in hookLogs : l.e = e /\ l.k = k /\ l.attempt = i

\* A request is counted at most once, whatever flushes overlap and fail, and not at all only
\* when a flush that had taken it with others failed at one of them, or the worker stopped;
\* the raw log is bounded by its limit and one batch once it has been trimmed.
FlushExplained ==
    /\ \A p \in Paths :
        LET counted == stored[p] + buffer.count[p] + InFlight(p) IN
            /\ counted <= seen[p]
            /\ counted = seen[p] \/ p \in broken
    /\ ((\A f \in Flushes : flush[f] = NoFlush) /\ trimmed) => RawRows(first) <= RawLimit + BatchSize

\* The AI studio's: a session that no call works on, and whose calls have neither overlapped
\* nor failed, has the last exchanges that were answered, and the count of all their tokens,
\* since the studio's tables were last made: disabling the plugin, also by the gateway's
\* disable_plugin, drops them with all their rows.
ConversationsKept ==
    \A s \in Sessions :
        (Idle(SessionObject(s)) /\ SessionObject(s) \notin doubt) =>
            contexts[s].kept = said[s].kept /\ contexts[s].tokens = said[s].tokens

\* The studio has its tables exactly when it is enabled, and none once it is disabled, so that
\* nothing of before comes back with it; unless its switching overlapped or failed.
StudioTablesKept ==
    (Idle(PluginObject) /\ PluginObject \notin doubt) =>
        studio = IF plugin = "on" THEN StudioTables ELSE {}

\* A player whose logins have neither overlapped nor failed has one row; its key is that of
\* the last login or none; and a session that has not been ended is accepted until it has
\* been idle for its time less that of the key in Redis, unless a touch of it was lost.
PlayersKept ==
    \A p \in Players :
        (Idle(PlayerObject(p)) /\ PlayerObject(p) \notin doubt) =>
            LET last == issued[p] IN
            /\ Cardinality(RowsOf(p)) <= 1
            /\ \A r \in RowsOf(p) : r.key \in {0, last.key}
            /\ (last.key \notin {0} \cup neglected \cup touches /\ last.idle + ActiveTicks <= SessionTtl) =>
                \E r \in RowsOf(p) : r.key = last.key /\ ~Stale(r)

\* Sessions are as the calls that were answered have made them: the conversations of the AI
\* studio, with the tables they are kept in, and the logins of players.
SessionsExplained == ConversationsKept /\ StudioTablesKept /\ PlayersKept
====
