---- MODULE AiStudio ----
(***************************************************************************)
(* The plugin manager for the AI studio, whose three tables it makes and   *)
(* drops in the project's schema, and the studio's conversations: a call   *)
(* reads the messages of a session, waits for a provider, and adds to them *)
(* what was said.                                                          *)
(***************************************************************************)
EXTENDS ControlBase

CONSTANTS
    Sessions,   \* session_id of an endpoint's callers
    MaxKept,    \* exchanges kept of a session (max_context_messages)
    TokenLimit  \* max_tokens_per_session; an exchange takes one

VARIABLES
    plugin,   \* the row in plugin_instances: "none", "on" or "off"
    studio,   \* the tables there are
    endpoint, \* the id of the endpoint's row, 0 when there is none
    contexts, \* ai_studio_contexts
    said      \* history: exchanges answered since a session began, and their tokens

\* slice(-0) would keep everything.
ASSUME StudioAssumption ==
    /\ MaxKept \in Nat \ {0} /\ TokenLimit \in Nat
    /\ \A s \in Scenarios : s.plugin \in {"none", "on", "off"}

studioVars == <<plugin, studio, endpoint, contexts, said>>

StudioTables == {"endpoints", "logs", "contexts"}
NoContext == [id |-> 0, kept |-> <<>>, tokens |-> 0]
ContextRow == [id : Nat, kept : Seq(Nat), tokens : Nat]
NothingSaid == [kept |-> <<>>, tokens |-> 0]
SessionObject(s) == <<"session", s>>
SessionObjects == {SessionObject(s) : s \in Sessions}
NoContexts == [s \in Sessions |-> NoContext]
Silence == [s \in Sessions |-> NothingSaid]

StudioInit(s) ==
    /\ plugin = s.plugin
    /\ studio = IF s.plugin = "on" THEN StudioTables ELSE {}
    /\ endpoint = IF s.plugin = "on" THEN 100 ELSE 0
    /\ contexts = NoContexts /\ said = Silence

\* Dropping a table takes the rows of those that refer to it along, but not the tables.
DropStudioTable(t) ==
    /\ studio' = studio \ {t}
    /\ endpoint' = IF t = "endpoints" THEN 0 ELSE endpoint
    /\ contexts' = IF t = "contexts" THEN NoContexts ELSE contexts
    /\ said' = IF t = "contexts" THEN Silence ELSE said

----------------------------------------------------------------------------
\* enablePlugin, disablePlugin: select, update or insert, then the tables.
SwitchPlugin(h, op) ==
    /\ BeginIn("projects", h, op, {PluginObject} \cup (IF op = "disable plugin" THEN SessionObjects ELSE {}), "find", NoData)
    /\ UNCHANGED studioVars

PluginOps == {"enable plugin", "disable plugin"}
OfPlugin(h, at) == \E op \in PluginOps : At(h, op, at)

FindPlugin(h) ==
    /\ OfPlugin(h, "find")
    /\ Go(h, "write", [was |-> plugin])
    /\ UNCHANGED studioVars

\* Two first inserts meet in the unique key; a row deleted with its project is not updated.
WritePlugin(h) ==
    /\ OfPlugin(h, "write")
    /\ IF req[h].data.was = "none" /\ plugin # "none" THEN Finish(h, {}) /\ UNCHANGED plugin
       ELSE /\ plugin' = IF req[h].data.was # "none" /\ plugin = "none" THEN plugin
                         ELSE IF req[h].op = "enable plugin" THEN "on" ELSE "off"
            /\ GoOn(h, "project")
    /\ UNCHANGED <<studio, endpoint, contexts, said>>

\* The tables are made only when the first of them is not there ...
FindTables(h) ==
    /\ OfPlugin(h, "project") /\ project.row
    /\ IF req[h].op = "enable plugin" /\ "endpoints" \in studio THEN Finish(h, {})
       ELSE GoOn(h, IF req[h].op = "enable plugin" THEN "endpoints" ELSE "contexts")
    /\ UNCHANGED studioVars

\* ... and not at all for a project that is gone, whose plugin is switched all the same.
FindNoProject(h) ==
    /\ OfPlugin(h, "project") /\ ~project.row
    /\ Leave(h, {PluginObject})
    /\ UNCHANGED studioVars

MakeTable(h) ==
    \E t \in StudioTables :
        /\ At(h, "enable plugin", t) /\ project.schema /\ t \notin studio
        /\ t # "endpoints" => "endpoints" \in studio
        /\ studio' = studio \cup {t}
        /\ IF t = "contexts" THEN Finish(h, {PluginObject})
           ELSE GoOn(h, IF t = "endpoints" THEN "logs" ELSE "contexts")
        /\ UNCHANGED <<plugin, endpoint, contexts, said>>

DropTable(h) ==
    \E t \in StudioTables :
        /\ At(h, "disable plugin", t)
        /\ DropStudioTable(t)
        /\ IF t = "endpoints" THEN Finish(h, {PluginObject})
           ELSE GoOn(h, IF t = "contexts" THEN "logs" ELSE "endpoints")
        /\ UNCHANGED plugin

\* The row's failure is the request's; what fails after it is swallowed.
PluginStepFails(h) ==
    /\ req[h] # NoReq /\ req[h].op \in PluginOps
    /\ Fail(h, {PluginObject})
    /\ UNCHANGED studioVars

\* CREATE TABLE finds the table of another request, or no schema, which is swallowed too.
MakeTableRefused(h) ==
    \E t \in StudioTables :
        /\ At(h, "enable plugin", t)
        /\ ~project.schema \/ t \in studio \/ (t # "endpoints" /\ "endpoints" \notin studio)
        /\ Leave(h, {PluginObject})
        /\ UNCHANGED studioVars

----------------------------------------------------------------------------
\* Endpoints, of which one matters here, and the deletion of a session: a statement each.
Interrupts(sessions) == {SessionObject(s) : s \in {s \in sessions : ~Idle(SessionObject(s))}}

WriteEndpoint(add) ==
    /\ (IF add THEN "add endpoint" ELSE "remove endpoint") \in menu /\ calls > 0 /\ calls' = calls - 1
    /\ "endpoints" \in studio /\ (endpoint = 0) = add
    /\ endpoint' = IF add THEN calls ELSE 0
    /\ contexts' = NoContexts /\ said' = Silence
    /\ doubt' = doubt \cup Interrupts(Sessions)
    /\ UNCHANGED <<req, menu, faults, known, plugin, studio>>

StudioStatement == \E add \in BOOLEAN : WriteEndpoint(add)

\* authenticateAiRequest looks for the project each time.
InStudio(h, op, on, at, data) == project.row /\ Begin(h, op, on, at, data)

ForgetSession(h) ==
    \E s \in Sessions :
        /\ InStudio(h, "forget session", {SessionObject(s)}, "delete", [s |-> s])
        /\ UNCHANGED studioVars

DeleteContext(h) ==
    /\ At(h, "forget session", "delete")
    /\ contexts' = [contexts EXCEPT ![req[h].data.s] = NoContext]
    /\ said' = [said EXCEPT ![req[h].data.s] = NothingSaid]
    /\ Finish(h, {SessionObject(req[h].data.s)})
    /\ UNCHANGED <<plugin, studio, endpoint>>

----------------------------------------------------------------------------
\* callEndpoint.  An exchange is known by the number of its call.
Talk(h) ==
    \E s \in Sessions :
        /\ InStudio(h, "talk", {SessionObject(s)}, "endpoint", [s |-> s, n |-> calls, endpoint |-> 0, found |-> NoContext])
        /\ UNCHANGED studioVars

GetEndpoint(h) ==
    /\ At(h, "talk", "endpoint")
    /\ IF endpoint # 0 THEN Go(h, "purge", [req[h].data EXCEPT !.endpoint = endpoint]) ELSE Finish(h, {})
    /\ UNCHANGED studioVars

\* Sessions not used for context_ttl_minutes go, this one or another, busy or not.
Purge(h) ==
    /\ At(h, "talk", "purge")
    /\ \E old \in SUBSET Sessions :
        /\ contexts' = [s \in Sessions |-> IF s \in old THEN NoContext ELSE contexts[s]]
        /\ said' = [s \in Sessions |-> IF s \in old THEN NothingSaid ELSE said[s]]
        /\ doubt' = doubt \cup Interrupts(old \ {req[h].data.s})
    /\ req' = [req EXCEPT ![h].at = "context"]
    /\ UNCHANGED <<menu, calls, faults, known, plugin, studio, endpoint>>

\* The row of the endpoint the call started with.
ContextOf(d) == IF endpoint = d.endpoint THEN contexts[d.s] ELSE NoContext

GetContext(h) ==
    /\ At(h, "talk", "context")
    /\ IF "contexts" \notin studio \/ ContextOf(req[h].data).tokens >= TokenLimit
       THEN Finish(h, {})
       ELSE GoOn(h, "provider")
    /\ UNCHANGED studioVars

\* The provider answers, after retries or not; an error is logged and answered too.
AskProvider(h) ==
    /\ At(h, "talk", "provider")
    /\ \/ GoOn(h, "log")
       \/ GoOn(h, "logError")
    /\ UNCHANGED studioVars

LogCall(h) ==
    /\ At(h, "talk", "log") \/ At(h, "talk", "logError")
    /\ IF req[h].at = "log" /\ "logs" \in studio /\ endpoint = req[h].data.endpoint
       THEN GoOn(h, "find") ELSE Finish(h, {})
    /\ UNCHANGED studioVars

FindContext(h) ==
    /\ At(h, "talk", "find")
    /\ IF "contexts" \in studio
       THEN Go(h, "save", [req[h].data EXCEPT !.found = ContextOf(req[h].data)])
       ELSE Finish(h, {})
    /\ UNCHANGED studioVars

\* allMessages.slice(-maxMessages)
Kept(kept) == IF Len(kept) <= MaxKept THEN kept ELSE SubSeq(kept, Len(kept) - MaxKept + 1, Len(kept))

With(c, n) == [c EXCEPT !.kept = Kept(Append(@, n)), !.tokens = @ + 1]

\* What the whole conversation is: the last MaxKept exchanges answered.
Heard(c, n) ==
    [kept |-> SubSeq(Append(c.kept, n), IF Len(c.kept) = MaxKept THEN 2 ELSE 1, Len(c.kept) + 1),
     tokens |-> c.tokens + 1]

\* UPDATE ... WHERE id, of a row that may be gone by now; INSERT, of a session that may
\* have got its row by now and then fails the call.
SaveContext(h) ==
    /\ At(h, "talk", "save")
    /\ LET d == req[h].data  now == ContextOf(d)
           new == d.found = NoContext
           refused == "contexts" \notin studio \/ (new /\ (now # NoContext \/ endpoint # d.endpoint))
       IN
        /\ contexts' = IF refused \/ (~new /\ now.id # d.found.id) THEN contexts
                       ELSE [contexts EXCEPT ![d.s] = With(IF new THEN [NoContext EXCEPT !.id = d.n] ELSE d.found, d.n)]
        /\ said' = IF refused THEN said ELSE [said EXCEPT ![d.s] = Heard(@, d.n)]
        /\ Finish(h, {})
    /\ UNCHANGED <<plugin, studio, endpoint>>

\* A statement fails; the last one may have been done.
TalkFails(h) ==
    /\ req[h] # NoReq /\ req[h].op \in {"talk", "forget session"}
    /\ Fail(h, IF req[h].at \in {"save", "delete"} THEN req[h].on ELSE {})
    /\ UNCHANGED studioVars

StudioStep(h) ==
    \/ \E op \in PluginOps : SwitchPlugin(h, op)
    \/ FindPlugin(h) \/ WritePlugin(h) \/ FindTables(h) \/ FindNoProject(h) \/ MakeTable(h) \/ MakeTableRefused(h) \/ DropTable(h) \/ PluginStepFails(h)
    \/ ForgetSession(h) \/ DeleteContext(h)
    \/ Talk(h) \/ GetEndpoint(h) \/ Purge(h) \/ GetContext(h) \/ AskProvider(h) \/ LogCall(h)
    \/ FindContext(h) \/ SaveContext(h) \/ TalkFails(h)
====
