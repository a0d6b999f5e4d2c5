---- MODULE Sessions_proofs ----
(***************************************************************************)
(* Proofs about what the handlers keep of those who talk to the control    *)
(* plane: the tables and the conversations of the AI studio and the        *)
(* sessions of players, for any number of handlers, sessions, players and  *)
(* keys: SessionsExplained, in every state.                                *)
(***************************************************************************)
EXTENDS Stores_proofs, SequenceTheorems, FiniteSetTheorems

----------------------------------------------------------------------------
(***************************************************************************)
(* The studio.  A request that switches the plugin and is sure of it is    *)
(* alone with it, but for a deletion beside one that disables, and how far *)
(* it is says which tables there are.  A call about to save, its session   *)
(* not in doubt, has found what is still there.                            *)
(***************************************************************************)
StudioWork == {"enable plugin", "disable plugin", "talk", "forget session", "delete project"}
StudioPlaces == SessionObjects \cup {PluginObject}
Enables(w) == req[w] # NoReq /\ req[w].op = "enable plugin"
Disables(w) == req[w] # NoReq /\ req[w].op = "disable plugin"
Talks(w, s) == req[w] # NoReq /\ req[w].op = "talk" /\ req[w].data.s = s
Forgets(w, s) == req[w] # NoReq /\ req[w].op = "forget session" /\ req[w].data.s = s
ForPlugin(w) == PluginObject \in req[w].sure
ForSession(w, s) == SessionObject(s) \in req[w].sure
PluginInDoubt == PluginObject \in doubt
SessionInDoubt(s) == SessionObject(s) \in doubt

TalkData == [s : Sessions, n : Nat, endpoint : Nat, found : ContextRow]
TalkAwaits == {"endpoint", "purge", "context", "provider", "log", "logError", "find", "save"}
StudioRequest(r) ==
    /\ r.op = "enable plugin" => r.on = {PluginObject}
    /\ r.op = "disable plugin" => r.on = {PluginObject} \cup SessionObjects
    /\ r.op \in PluginOps =>
        /\ r.at \in {"find", "write", "project", "endpoints", "logs", "contexts"}
        /\ r.at # "find" => r.data \in [was : {"none", "on", "off"}]
    /\ r.op = "talk" =>
        /\ r.data \in TalkData /\ r.on = {SessionObject(r.data.s)} /\ Len(r.data.found.kept) <= MaxKept
        /\ r.at \in TalkAwaits
    /\ r.op = "forget session" => r.data \in [s : Sessions] /\ r.on = {SessionObject(r.data.s)} /\ r.at = "delete"
    /\ DeletionOK(r)
StudioRequests ==
    /\ TypedRequests(StudioWork, StudioPlaces)
    /\ \A w \in Workers : Ours(StudioWork, w) => StudioRequest(req[w])

\* Who is dropping tables.
DropsTables(w) ==
    \/ Disables(w) /\ req[w].at \in {"project", "contexts", "logs", "endpoints"}
    \/ Deletes(w) /\ req[w].at \in {"raw logs", "hooks", "token rows", "pluck", "keys", "schema"}
EnableOK(w) ==
    /\ ~PluginInDoubt => ForPlugin(w)
    /\ ForPlugin(w) =>
        /\ \A v \in Workers : v # w => ~Enables(v) /\ ~Disables(v) /\ ~Deletes(v)
        /\ req[w].at = "write" => req[w].data.was = plugin
        /\ req[w].at \in {"project", "endpoints", "logs", "contexts"} => plugin = "on"
        /\ (req[w].at \in {"find", "write", "project"} /\ ~PluginInDoubt) => studio = {} \/ studio = StudioTables
        /\ (req[w].at \in {"find", "write"} /\ ~PluginInDoubt /\ plugin = "on") => studio = StudioTables
        /\ req[w].at \in {"logs", "contexts"} => "endpoints" \in studio
        /\ req[w].at = "contexts" => "logs" \in studio
DisableOK(w) ==
    /\ ~PluginInDoubt => ForPlugin(w)
    /\ ForPlugin(w) =>
        /\ \A v \in Workers : v # w => ~Enables(v) /\ ~Disables(v)
        /\ req[w].at \in {"project", "contexts", "logs", "endpoints"} => plugin # "on"
        /\ req[w].at \in {"logs", "endpoints"} => "contexts" \notin studio
        /\ req[w].at = "endpoints" => "logs" \notin studio
ErasesOK(w) == (~PluginInDoubt /\ req[w].at \in Later \ {"plugins"}) => plugin # "on"
TablesOK ==
    (~PluginInDoubt /\ \A w \in Workers : ~Enables(w)) =>
        /\ plugin = "on" => studio = StudioTables
        /\ (plugin # "on" /\ \A w \in Workers : ~DropsTables(w)) => studio = {}
PluginOK ==
    /\ plugin \in {"none", "on", "off"} /\ studio \subseteq StudioTables
    /\ TablesOK
    /\ \A w \in Workers : (Enables(w) => EnableOK(w)) /\ (Disables(w) => DisableOK(w)) /\ (Deletes(w) => ErasesOK(w))

SaidRow == [kept : Seq(Nat), tokens : Nat]
Conversations ==
    /\ endpoint \in Nat /\ contexts \in [Sessions -> ContextRow] /\ said \in [Sessions -> SaidRow]
    /\ \A s \in Sessions : Len(contexts[s].kept) <= MaxKept
TalkOK(w, s) ==
    ~SessionInDoubt(s) =>
        /\ req[w].at # "endpoint" => req[w].data.endpoint = endpoint
        /\ req[w].at = "save" => req[w].data.found = contexts[s]
Disturbs(w, s) == Talks(w, s) \/ Forgets(w, s) \/ Disables(w) \/ Deletes(w)
SessionOK(s) ==
    /\ ~SessionInDoubt(s) => contexts[s].kept = said[s].kept /\ contexts[s].tokens = said[s].tokens
    /\ \A w \in Workers : Talks(w, s) =>
        /\ TalkOK(w, s)
        /\ \A v \in Workers \ {w} : Disturbs(v, s) => SessionInDoubt(s)
        /\ \A v \in Workers : Forgets(v, s) => ~ForSession(v, s)
TalksOK == Conversations /\ \A s \in Sessions : SessionOK(s)
StudioInv == StudioRequests /\ PluginOK /\ TalksOK

\* What a request is for the plugin, after a step as before it;
SamePlugin(w) ==
    /\ (Enables(w)' <=> Enables(w)) /\ (Disables(w)' <=> Disables(w)) /\ (Deletes(w)' <=> Deletes(w))
    /\ (Enables(w) \/ Disables(w) \/ Deletes(w)) =>
        req'[w].at = req[w].at /\ req'[w].data = req[w].data /\ (ForPlugin(w)' <=> ForPlugin(w))
\* and for a session.
SameTalk(w, s) ==
    /\ Talks(w, s)' <=> Talks(w, s)
    /\ Forgets(w, s)' <=> Forgets(w, s)
    /\ (Disables(w)' <=> Disables(w)) /\ (Deletes(w)' <=> Deletes(w))
    /\ Talks(w, s) => req'[w].at = req[w].at /\ req'[w].data = req[w].data

\* A request that stays is the same.
LEMMA StudioStays ==
    ASSUME NEW w, Stays(StudioWork, w), Ours(StudioWork, w) => StudioRequest(req[w])
    PROVE  /\ Ours(StudioWork, w)' => StudioRequest(req'[w])
           /\ \A s : SameTalk(w, s)
           /\ (Enables(w)' <=> Enables(w)) /\ (Disables(w)' <=> Disables(w)) /\ (Deletes(w)' <=> Deletes(w))
           /\ (Enables(w) \/ Disables(w) \/ Deletes(w)) => req'[w].at = req[w].at /\ req'[w].data = req[w].data
<1>1. \A op \in StudioWork :
        /\ (req[w] # NoReq /\ req[w].op = op) <=> (req'[w] # NoReq /\ req'[w].op = op)
        /\ (req[w] # NoReq /\ req[w].op = op) => req'[w].on = req[w].on /\ req'[w].at = req[w].at /\ req'[w].data = req[w].data
    BY StaysIs
<1>2. /\ "enable plugin" \in StudioWork /\ "disable plugin" \in StudioWork /\ "talk" \in StudioWork
      /\ "forget session" \in StudioWork /\ "delete project" \in StudioWork
    BY DEF StudioWork
<1>3. /\ (Enables(w)' <=> Enables(w)) /\ (Disables(w)' <=> Disables(w)) /\ (Deletes(w)' <=> Deletes(w))
      /\ (Enables(w) \/ Disables(w) \/ Deletes(w)) => req'[w].at = req[w].at /\ req'[w].data = req[w].data
    BY <1>1, <1>2 DEF Enables, Disables, Deletes
<1>4. \A s : SameTalk(w, s)
    <2> SUFFICES ASSUME NEW s PROVE SameTalk(w, s)
        OBVIOUS
    <2>1. Talks(w, s)' <=> Talks(w, s)
        BY <1>1, <1>2 DEF Talks
    <2>2. Forgets(w, s)' <=> Forgets(w, s)
        BY <1>1, <1>2 DEF Forgets
    <2>3. Talks(w, s) => req'[w].at = req[w].at /\ req'[w].data = req[w].data
        BY <1>1, <1>2 DEF Talks
    <2> QED BY <1>3, <2>1, <2>2, <2>3 DEF SameTalk
<1>5. Ours(StudioWork, w)' => StudioRequest(req'[w])
    <2> SUFFICES ASSUME Ours(StudioWork, w)' PROVE StudioRequest(req'[w])
        OBVIOUS
    <2>1. /\ StudioRequest(req[w]) /\ req'[w].op = req[w].op /\ req'[w].on = req[w].on
          /\ req'[w].at = req[w].at /\ req'[w].data = req[w].data
        BY DEF Stays
    <2>2. DeletionOK(req'[w])
        BY <2>1 DEF StudioRequest, DeletionOK
    <2> QED BY <2>1, <2>2 DEF StudioRequest
<1> QED BY <1>3, <1>4, <1>5

\* What of the plugin no step has touched.
LEMMA PluginSame ==
    ASSUME PluginOK, \A w \in Workers : SamePlugin(w), PluginInDoubt' <=> PluginInDoubt, UNCHANGED <<plugin, studio>>
    PROVE  PluginOK'
<1>1. plugin' \in {"none", "on", "off"} /\ studio' \subseteq StudioTables
    BY DEF PluginOK
<1>2. TablesOK'
    <2>1. \A w \in Workers : DropsTables(w)' <=> DropsTables(w)
        BY DEF SamePlugin, DropsTables
    <2>2. TablesOK
        BY DEF PluginOK
    <2> QED BY <2>1, <2>2 DEF TablesOK, SamePlugin
<1>3. ASSUME NEW w \in Workers
      PROVE  (Enables(w)' => EnableOK(w)') /\ (Disables(w)' => DisableOK(w)') /\ (Deletes(w)' => ErasesOK(w)')
    <2>1. (Enables(w) => EnableOK(w)) /\ (Disables(w) => DisableOK(w)) /\ (Deletes(w) => ErasesOK(w)) /\ SamePlugin(w)
        BY DEF PluginOK
    <2>2. Enables(w)' => EnableOK(w)'
        BY <2>1 DEF EnableOK, SamePlugin
    <2>3. Disables(w)' => DisableOK(w)'
        BY <2>1 DEF DisableOK, SamePlugin
    <2>4. Deletes(w)' => ErasesOK(w)'
        BY <2>1 DEF ErasesOK, SamePlugin
    <2> QED BY <2>2, <2>3, <2>4
<1> QED BY <1>1, <1>2, <1>3 DEF PluginOK

\* A request has ended that leaves the plugin in doubt.
LEMMA PluginDoubted ==
    ASSUME PluginOK, NEW h \in Workers, \A w \in Workers \ {h} : SamePlugin(w),
           ~Enables(h)' /\ ~Disables(h)' /\ ~Deletes(h)', PluginInDoubt', UNCHANGED <<plugin, studio>>
    PROVE  PluginOK'
<1>1. plugin' \in {"none", "on", "off"} /\ studio' \subseteq StudioTables
    BY DEF PluginOK
<1>2. TablesOK'
    BY DEF TablesOK
<1>3. ASSUME NEW w \in Workers
      PROVE  (Enables(w)' => EnableOK(w)') /\ (Disables(w)' => DisableOK(w)') /\ (Deletes(w)' => ErasesOK(w)')
    <2>1. CASE w = h
        BY <2>1
    <2>2. CASE w # h
        <3>1. (Enables(w) => EnableOK(w)) /\ (Disables(w) => DisableOK(w)) /\ SamePlugin(w)
            BY <2>2 DEF PluginOK
        <3>2. Enables(w)' => EnableOK(w)'
            BY <3>1 DEF EnableOK, SamePlugin
        <3>3. Disables(w)' => DisableOK(w)'
            BY <3>1 DEF DisableOK, SamePlugin
        <3>4. ErasesOK(w)'
            BY DEF ErasesOK
        <3> QED BY <3>2, <3>3, <3>4
    <2> QED BY <2>1, <2>2
<1> QED BY <1>1, <1>2, <1>3 DEF PluginOK

\* What of a session no step has touched, its requests being fewer or as they were.
LEMMA SessionSame ==
    ASSUME NEW s, SessionOK(s), SessionInDoubt(s)' <=> SessionInDoubt(s),
           contexts'[s] = contexts[s], said'[s] = said[s], endpoint' = endpoint,
           \A w \in Workers : /\ Talks(w, s)' => Talks(w, s) /\ (TalkOK(w, s) => TalkOK(w, s)')
                              /\ Forgets(w, s)' => Forgets(w, s) /\ (ForSession(w, s)' => ForSession(w, s))
                              /\ Disables(w)' => Disables(w)
                              /\ Deletes(w)' => Deletes(w)
    PROVE  SessionOK(s)'
<1>1. \A w \in Workers : Disturbs(w, s)' => Disturbs(w, s)
    BY DEF Disturbs
<1>2. ~SessionInDoubt(s)' => contexts'[s].kept = said'[s].kept /\ contexts'[s].tokens = said'[s].tokens
    BY DEF SessionOK
<1>3. ASSUME NEW w \in Workers, Talks(w, s)'
      PROVE  /\ TalkOK(w, s)'
             /\ \A v \in Workers \ {w} : Disturbs(v, s)' => SessionInDoubt(s)'
             /\ \A v \in Workers : Forgets(v, s)' => ~ForSession(v, s)'
    BY <1>1, <1>3 DEF SessionOK
<1> QED BY <1>2, <1>3 DEF SessionOK

\* What a session in doubt is left with.
LEMMA SessionDoubted ==
    ASSUME NEW s, SessionOK(s), SessionInDoubt(s)',
           \A w \in Workers : /\ Talks(w, s)' => Talks(w, s)
                              /\ Forgets(w, s)' => Forgets(w, s) /\ (ForSession(w, s)' => ForSession(w, s))
    PROVE  SessionOK(s)'
<1>1. \A w \in Workers : TalkOK(w, s)'
    BY DEF TalkOK
<1>2. ASSUME NEW w \in Workers, Talks(w, s)', NEW v \in Workers, Forgets(v, s)' PROVE ~ForSession(v, s)'
    BY <1>2 DEF SessionOK
<1> QED BY <1>1, <1>2 DEF SessionOK

\* A session whose callers are silent.
LEMMA SessionQuiet ==
    ASSUME NEW s, \A w \in Workers : ~Talks(w, s)',
           ~SessionInDoubt(s)' => contexts'[s].kept = said'[s].kept /\ contexts'[s].tokens = said'[s].tokens
    PROVE  SessionOK(s)'
BY DEF SessionOK

\* A step that leaves the studio and its requests,
LEMMA StudioSame ==
    ASSUME StudioInv, TypedRequests(StudioWork, StudioPlaces)',
           \A w \in Workers : Stays(StudioWork, w) /\ (Ours(StudioWork, w) =>
               /\ ForPlugin(w)' <=> ForPlugin(w)
               /\ \A s \in Sessions : ForSession(w, s)' => ForSession(w, s)),
           PluginInDoubt' <=> PluginInDoubt,
           \A s \in Sessions : SessionInDoubt(s) => SessionInDoubt(s)',
           \A s \in Sessions : (SessionInDoubt(s)' /\ ~SessionInDoubt(s)) \/ UNCHANGED <<contexts[s], said[s], endpoint>>,
           UNCHANGED <<plugin, studio>>, Conversations'
    PROVE  StudioInv'
<1>1. \A w \in Workers :
        /\ Ours(StudioWork, w)' => StudioRequest(req'[w])
        /\ \A s : SameTalk(w, s)
        /\ (Enables(w)' <=> Enables(w)) /\ (Disables(w)' <=> Disables(w)) /\ (Deletes(w)' <=> Deletes(w))
        /\ (Enables(w) \/ Disables(w) \/ Deletes(w)) => req'[w].at = req[w].at /\ req'[w].data = req[w].data
    BY StudioStays DEF StudioInv, StudioRequests
<1>2. \A w \in Workers : SamePlugin(w)
    BY <1>1 DEF SamePlugin, Ours, Enables, Disables, Deletes, StudioWork
<1>3. PluginOK'
    BY <1>2, PluginSame DEF StudioInv
<1>4. ASSUME NEW s \in Sessions PROVE SessionOK(s)'
    <2>1. SessionOK(s)
        BY DEF StudioInv, TalksOK
    <2>2. ASSUME NEW w \in Workers
          PROVE  /\ Talks(w, s)' => Talks(w, s)
                 /\ Forgets(w, s)' => Forgets(w, s) /\ (ForSession(w, s)' => ForSession(w, s))
                 /\ Disables(w)' => Disables(w)
                 /\ Deletes(w)' => Deletes(w)
        BY <1>1 DEF SameTalk, Ours, Forgets, StudioWork
    <2>3. CASE SessionInDoubt(s)'
        BY <2>1, <2>2, <2>3, SessionDoubted
    <2>4. CASE ~SessionInDoubt(s)' /\ ~SessionInDoubt(s)
        <3>1. contexts'[s] = contexts[s] /\ said'[s] = said[s] /\ endpoint' = endpoint
            BY <2>4
        <3>2. ASSUME NEW w \in Workers, Talks(w, s), TalkOK(w, s) PROVE TalkOK(w, s)'
            BY <1>1, <3>1, <3>2, <2>4 DEF TalkOK, SameTalk
        <3> QED BY <2>1, <2>2, <2>4, <3>1, <3>2, SessionSame
    <2> QED BY <2>3, <2>4
<1> QED BY <1>1, <1>3, <1>4 DEF StudioInv, StudioRequests, TalksOK

\* as one aside does.
LEMMA StudioAside ==
    ASSUME StudioInv, Aside(StudioWork, StudioPlaces), UNCHANGED studioVars
    PROVE  StudioInv'
<1>1. /\ TypedRequests(StudioWork, StudioPlaces)'
      /\ \A w \in Workers : Stays(StudioWork, w) /\
           (Ours(StudioWork, w) => req'[w].sure \cap StudioPlaces = req[w].sure \cap StudioPlaces)
    BY AsideStays DEF StudioInv, StudioRequests
<1>2. PluginObject \in StudioPlaces /\ \A s \in Sessions : SessionObject(s) \in StudioPlaces
    BY DEF StudioPlaces, SessionObjects
<1>3. \A w \in Workers : Stays(StudioWork, w) /\ (Ours(StudioWork, w) =>
               /\ ForPlugin(w)' <=> ForPlugin(w)
               /\ \A s \in Sessions : ForSession(w, s)' => ForSession(w, s))
    BY <1>1, <1>2 DEF ForPlugin, ForSession
<1>4. doubt' \cap StudioPlaces = doubt \cap StudioPlaces
    BY DEF Aside
<1>5. (PluginInDoubt' <=> PluginInDoubt) /\ \A s \in Sessions : SessionInDoubt(s) => SessionInDoubt(s)'
    BY <1>2, <1>4 DEF PluginInDoubt, SessionInDoubt
<1>6. UNCHANGED <<plugin, studio, endpoint, contexts, said>>
    BY DEF studioVars
<1>7. Conversations'
    BY <1>6 DEF StudioInv, TalksOK, Conversations
<1> QED BY <1>1, <1>3, <1>5, <1>6, <1>7, StudioSame

\* A request has moved on, or ended; the others are where they were.
StudioMove(h, at, data) ==
    /\ req[h] # NoReq /\ req'[h] # NoReq /\ req'[h].op = req[h].op /\ req'[h].on = req[h].on
    /\ req'[h].at = at /\ req'[h].data = data /\ req'[h].sure = req[h].sure
    /\ \A w \in Workers \ {h} : req'[w] = req[w]
StudioEnd(h) == req'[h] = NoReq /\ \A w \in Workers \ {h} : req'[w] = req[w]

\* What a request becomes that moves on.
LEMMA StudioMoves ==
    ASSUME StudioRequests, NEW h \in Workers, Ours(StudioWork, h), NEW at \in Awaits, NEW data \in RequestData,
           Put(h, Moved(req[h], at, data)), calls' = calls,
           \A r : (r.op = req[h].op /\ r.on = req[h].on /\ r.at = at /\ r.data = data) => StudioRequest(r)
    PROVE  StudioRequests' /\ StudioMove(h, at, data)
<1>1. TypedRequests(StudioWork, StudioPlaces)
    BY DEF StudioRequests
<1>2. /\ TypedRequests(StudioWork, StudioPlaces)'
      /\ Ours(StudioWork, h)' /\ req'[h] # NoReq /\ req'[h].op = req[h].op /\ req'[h].on = req[h].on /\ req'[h].at = at
      /\ req'[h].data = data /\ req'[h].sure = req[h].sure
      /\ \A w \in Workers \ {h} : req'[w] = req[w]
    BY <1>1, MovedStays
<1>3. StudioRequest(req'[h])
    BY <1>2
<1>4. \A w \in Workers : Ours(StudioWork, w)' => StudioRequest(req'[w])
    BY <1>2, <1>3 DEF Ours, StudioRequests
<1> QED BY <1>2, <1>4 DEF StudioRequests, StudioMove, Ours

\* What is left when one ends.
LEMMA StudioEnds ==
    ASSUME StudioRequests, NEW h \in Workers, Put(h, NoReq), calls' = calls
    PROVE  StudioRequests' /\ StudioEnd(h)
<1>1. TypedRequests(StudioWork, StudioPlaces)' /\ req'[h] = NoReq /\ ~Ours(StudioWork, h)' /\ \A w \in Workers \ {h} : req'[w] = req[w]
    BY EndedStays DEF StudioRequests
<1>2. \A w \in Workers : Ours(StudioWork, w)' => StudioRequest(req'[w])
    BY <1>1 DEF Ours, StudioRequests
<1> QED BY <1>1, <1>2 DEF StudioRequests, StudioEnd

\* The others are for the plugin and for a session what they were.
LEMMA OthersSame ==
    ASSUME NEW w \in Workers, req'[w] = req[w]
    PROVE  /\ SamePlugin(w)
           /\ \A s : SameTalk(w, s) /\ (ForSession(w, s)' <=> ForSession(w, s))
<1>1. SamePlugin(w)
    BY DEF SamePlugin, Enables, Disables, Deletes, ForPlugin
<1>2. \A s : Talks(w, s)' <=> Talks(w, s)
    BY DEF Talks
<1>3. \A s : Forgets(w, s)' <=> Forgets(w, s)
    BY DEF Forgets
<1> QED BY <1>1, <1>2, <1>3 DEF SameTalk, SamePlugin, ForSession

----------------------------------------------------------------------------
(***************************************************************************)
(* Requests of the studio arrive.                                          *)
(***************************************************************************)

\* A new request that is the studio's, and what the others are still sure of.
NewRequest(h, op, on) ==
    /\ TypedRequests(StudioWork, StudioPlaces)' /\ ~Ours(StudioWork, h) /\ Ours(StudioWork, h)'
    /\ req'[h].op = op /\ req'[h].on = on /\ req'[h].sure = on \ Hit(op, on) /\ StudioRequest(req'[h])
    /\ op \in StudioWork /\ req'[h].at \in {"find", "endpoint", "delete"}
    /\ op \in PluginOps \cup {"delete project"} => req'[h].at = "find"
    /\ op = "talk" => req'[h].at = "endpoint"
    /\ doubt' = doubt \cup Hit(op, on)
    /\ \A w \in Workers \ {h} : Stays(StudioWork, w) /\ SureOf(w, op, on)

\* The pairs that conflict, and the one that does not.
LEMMA StudioConflicts ==
    /\ {"enable plugin", "enable plugin"} \in Conflicts /\ {"disable plugin", "disable plugin"} \in Conflicts
    /\ {"enable plugin", "disable plugin"} \in Conflicts /\ {"disable plugin", "enable plugin"} \in Conflicts
    /\ {"enable plugin", "delete project"} \in Conflicts /\ {"delete project", "enable plugin"} \in Conflicts
    /\ {"delete project", "delete project"} \in Conflicts
    /\ \A op \in {"talk", "forget session", "disable plugin", "delete project"} :
         {"talk", op} \in Conflicts /\ {op, "talk"} \in Conflicts
    /\ {"disable plugin", "delete project"} \notin Conflicts /\ {"delete project", "disable plugin"} \notin Conflicts
<1>1. /\ {"enable plugin", "enable plugin"} \in Conflicts /\ {"disable plugin", "disable plugin"} \in Conflicts
      /\ {"enable plugin", "disable plugin"} \in Conflicts /\ {"disable plugin", "enable plugin"} \in Conflicts
      /\ {"enable plugin", "delete project"} \in Conflicts /\ {"delete project", "enable plugin"} \in Conflicts
      /\ {"delete project", "delete project"} \in Conflicts
    BY DEF Conflicts
<1>2. \A op \in {"talk", "forget session", "disable plugin", "delete project"} :
         {"talk", op} \in Conflicts /\ {op, "talk"} \in Conflicts
    BY DEF Conflicts
<1>3. \A c \in Conflicts : "disable plugin" \in c => "delete project" \notin c
    BY ConflictsAre
<1>4. {"disable plugin", "delete project"} \notin Conflicts /\ {"delete project", "disable plugin"} \notin Conflicts
    BY <1>3
<1> QED BY <1>1, <1>2, <1>4

\* What the objects of the studio's requests are.
LEMMA StudioObjects ==
    ASSUME StudioRequests, NEW w \in Workers, req[w] # NoReq
    PROVE  /\ PluginObject \in req[w].on <=> (Enables(w) \/ Disables(w) \/ Deletes(w))
           /\ \A s \in Sessions : SessionObject(s) \in req[w].on <=> Disturbs(w, s)
<1>1. \A s, t : SessionObject(s) # PluginObject /\ (SessionObject(s) = SessionObject(t) => s = t)
    BY DEF SessionObject, PluginObject
<1>2. PluginObject \in StudioPlaces /\ \A s \in Sessions : SessionObject(s) \in StudioPlaces /\ SessionObject(s) \in SessionObjects
    BY DEF StudioPlaces, SessionObjects
<1>3. PluginObject \notin SessionObjects
    BY <1>1 DEF SessionObjects
<1>4. CASE req[w].op \notin StudioWork
    <2>1. req[w].on \cap StudioPlaces = {}
        BY <1>4 DEF StudioRequests, TypedRequests, RequestsOf
    <2>2. ~Enables(w) /\ ~Disables(w) /\ ~Deletes(w) /\ \A s : ~Talks(w, s) /\ ~Forgets(w, s)
        BY <1>4 DEF Enables, Disables, Deletes, Talks, Forgets, StudioWork
    <2> QED BY <1>2, <2>1, <2>2 DEF Disturbs
<1>5. CASE req[w].op \in StudioWork
    <2>1. StudioRequest(req[w])
        BY <1>5 DEF StudioRequests, Ours
    <2>2. CASE req[w].op = "enable plugin"
        <3>1. Enables(w) /\ ~Disables(w) /\ ~Deletes(w) /\ \A s : ~Talks(w, s) /\ ~Forgets(w, s)
            BY <2>2 DEF Enables, Disables, Deletes, Talks, Forgets
        <3>2. req[w].on = {PluginObject}
            BY <2>1, <2>2 DEF StudioRequest
        <3> QED BY <1>1, <3>1, <3>2 DEF Disturbs
    <2>3. CASE req[w].op \in {"disable plugin", "delete project"}
        <3>1. Disables(w) \/ Deletes(w)
            BY <2>3 DEF Disables, Deletes
        <3>2. req[w].on = {PluginObject} \cup SessionObjects \/ req[w].on = Deleted
            BY <2>1, <2>3 DEF StudioRequest, DeletionOK
        <3>3. PluginObject \in req[w].on /\ SessionObjects \subseteq req[w].on
            BY <3>2 DEF Deleted
        <3> QED BY <1>2, <3>1, <3>3 DEF Disturbs
    <2>4. CASE req[w].op = "talk" \/ req[w].op = "forget session"
        <3>1. ~Enables(w) /\ ~Disables(w) /\ ~Deletes(w)
            BY <2>4 DEF Enables, Disables, Deletes
        <3>2. req[w].on = {SessionObject(req[w].data.s)}
            BY <2>1, <2>4 DEF StudioRequest
        <3>3. \A s : Talks(w, s) \/ Forgets(w, s) <=> req[w].data.s = s
            BY <2>4 DEF Talks, Forgets
        <3> QED BY <1>1, <3>1, <3>2, <3>3 DEF Disturbs
    <2> QED BY <1>5, <2>2, <2>3, <2>4 DEF StudioWork
<1> QED BY <1>4, <1>5

\* The plugin when a request arrives that is about it:
LEMMA SwitchArrives ==
    ASSUME StudioInv, NEW h \in Workers, NEW op \in {"enable plugin", "disable plugin", "delete project"}, NEW on,
           NewRequest(h, op, on), PluginObject \in on, UNCHANGED <<plugin, studio>>
    PROVE  PluginOK'
<1> DEFINE Clash(w) == (Enables(w) \/ Disables(w) \/ Deletes(w)) /\ {req[w].op, op} \in Conflicts
<1>1. \A w \in Workers \ {h} :
        /\ (Enables(w)' <=> Enables(w)) /\ (Disables(w)' <=> Disables(w)) /\ (Deletes(w)' <=> Deletes(w))
        /\ (Enables(w) \/ Disables(w) \/ Deletes(w)) => req'[w].at = req[w].at /\ req'[w].data = req[w].data
    BY StudioStays DEF StudioInv, StudioRequests, NewRequest
<1>2. ~Enables(h) /\ ~Disables(h) /\ ~Deletes(h)
    BY DEF NewRequest, Ours, Enables, Disables, Deletes, StudioWork
<1>3. /\ Enables(h)' <=> op = "enable plugin"
      /\ Disables(h)' <=> op = "disable plugin"
      /\ Deletes(h)' <=> op = "delete project"
      /\ req'[h].at = "find"
    BY DEF NewRequest, Ours, Enables, Disables, Deletes, PluginOps
<1>4. \A w \in Workers :
        /\ op = "enable plugin" => (Clash(w) <=> Enables(w) \/ Disables(w) \/ Deletes(w))
        /\ op = "disable plugin" => (Clash(w) <=> Enables(w) \/ Disables(w))
        /\ op = "delete project" => (Clash(w) <=> Enables(w) \/ Deletes(w))
    BY StudioConflicts DEF Enables, Disables, Deletes
<1>5. PluginObject \in Hit(op, on) <=> \E w \in Workers : Clash(w)
    <2>1. \A w \in Workers : req[w] # NoReq => (PluginObject \in req[w].on <=> Enables(w) \/ Disables(w) \/ Deletes(w))
        BY StudioObjects DEF StudioInv
    <2>2. \A w \in Workers : w \in Disturbed(op, PluginObject) <=> Clash(w)
        BY <2>1 DEF Disturbed, Busy, Enables, Disables, Deletes
    <2>3. Disturbed(op, PluginObject) \subseteq Workers
        BY DEF Disturbed, Busy
    <2> QED BY <2>2, <2>3 DEF Hit
<1>6. \A w \in Workers \ {h} : (Enables(w) \/ Disables(w) \/ Deletes(w)) => (ForPlugin(w)' <=> (ForPlugin(w) /\ ~Clash(w)))
    <2> SUFFICES ASSUME NEW w \in Workers \ {h}, Enables(w) \/ Disables(w) \/ Deletes(w)
                 PROVE  ForPlugin(w)' <=> (ForPlugin(w) /\ ~Clash(w))
        OBVIOUS
    <2>1. SureOf(w, op, on) /\ req[w] # NoReq
        BY DEF NewRequest, Enables, Disables, Deletes
    <2> QED BY <2>1 DEF SureOf, ForPlugin
<1>7. ForPlugin(h)' <=> ~\E w \in Workers : Clash(w)
    BY <1>5 DEF ForPlugin, NewRequest
<1>8. PluginInDoubt' <=> PluginInDoubt \/ \E w \in Workers : Clash(w)
    BY <1>5 DEF PluginInDoubt, NewRequest
<1> HIDE DEF Clash
<1>9. TablesOK
    BY DEF StudioInv, PluginOK
<1>10. TablesOK'
    <2> SUFFICES ASSUME ~PluginInDoubt', \A w \in Workers : ~Enables(w)'
                 PROVE  /\ plugin = "on" => studio = StudioTables
                        /\ (plugin # "on" /\ \A w \in Workers : ~DropsTables(w)') => studio = {}
        BY DEF TablesOK
    <2>1. ~PluginInDoubt /\ \A w \in Workers : ~Enables(w)
        BY <1>1, <1>2, <1>8
    <2>2. \A w \in Workers : DropsTables(w) => DropsTables(w)'
        BY <1>1, <1>2 DEF DropsTables
    <2> QED BY <1>9, <2>1, <2>2 DEF TablesOK
<1>11. ASSUME NEW w \in Workers, Enables(w)' PROVE EnableOK(w)'
    <2>1. CASE w = h
        <3>1. op = "enable plugin"
            BY <1>3, <1>11, <2>1
        <3>2. ForPlugin(h)' => \A v \in Workers : v # h => ~Enables(v)' /\ ~Disables(v)' /\ ~Deletes(v)'
            BY <1>1, <1>4, <1>7, <3>1
        <3>3. ASSUME ForPlugin(h)', ~PluginInDoubt'
              PROVE  (studio = {} \/ studio = StudioTables) /\ (plugin = "on" => studio = StudioTables)
            <4>1. ~PluginInDoubt /\ \A v \in Workers : ~Enables(v) /\ ~Disables(v) /\ ~Deletes(v)
                BY <1>4, <1>8, <3>1, <3>3
            <4>2. \A v \in Workers : ~DropsTables(v)
                BY <4>1 DEF DropsTables
            <4> QED BY <1>9, <4>1, <4>2 DEF TablesOK
        <3> QED BY <1>3, <1>7, <1>8, <2>1, <3>2, <3>3 DEF EnableOK
    <2>2. CASE w # h
        <3>1. Enables(w) /\ EnableOK(w)
            BY <1>1, <1>11, <2>2 DEF StudioInv, PluginOK
        <3>2. Clash(w)
            BY <1>4, <3>1
        <3>3. ~ForPlugin(w)' /\ PluginInDoubt'
            BY <1>6, <1>8, <2>2, <3>1, <3>2
        <3> QED BY <3>3 DEF EnableOK
    <2> QED BY <2>1, <2>2
<1>12. ASSUME NEW w \in Workers, Disables(w)' PROVE DisableOK(w)'
    <2>1. CASE w = h
        <3>1. op = "disable plugin"
            BY <1>3, <1>12, <2>1
        <3>2. ForPlugin(h)' => \A v \in Workers : v # h => ~Enables(v)' /\ ~Disables(v)'
            BY <1>1, <1>4, <1>7, <3>1
        <3> QED BY <1>3, <1>7, <1>8, <2>1, <3>2 DEF DisableOK
    <2>2. CASE w # h
        <3>1. Disables(w) /\ DisableOK(w)
            BY <1>1, <1>12, <2>2 DEF StudioInv, PluginOK
        <3>2. CASE op # "delete project"
            <4>1. Clash(w)
                BY <1>4, <3>1, <3>2
            <4>2. ~ForPlugin(w)' /\ PluginInDoubt'
                BY <1>6, <1>8, <2>2, <3>1, <4>1
            <4> QED BY <4>2 DEF DisableOK
        <3>3. CASE op = "delete project"
            <4>1. ~Enables(w)
                BY <3>1 DEF Enables, Disables
            <4>2. ~Clash(w)
                BY <1>4, <3>1, <3>3, <4>1 DEF Disables, Deletes
            <4>3. (ForPlugin(w)' <=> ForPlugin(w)) /\ (PluginInDoubt => PluginInDoubt')
                BY <1>6, <1>8, <2>2, <3>1, <4>2
            <4>4. ~Enables(h)' /\ ~Disables(h)'
                BY <1>3, <3>3
            <4> QED BY <1>1, <2>2, <3>1, <4>3, <4>4 DEF DisableOK
        <3> QED BY <3>2, <3>3
    <2> QED BY <2>1, <2>2
<1>13. ASSUME NEW w \in Workers, Deletes(w)' PROVE ErasesOK(w)'
    <2>1. CASE w = h
        BY <1>3, <2>1 DEF ErasesOK, Later
    <2>2. CASE w # h
        BY <1>1, <1>8, <1>13, <2>2 DEF StudioInv, PluginOK, ErasesOK
    <2> QED BY <2>1, <2>2
<1>14. plugin' \in {"none", "on", "off"} /\ studio' \subseteq StudioTables
    BY DEF StudioInv, PluginOK
<1> QED BY <1>10, <1>11, <1>12, <1>13, <1>14 DEF PluginOK

\* and when one arrives that is not.
LEMMA OtherArrives ==
    ASSUME StudioInv, NEW h \in Workers, NEW op \in {"talk", "forget session"}, NEW on,
           NewRequest(h, op, on), PluginObject \notin on, UNCHANGED <<plugin, studio>>
    PROVE  PluginOK'
<1>1. \A w \in Workers \ {h} :
        /\ (Enables(w)' <=> Enables(w)) /\ (Disables(w)' <=> Disables(w)) /\ (Deletes(w)' <=> Deletes(w))
        /\ (Enables(w) \/ Disables(w) \/ Deletes(w)) => req'[w].at = req[w].at /\ req'[w].data = req[w].data
    BY StudioStays DEF StudioInv, StudioRequests, NewRequest
<1>2. \A w \in Workers \ {h} : ForPlugin(w)' <=> ForPlugin(w)
    BY DEF NewRequest, SureOf, ForPlugin
<1>3. ~Enables(h) /\ ~Disables(h) /\ ~Deletes(h) /\ ~Enables(h)' /\ ~Disables(h)' /\ ~Deletes(h)'
    BY DEF NewRequest, Ours, Enables, Disables, Deletes, StudioWork
<1>4. \A w \in Workers : SamePlugin(w)
    BY <1>1, <1>2, <1>3 DEF SamePlugin
<1>5. PluginInDoubt' <=> PluginInDoubt
    BY DEF NewRequest, Hit, PluginInDoubt
<1> QED BY <1>4, <1>5, PluginSame DEF StudioInv

\* A session when a request arrives that is not about it:
LEMMA SessionSpared ==
    ASSUME StudioInv, NEW h \in Workers, NEW op, NEW on, NewRequest(h, op, on), NEW s \in Sessions,
           SessionObject(s) \notin on, ~Disturbs(h, s)', UNCHANGED <<endpoint, contexts, said>>
    PROVE  SessionOK(s)'
<1>1. \A w \in Workers \ {h} : SameTalk(w, s)
    BY StudioStays DEF StudioInv, StudioRequests, NewRequest
<1>2. \A w \in Workers \ {h} : ForSession(w, s)' <=> ForSession(w, s)
    BY DEF NewRequest, SureOf, ForSession
<1>3. SessionInDoubt(s)' <=> SessionInDoubt(s)
    BY DEF NewRequest, Hit, SessionInDoubt
<1>4. ASSUME NEW w \in Workers
      PROVE  /\ Talks(w, s)' => Talks(w, s) /\ (TalkOK(w, s) => TalkOK(w, s)')
             /\ Forgets(w, s)' => Forgets(w, s) /\ (ForSession(w, s)' => ForSession(w, s))
             /\ Disables(w)' => Disables(w)
             /\ Deletes(w)' => Deletes(w)
    <2>1. CASE w = h
        BY <2>1 DEF Disturbs
    <2>2. CASE w # h
        BY <1>1, <1>2, <1>3, <2>2 DEF SameTalk, TalkOK
    <2> QED BY <2>1, <2>2
<1>5. SessionOK(s) /\ contexts'[s] = contexts[s] /\ said'[s] = said[s] /\ endpoint' = endpoint
    BY DEF StudioInv, TalksOK
<1> QED BY <1>3, <1>4, <1>5, SessionSame

\* and when one arrives that is.
LEMMA SessionArrives ==
    ASSUME StudioInv, NEW h \in Workers, NEW op \in {"talk", "forget session", "disable plugin", "delete project"}, NEW on,
           NewRequest(h, op, on), NEW s \in Sessions, SessionObject(s) \in on, UNCHANGED <<endpoint, contexts, said>>
    PROVE  SessionOK(s)'
<1>1. \A w \in Workers \ {h} : SameTalk(w, s) /\ SureOf(w, op, on)
    BY StudioStays DEF StudioInv, StudioRequests, NewRequest
<1>2. /\ Talks(h, s)' => op = "talk" /\ req'[h].at = "endpoint"
      /\ Forgets(h, s)' => op # "talk"
    BY DEF NewRequest, Talks, Forgets
<1>3. ASSUME NEW w \in Workers, Disturbs(w, s), {req[w].op, op} \in Conflicts
      PROVE  SessionInDoubt(s)' /\ ~ForSession(h, s)' /\ (w # h => ~ForSession(w, s)')
    <2>1. req[w] # NoReq
        BY <1>3 DEF Disturbs, Talks, Forgets, Disables, Deletes
    <2>2. SessionObject(s) \in req[w].on
        BY <1>3, <2>1, StudioObjects DEF StudioInv
    <2>3. SessionObject(s) \in Hit(op, on)
        BY <1>3, <2>1, <2>2 DEF Hit, Disturbed, Busy
    <2>4. SessionInDoubt(s)' /\ ~ForSession(h, s)'
        BY <2>3 DEF NewRequest, SessionInDoubt, ForSession
    <2>5. w # h => ~ForSession(w, s)'
        BY <1>1, <1>3, <2>1 DEF SureOf, ForSession
    <2> QED BY <2>4, <2>5
<1>4. \A w \in Workers : Talks(w, s) => Disturbs(w, s) /\ {req[w].op, op} \in Conflicts
    BY StudioConflicts DEF Talks, Disturbs
<1>5. op = "talk" => \A w \in Workers : Disturbs(w, s) => {req[w].op, op} \in Conflicts
    BY StudioConflicts DEF Disturbs, Talks, Forgets, Disables, Deletes
<1>6. SessionOK(s)
    BY DEF StudioInv, TalksOK
<1>7. ~SessionInDoubt(s)' => contexts'[s].kept = said'[s].kept /\ contexts'[s].tokens = said'[s].tokens
    BY <1>6 DEF SessionOK, SessionInDoubt, NewRequest
<1>8. \A w \in Workers \ {h} : Disturbs(w, s)' => Disturbs(w, s)
    BY <1>1 DEF Disturbs, SameTalk
<1>9. ASSUME NEW w \in Workers, Talks(w, s)'
      PROVE  /\ TalkOK(w, s)'
             /\ \A v \in Workers \ {w} : Disturbs(v, s)' => SessionInDoubt(s)'
             /\ \A v \in Workers : Forgets(v, s)' => ~ForSession(v, s)'
    <2>1. CASE w = h
        <3>1. op = "talk" /\ TalkOK(h, s)'
            BY <1>2, <1>9, <2>1 DEF TalkOK
        <3>2. \A v \in Workers \ {h} : Disturbs(v, s)' => SessionInDoubt(s)'
            BY <1>3, <1>5, <1>8, <3>1
        <3>3. ASSUME NEW v \in Workers, Forgets(v, s)' PROVE ~ForSession(v, s)'
            <4>1. v # h
                BY <1>2, <3>1, <3>3
            <4>2. Disturbs(v, s)
                BY <1>1, <3>3, <4>1 DEF SameTalk, Disturbs
            <4> QED BY <1>3, <1>5, <3>1, <4>1, <4>2
        <3> QED BY <2>1, <3>1, <3>2, <3>3
    <2>2. CASE w # h
        <3>1. Talks(w, s)
            BY <1>1, <1>9, <2>2 DEF SameTalk
        <3>2. SessionInDoubt(s)' /\ ~ForSession(h, s)'
            BY <1>3, <1>4, <3>1
        <3>3. TalkOK(w, s)'
            BY <3>2 DEF TalkOK
        <3>4. ASSUME NEW v \in Workers, Forgets(v, s)', v # h PROVE ~ForSession(v, s)'
            <4>1. Forgets(v, s)
                BY <1>1, <3>4 DEF SameTalk
            <4>2. ~ForSession(v, s)
                BY <1>6, <3>1, <4>1 DEF SessionOK
            <4>3. SureOf(v, op, on)
                BY <1>1, <3>4
            <4> QED BY <4>2, <4>3 DEF SureOf, ForSession
        <3> QED BY <3>2, <3>3, <3>4
    <2> QED BY <2>1, <2>2
<1> QED BY <1>7, <1>9 DEF SessionOK

\* A new request leaves the others the studio's.
LEMMA NewRequests ==
    ASSUME StudioInv, NEW h \in Workers, NEW op, NEW on, NewRequest(h, op, on)
    PROVE  StudioRequests'
<1>1. \A w \in Workers \ {h} : Ours(StudioWork, w)' => StudioRequest(req'[w])
    BY StudioStays DEF StudioInv, StudioRequests, NewRequest
<1> QED BY <1>1 DEF StudioRequests, NewRequest

\* The plugin is to be switched.
LEMMA SwitchBegins ==
    ASSUME StudioInv, NEW h \in Workers, NEW op \in PluginOps, SwitchPlugin(h, op)
    PROVE  StudioInv'
<1>1. TypedRequests(StudioWork, StudioPlaces) /\ RequestsOf(StudioWork, StudioPlaces)
    BY DEF StudioInv, StudioRequests, TypedRequests
<1>2. PICK on, at, data : /\ on = {PluginObject} \cup (IF op = "disable plugin" THEN SessionObjects ELSE {})
                          /\ at = "find" /\ data = NoData
    OBVIOUS
<1>3. Arrived(h, op, on, at, data) /\ UNCHANGED studioVars
    BY <1>1, <1>2, CalledArrives DEF SwitchPlugin, BeginIn
<1>4. op \in StudioWork /\ op \in Operations /\ on \subseteq Objects /\ at \in Awaits /\ data \in RequestData
    BY <1>2 DEF StudioWork, PluginOps, Operations, Objects, Awaits, RequestData
<1>5. /\ TypedRequests(StudioWork, StudioPlaces)'
      /\ ~Ours(StudioWork, h) /\ Ours(StudioWork, h)'
      /\ req'[h].op = op /\ req'[h].on = on /\ req'[h].at = at /\ req'[h].data = data
      /\ req'[h].sure = on \ Hit(op, on)
      /\ \A w \in Workers \ {h} : Stays(StudioWork, w) /\ SureOf(w, op, on)
    BY ONLY <1>1, <1>3, <1>4, h \in Workers, ArrivedStays
<1>6. StudioRequest(req'[h])
    BY <1>2, <1>5 DEF StudioRequest, PluginOps, DeletionOK
<1>7. doubt' = doubt \cup Hit(op, on) /\ UNCHANGED <<plugin, studio, endpoint, contexts, said>>
    BY <1>3 DEF Arrived, studioVars
<1>8. op \in PluginOps \cup {"delete project"} => req'[h].at = "find"
    BY <1>2, <1>5
<1>9. op # "talk" /\ req'[h].at \in {"find", "endpoint", "delete"}
    BY <1>2, <1>5 DEF PluginOps
<1>10. NewRequest(h, op, on)
    BY <1>4, <1>5, <1>6, <1>7, <1>8, <1>9 DEF NewRequest
<1>11. PluginOK'
    BY <1>2, <1>7, <1>10, SwitchArrives DEF PluginOps
<1>12. ASSUME NEW s \in Sessions PROVE SessionOK(s)'
    <2>1. CASE op = "disable plugin"
        <3>1. SessionObject(s) \in on
            BY <1>2, <2>1 DEF SessionObjects
        <3> QED BY <1>7, <1>10, <2>1, <3>1, SessionArrives
    <2>2. CASE op = "enable plugin"
        <3>1. SessionObject(s) \notin on
            BY <1>2, <2>2 DEF SessionObject, PluginObject
        <3>2. ~Disturbs(h, s)'
            BY <1>5, <2>2 DEF Disturbs, Talks, Forgets, Disables, Deletes
        <3> QED BY <1>7, <1>10, <3>1, <3>2, SessionSpared
    <2> QED BY <2>1, <2>2 DEF PluginOps
<1>13. StudioRequests'
    BY <1>10, NewRequests
<1>14. Conversations'
    BY <1>7 DEF StudioInv, TalksOK, Conversations
<1> QED BY <1>11, <1>12, <1>13, <1>14 DEF StudioInv, TalksOK

\* A session is called, or deleted.
LEMMA SessionBegins ==
    ASSUME StudioInv, NEW h \in Workers, NEW op \in {"talk", "forget session"}, NEW c \in Sessions, NEW on, NEW at, NEW data,
           on = {SessionObject(c)}, Called(h, op, on, at, data), UNCHANGED studioVars,
           data \in RequestData, data.s = c, at = IF op = "talk" THEN "endpoint" ELSE "delete",
           \A r : (r.op = op /\ r.on = on /\ r.at = at /\ r.data = data) => StudioRequest(r)
    PROVE  StudioInv'
<1>1. TypedRequests(StudioWork, StudioPlaces) /\ RequestsOf(StudioWork, StudioPlaces)
    BY DEF StudioInv, StudioRequests, TypedRequests
<1>2. Arrived(h, op, on, at, data)
    BY <1>1, CalledArrives
<1>3. op \in StudioWork /\ op \in Operations /\ on \subseteq Objects /\ at \in Awaits
    BY DEF StudioWork, Operations, Objects, SessionObjects, Awaits
<1>4. /\ TypedRequests(StudioWork, StudioPlaces)'
      /\ ~Ours(StudioWork, h) /\ Ours(StudioWork, h)'
      /\ req'[h].op = op /\ req'[h].on = on /\ req'[h].at = at /\ req'[h].data = data
      /\ req'[h].sure = on \ Hit(op, on)
      /\ \A w \in Workers \ {h} : Stays(StudioWork, w) /\ SureOf(w, op, on)
    BY ONLY <1>1, <1>2, <1>3, data \in RequestData, h \in Workers, ArrivedStays
<1>5. StudioRequest(req'[h])
    BY <1>4
<1>6. doubt' = doubt \cup Hit(op, on) /\ UNCHANGED <<plugin, studio, endpoint, contexts, said>>
    BY <1>2 DEF Arrived, studioVars
<1>7. op \notin PluginOps \cup {"delete project"} /\ (op = "talk" => req'[h].at = "endpoint") /\ req'[h].at \in {"find", "endpoint", "delete"}
    BY <1>4 DEF PluginOps
<1>8. NewRequest(h, op, on)
    BY <1>3, <1>4, <1>5, <1>6, <1>7 DEF NewRequest
<1>9. \A s, t : SessionObject(s) # PluginObject /\ (SessionObject(s) = SessionObject(t) => s = t)
    BY DEF SessionObject, PluginObject
<1>10. PluginOK'
    BY <1>6, <1>8, <1>9, OtherArrives
<1>11. ASSUME NEW s \in Sessions PROVE SessionOK(s)'
    <2>1. CASE s = c
        BY <1>6, <1>8, <2>1, SessionArrives
    <2>2. CASE s # c
        <3>1. ~Disturbs(h, s)'
            BY <1>4, <2>2 DEF Disturbs, Talks, Forgets, Disables, Deletes
        <3>2. SessionObject(s) \notin on
            BY <1>9, <2>2
        <3> QED BY <1>6, <1>8, <3>1, <3>2, SessionSpared
    <2> QED BY <2>1, <2>2
<1>12. StudioRequests'
    BY <1>8, NewRequests
<1>13. Conversations'
    BY <1>6 DEF StudioInv, TalksOK, Conversations
<1> QED BY <1>10, <1>11, <1>12, <1>13 DEF StudioInv, TalksOK

\* The calls of the three requests that are about sessions.
LEMMA TalkBegins ==
    ASSUME StudioInv, NEW h \in Workers, Talk(h) \/ ForgetSession(h)
    PROVE  StudioInv'
<1>1. calls \in Nat
    BY DEF StudioInv, StudioRequests, TypedRequests, RequestsOf
<1>2. CASE Talk(h)
    <2>1. PICK c \in Sessions :
            /\ InStudio(h, "talk", {SessionObject(c)}, "endpoint", [s |-> c, n |-> calls, endpoint |-> 0, found |-> NoContext])
            /\ UNCHANGED studioVars
        BY <1>2 DEF Talk
    <2>2. PICK op, on, at, data : /\ op = "talk" /\ on = {SessionObject(c)} /\ at = "endpoint"
                                  /\ data = [s |-> c, n |-> calls, endpoint |-> 0, found |-> NoContext]
        OBVIOUS
    <2>3. NoContext \in ContextRow /\ Len(NoContext.kept) <= MaxKept
        BY StudioAssumption DEF NoContext, ContextRow
    <2>4. data \in TalkData /\ data.s = c /\ data.found = NoContext
        BY <1>1, <2>2, <2>3 DEF TalkData
    <2>5. data \in RequestData
        BY <2>4 DEF TalkData, RequestData
    <2>6. Called(h, op, on, at, data)
        BY <2>1, <2>2 DEF InStudio, Begin
    <2>7. op \in {"talk", "forget session"} /\ at = IF op = "talk" THEN "endpoint" ELSE "delete"
        BY <2>2
    <2>8. ASSUME NEW r, r.op = op, r.on = on, r.at = at, r.data = data PROVE StudioRequest(r)
        <3>1. r.op = "talk" /\ r.on = {SessionObject(r.data.s)} /\ r.at \in TalkAwaits
            BY <2>2, <2>4, <2>8 DEF TalkAwaits
        <3>2. r.data \in TalkData /\ Len(r.data.found.kept) <= MaxKept
            BY <2>3, <2>4, <2>8
        <3> QED BY <3>1, <3>2 DEF StudioRequest, PluginOps, DeletionOK
    <2> QED BY ONLY StudioInv, h \in Workers, c \in Sessions, <2>1, <2>2, <2>4, <2>5, <2>6, <2>7, <2>8, SessionBegins
<1>3. CASE ForgetSession(h)
    <2>1. PICK c \in Sessions :
            InStudio(h, "forget session", {SessionObject(c)}, "delete", [s |-> c]) /\ UNCHANGED studioVars
        BY <1>3 DEF ForgetSession
    <2>2. PICK op, on, at, data : /\ op = "forget session" /\ on = {SessionObject(c)} /\ at = "delete" /\ data = [s |-> c]
        OBVIOUS
    <2>3. data \in [s : Sessions] /\ data.s = c
        BY <2>2
    <2>4. data \in RequestData
        BY <2>3 DEF RequestData
    <2>5. Called(h, op, on, at, data)
        BY <2>1, <2>2 DEF InStudio, Begin
    <2>6. op \in {"talk", "forget session"} /\ at = IF op = "talk" THEN "endpoint" ELSE "delete"
        BY <2>2
    <2>7. ASSUME NEW r, r.op = op, r.on = on, r.at = at, r.data = data PROVE StudioRequest(r)
        BY <2>2, <2>3, <2>7 DEF StudioRequest, PluginOps, DeletionOK
    <2> QED BY ONLY StudioInv, h \in Workers, c \in Sessions, <2>1, <2>2, <2>3, <2>4, <2>5, <2>6, <2>7, SessionBegins
<1> QED BY <1>2, <1>3

\* A deletion of the project begins.
LEMMA StudioErasureBegins ==
    ASSUME StudioInv, NEW h \in Workers, Arrived(h, "delete project", Deleted, "find", NoData), UNCHANGED studioVars
    PROVE  StudioInv'
<1>1. TypedRequests(StudioWork, StudioPlaces) /\ "delete project" \in StudioWork
    <2>1. "delete project" \in StudioWork
        BY DEF StudioWork
    <2> QED BY <2>1 DEF StudioInv, StudioRequests
<1>2. PICK op, on : op = "delete project" /\ on = Deleted
    OBVIOUS
<1>3. /\ TypedRequests(StudioWork, StudioPlaces)'
      /\ ~Ours(StudioWork, h) /\ Ours(StudioWork, h)' /\ req'[h].op = "delete project" /\ req'[h].on = Deleted /\ req'[h].at = "find"
      /\ req'[h].sure = Deleted \ Hit("delete project", Deleted) /\ DeletionOK(req'[h])
      /\ \A w \in Workers \ {h} : Stays(StudioWork, w) /\ SureOf(w, "delete project", Deleted)
    BY <1>1, DeletionArrives
<1>4. StudioRequest(req'[h])
    BY <1>3 DEF StudioRequest, PluginOps
<1>5. doubt' = doubt \cup Hit(op, on) /\ UNCHANGED <<plugin, studio, endpoint, contexts, said>>
    BY <1>2 DEF Arrived, studioVars
<1>6. op # "talk" /\ req'[h].at \in {"find", "endpoint", "delete"} /\ req'[h].at = "find"
    BY <1>2, <1>3
<1>7. NewRequest(h, op, on)
    BY <1>1, <1>2, <1>3, <1>4, <1>5, <1>6 DEF NewRequest
<1>8. PluginObject \in on /\ \A s \in Sessions : SessionObject(s) \in on
    BY <1>2 DEF Deleted, SessionObjects
<1>9. PluginOK'
    BY <1>2, <1>5, <1>7, <1>8, SwitchArrives
<1>10. \A s \in Sessions : SessionOK(s)'
    BY <1>2, <1>5, <1>7, <1>8, SessionArrives
<1>11. StudioRequests'
    BY <1>7, NewRequests
<1>12. Conversations'
    BY <1>5 DEF StudioInv, TalksOK, Conversations
<1> QED BY <1>9, <1>10, <1>11, <1>12 DEF StudioInv, TalksOK

----------------------------------------------------------------------------
(***************************************************************************)
(* The plugin is switched.                                                 *)
(***************************************************************************)

\* The sessions when a request moves or ends that is not about one of them;
LEMMA SessionsKept ==
    ASSUME TalksOK, NEW h \in Workers, \A s : ~Talks(h, s) /\ ~Forgets(h, s), StudioEnd(h) \/ \E at, data : StudioMove(h, at, data),
           \A s \in Sessions : SessionInDoubt(s)' <=> SessionInDoubt(s), UNCHANGED <<endpoint, contexts, said>>
    PROVE  TalksOK'
<1>1. \A w \in Workers \ {h} : req'[w] = req[w]
    BY DEF StudioEnd, StudioMove
<1>2. Conversations'
    BY DEF TalksOK, Conversations
<1>3. req'[h] # NoReq => req[h] # NoReq /\ req'[h].op = req[h].op
    BY DEF StudioEnd, StudioMove
<1>4. ASSUME NEW s \in Sessions PROVE SessionOK(s)'
    <2>1. ASSUME NEW w \in Workers
          PROVE  /\ Talks(w, s)' => Talks(w, s) /\ (TalkOK(w, s) => TalkOK(w, s)')
                 /\ Forgets(w, s)' => Forgets(w, s) /\ (ForSession(w, s)' => ForSession(w, s))
                 /\ Disables(w)' => Disables(w)
                 /\ Deletes(w)' => Deletes(w)
        <3>1. CASE w = h
            <4>1. \A t \in Sessions : (t = s /\ Talks(h, t)') => req'[h].op = "talk" /\ req'[h] # NoReq
                BY DEF Talks
            <4>2. ~Talks(h, s)' /\ ~Forgets(h, s)'
                <5>1. req[h] # NoReq => req[h].op # "talk" /\ req[h].op # "forget session"
                    BY DEF Talks, Forgets
                <5> QED BY <1>3, <5>1 DEF Talks, Forgets
            <4> QED BY <1>3, <3>1, <4>2 DEF Disables, Deletes
        <3>2. CASE w # h
            <4>1. SameTalk(w, s) /\ (ForSession(w, s)' <=> ForSession(w, s)) /\ req'[w] = req[w]
                BY <1>1, <3>2, OthersSame
            <4>2. TalkOK(w, s) => TalkOK(w, s)'
                BY <4>1 DEF TalkOK
            <4> QED BY <4>1, <4>2 DEF SameTalk
        <3> QED BY <3>1, <3>2
    <2>2. SessionOK(s) /\ contexts'[s] = contexts[s] /\ said'[s] = said[s] /\ endpoint' = endpoint
          /\ (SessionInDoubt(s)' <=> SessionInDoubt(s))
        BY DEF TalksOK
    <2> QED BY <2>1, <2>2, SessionSame
<1> QED BY <1>2, <1>4 DEF TalksOK

\* and when their table is dropped.
LEMMA SessionsDropped ==
    ASSUME TalksOK, NEW h \in Workers, Disables(h) \/ Deletes(h), StudioEnd(h) \/ \E at, data : StudioMove(h, at, data),
           \A s \in Sessions : SessionInDoubt(s)' <=> SessionInDoubt(s), endpoint' \in {0, endpoint},
           UNCHANGED <<contexts, said>> \/ (contexts' = NoContexts /\ said' = Silence)
    PROVE  TalksOK'
<1>1. \A w \in Workers \ {h} : req'[w] = req[w]
    BY DEF StudioEnd, StudioMove
<1>2. NoContext \in ContextRow /\ Len(NoContext.kept) <= MaxKept /\ NothingSaid \in SaidRow
      /\ NoContext.kept = NothingSaid.kept /\ NoContext.tokens = NothingSaid.tokens
    BY StudioAssumption DEF NoContext, NothingSaid, ContextRow, SaidRow
<1>3. Conversations'
    BY <1>2 DEF TalksOK, Conversations, NoContexts, Silence
<1>4. ASSUME NEW s \in Sessions PROVE SessionOK(s)'
    <2>1. SessionOK(s)
        BY DEF TalksOK
    <2>2. req'[h] # NoReq => req[h] # NoReq /\ req'[h].op = req[h].op
        BY DEF StudioEnd, StudioMove
    <2>3. req[h] # NoReq /\ req[h].op \in {"disable plugin", "delete project"}
        BY DEF Disables, Deletes
    <2>4. ~Talks(h, s)' /\ ~Forgets(h, s)'
        BY <2>2, <2>3 DEF Talks, Forgets
    <2>5. ASSUME NEW w \in Workers
          PROVE  /\ Talks(w, s)' => Talks(w, s) /\ w # h
                 /\ Forgets(w, s)' => Forgets(w, s) /\ (ForSession(w, s)' => ForSession(w, s))
        <3>1. CASE w = h
            BY <2>4, <3>1
        <3>2. CASE w # h
            <4>1. SameTalk(w, s) /\ (ForSession(w, s)' <=> ForSession(w, s))
                BY <1>1, <3>2, OthersSame
            <4> QED BY <3>2, <4>1 DEF SameTalk
        <3> QED BY <3>1, <3>2
    <2>6. CASE SessionInDoubt(s)'
        BY <2>1, <2>5, <2>6, SessionDoubted
    <2>7. CASE ~SessionInDoubt(s)'
        <3>1. \A w \in Workers : ~Talks(w, s)'
            <4> SUFFICES ASSUME NEW w \in Workers, Talks(w, s)' PROVE FALSE
                OBVIOUS
            <4>1. Talks(w, s) /\ w # h
                BY <2>5
            <4>2. Disturbs(h, s)
                BY DEF Disturbs
            <4>3. SessionInDoubt(s)
                BY <2>1, <4>1, <4>2 DEF SessionOK
            <4> QED BY <2>7, <4>3
        <3>2. contexts'[s].kept = said'[s].kept /\ contexts'[s].tokens = said'[s].tokens
            BY <1>2, <2>1, <2>7 DEF SessionOK, NoContexts, Silence
        <3> QED BY <3>1, <3>2, SessionQuiet
    <2> QED BY <2>6, <2>7
<1> QED BY <1>3, <1>4 DEF TalksOK

\* Of two requests that switch the plugin neither is sure, nor one that enables beside a deletion.
LEMMA OthersUnsure ==
    ASSUME PluginOK, NEW h \in Workers, Enables(h) \/ Disables(h), NEW w \in Workers, w # h
    PROVE  /\ Enables(w) => ~ForPlugin(w) /\ PluginInDoubt
           /\ Disables(w) => ~ForPlugin(w) /\ PluginInDoubt
           /\ (Deletes(w) /\ Enables(h)) => ~ForPlugin(h) /\ PluginInDoubt
<1>1. Enables(w) => ~ForPlugin(w) /\ PluginInDoubt
    BY DEF PluginOK, EnableOK
<1>2. Disables(w) => ~ForPlugin(w) /\ PluginInDoubt
    BY DEF PluginOK, DisableOK
<1>3. (Deletes(w) /\ Enables(h)) => ~ForPlugin(h) /\ PluginInDoubt
    BY DEF PluginOK, EnableOK
<1> QED BY <1>1, <1>2, <1>3

\* The plugin when a request that switches it moves on,
LEMMA SwitchMoves ==
    ASSUME PluginOK, NEW h \in Workers, Enables(h) \/ Disables(h), NEW at, NEW data, StudioMove(h, at, data),
           PluginInDoubt' <=> PluginInDoubt, plugin' \in {"none", "on", "off"}, studio' \subseteq StudioTables,
           Enables(h) => EnableOK(h)', Disables(h) => DisableOK(h)', TablesOK',
           Disables(h) => (plugin' = "on" => plugin = "on")
    PROVE  PluginOK'
<1>1. \A w \in Workers \ {h} : SamePlugin(w)
    BY OthersSame DEF StudioMove
<1>2. (Enables(h)' <=> Enables(h)) /\ (Disables(h)' <=> Disables(h)) /\ (Deletes(h)' <=> Deletes(h)) /\ ~Deletes(h)
    BY DEF StudioMove, Enables, Disables, Deletes
<1>3. ASSUME NEW w \in Workers
      PROVE  (Enables(w)' => EnableOK(w)') /\ (Disables(w)' => DisableOK(w)') /\ (Deletes(w)' => ErasesOK(w)')
    <2>1. CASE w = h
        BY <1>2, <2>1
    <2>2. CASE w # h
        <3>1. SamePlugin(w) /\ (Deletes(w) => ErasesOK(w))
            BY <1>1, <2>2 DEF PluginOK
        <3>2. /\ Enables(w) => ~ForPlugin(w) /\ PluginInDoubt
              /\ Disables(w) => ~ForPlugin(w) /\ PluginInDoubt
              /\ (Deletes(w) /\ Enables(h)) => ~ForPlugin(h) /\ PluginInDoubt
            BY <2>2, OthersUnsure
        <3>3. Enables(w)' => EnableOK(w)'
            BY <3>1, <3>2 DEF SamePlugin, EnableOK
        <3>4. Disables(w)' => DisableOK(w)'
            BY <3>1, <3>2 DEF SamePlugin, DisableOK
        <3>5. Deletes(w)' => ErasesOK(w)'
            BY <3>1, <3>2 DEF SamePlugin, ErasesOK
        <3> QED BY <3>3, <3>4, <3>5
    <2> QED BY <2>1, <2>2
<1> QED BY <1>3 DEF PluginOK

\* and when it ends.
LEMMA SwitchEnds ==
    ASSUME PluginOK, NEW h \in Workers, Enables(h) \/ Disables(h), StudioEnd(h),
           (PluginInDoubt' <=> PluginInDoubt) \/ ForPlugin(h), plugin' \in {"none", "on", "off"}, studio' \subseteq StudioTables,
           TablesOK', \A w \in Workers : Deletes(w) => ErasesOK(w)'
    PROVE  PluginOK'
<1>1. \A w \in Workers \ {h} : SamePlugin(w)
    BY OthersSame DEF StudioEnd
<1>2. ~Enables(h)' /\ ~Disables(h)' /\ ~Deletes(h)'
    BY DEF StudioEnd, Enables, Disables, Deletes
<1>3. ASSUME NEW w \in Workers
      PROVE  (Enables(w)' => EnableOK(w)') /\ (Disables(w)' => DisableOK(w)') /\ (Deletes(w)' => ErasesOK(w)')
    <2>1. CASE w = h
        BY <1>2, <2>1
    <2>2. CASE w # h
        <3>1. SamePlugin(w)
            BY <1>1, <2>2
        <3>2. /\ Enables(w) => ~ForPlugin(w) /\ PluginInDoubt
              /\ Disables(w) => ~ForPlugin(w) /\ PluginInDoubt
            BY <2>2, OthersUnsure
        <3>3. ForPlugin(h) => ~Enables(w) /\ ~Disables(w)
            BY <2>2 DEF PluginOK, EnableOK, DisableOK
        <3>4. Enables(w)' => EnableOK(w)'
            BY <3>1, <3>2, <3>3 DEF SamePlugin, EnableOK
        <3>5. Disables(w)' => DisableOK(w)'
            BY <3>1, <3>2, <3>3 DEF SamePlugin, DisableOK
        <3>6. Deletes(w)' => ErasesOK(w)'
            BY <3>1 DEF SamePlugin
        <3> QED BY <3>4, <3>5, <3>6
    <2> QED BY <2>1, <2>2
<1> QED BY <1>3 DEF PluginOK

\* What a step of a request does to the requests when it goes on,
LEMMA StudioGoes ==
    ASSUME StudioRequests, NEW h \in Workers, Ours(StudioWork, h), NEW at \in Awaits, NEW data \in RequestData, Go(h, at, data),
           \A r : (r.op = req[h].op /\ r.on = req[h].on /\ r.at = at /\ r.data = data) => StudioRequest(r)
    PROVE  StudioRequests' /\ StudioMove(h, at, data) /\ doubt' = doubt
<1>1. RequestsOf(StudioWork, StudioPlaces) /\ req[h] # NoReq
    BY DEF StudioRequests, TypedRequests, Ours
<1>2. Put(h, Moved(req[h], at, data)) /\ UNCHANGED <<doubt, calls, menu>>
    BY <1>1, GoPuts
<1> QED BY <1>2, StudioMoves

\* ends,
LEMMA StudioFinishes ==
    ASSUME StudioRequests, NEW h \in Workers, NEW settled, Finish(h, settled)
    PROVE  StudioRequests' /\ StudioEnd(h) /\ doubt' = doubt \ (settled \cap req[h].sure)
<1>1. RequestsOf(StudioWork, StudioPlaces)
    BY DEF StudioRequests, TypedRequests
<1>2. Put(h, NoReq) /\ doubt' = doubt \ (settled \cap req[h].sure) /\ UNCHANGED <<calls, menu>>
    BY <1>1, EndPuts
<1> QED BY <1>2, StudioEnds

\* or leaves something undone.
LEMMA StudioBreaks ==
    ASSUME StudioRequests, NEW h \in Workers, NEW more, Leave(h, more) \/ Fail(h, more)
    PROVE  StudioRequests' /\ StudioEnd(h) /\ doubt' = doubt \cup more
<1>1. RequestsOf(StudioWork, StudioPlaces)
    BY DEF StudioRequests, TypedRequests
<1>2. Put(h, NoReq) /\ doubt' = doubt \cup more /\ UNCHANGED <<calls, menu>>
    BY <1>1, EndPuts, LeavePuts
<1> QED BY <1>2, StudioEnds

\* A request that switches the plugin, and its data;
LEMMA SwitchIs ==
    ASSUME StudioInv, NEW h \in Workers, Enables(h) \/ Disables(h)
    PROVE  /\ req[h] # NoReq /\ Ours(StudioWork, h) /\ \A s : ~Talks(h, s) /\ ~Forgets(h, s)
           /\ req[h].op \in PluginOps /\ ~Deletes(h) /\ ~(Enables(h) /\ Disables(h))
           /\ req[h].at \in {"find", "write", "project", "endpoints", "logs", "contexts"}
           /\ req[h].at # "find" => req[h].data \in [was : {"none", "on", "off"}]
<1>1. req[h] # NoReq /\ (req[h].op = "enable plugin" \/ req[h].op = "disable plugin")
    BY DEF Enables, Disables
<1>2. Ours(StudioWork, h) /\ req[h].op \in PluginOps
    BY <1>1 DEF Ours, StudioWork, PluginOps
<1>3. StudioRequest(req[h])
    BY <1>2 DEF StudioInv, StudioRequests
<1>4. (\A s : ~Talks(h, s) /\ ~Forgets(h, s)) /\ ~Deletes(h) /\ ~(Enables(h) /\ Disables(h))
    BY <1>1 DEF Talks, Forgets, Deletes, Enables, Disables
<1> QED BY <1>1, <1>2, <1>3, <1>4 DEF StudioRequest

\* its next await,
LEMMA SwitchGoes ==
    ASSUME StudioInv, NEW h \in Workers, Enables(h) \/ Disables(h),
           NEW at \in {"write", "project", "endpoints", "logs", "contexts"}, NEW data \in [was : {"none", "on", "off"}],
           Go(h, at, data)
    PROVE  StudioRequests' /\ StudioMove(h, at, data) /\ doubt' = doubt
<1>1. req[h].op \in PluginOps /\ Ours(StudioWork, h)
    BY SwitchIs
<1>2. at \in Awaits
    BY DEF Awaits
<1>3. data \in RequestData
    BY DEF RequestData
<1>4. StudioRequest(req[h])
    BY <1>1 DEF StudioInv, StudioRequests
<1>5. ASSUME NEW r, r.op = req[h].op, r.on = req[h].on, r.at = at, r.data = data
      PROVE  StudioRequest(r)
    <2>1. r.op # "talk" /\ r.op # "forget session" /\ r.op # "delete project"
        BY <1>1, <1>5 DEF PluginOps
    <2> QED BY <1>4, <1>5, <2>1 DEF StudioRequest, DeletionOK
<1> QED BY <1>1, <1>2, <1>3, <1>5, StudioGoes DEF StudioInv

\* and what its end and its steps do to doubt.
LEMMA SwitchSettles ==
    ASSUME NEW settled, settled \subseteq {PluginObject}, NEW h, doubt' = doubt \ (settled \cap req[h].sure) \/ doubt' = doubt \cup settled
    PROVE  \A s : SessionInDoubt(s)' <=> SessionInDoubt(s)
<1>1. \A s : SessionObject(s) # PluginObject
    BY DEF SessionObject, PluginObject
<1> QED BY <1>1 DEF SessionInDoubt

\* A step that leaves the plugin in doubt keeps the invariant;
LEMMA SwitchBreaks ==
    ASSUME StudioInv, NEW h \in Workers, FindNoProject(h) \/ MakeTableRefused(h) \/ PluginStepFails(h)
    PROVE  StudioInv'
<1>1. Enables(h) \/ Disables(h)
    BY DEF FindNoProject, MakeTableRefused, PluginStepFails, OfPlugin, PluginOps, At, Enables, Disables
<1>2. (Leave(h, {PluginObject}) \/ Fail(h, {PluginObject})) /\ UNCHANGED studioVars
    BY DEF FindNoProject, MakeTableRefused, PluginStepFails
<1>3. StudioRequests' /\ StudioEnd(h) /\ doubt' = doubt \cup {PluginObject}
    BY <1>2, StudioBreaks DEF StudioInv
<1>4. PluginInDoubt' /\ \A s : SessionInDoubt(s)' <=> SessionInDoubt(s)
    BY <1>3, SwitchSettles DEF PluginInDoubt
<1>5. /\ \A w \in Workers \ {h} : SamePlugin(w)
      /\ ~Enables(h)' /\ ~Disables(h)' /\ ~Deletes(h)'
    BY <1>3, OthersSame DEF StudioEnd, Enables, Disables, Deletes
<1>6. UNCHANGED <<plugin, studio, endpoint, contexts, said>>
    BY <1>2 DEF studioVars
<1>7. PluginOK'
    BY <1>4, <1>5, <1>6, PluginDoubted DEF StudioInv
<1>8. TalksOK'
    BY <1>1, <1>3, <1>4, <1>6, SwitchIs, SessionsKept DEF StudioInv
<1> QED BY <1>3, <1>7, <1>8 DEF StudioInv

\* one that looks for the row,
LEMMA FindPluginKeeps ==
    ASSUME StudioInv, NEW h \in Workers, FindPlugin(h)
    PROVE  StudioInv'
<1>1. (Enables(h) \/ Disables(h)) /\ req[h].at = "find"
    BY DEF FindPlugin, OfPlugin, PluginOps, At, Enables, Disables
<1>2. UNCHANGED <<plugin, studio, endpoint, contexts, said>>
    BY DEF FindPlugin, studioVars
<1>3. PICK at, data : at = "write" /\ data = [was |-> plugin] /\ Go(h, at, data)
    BY DEF FindPlugin
<1>4. plugin \in {"none", "on", "off"} /\ data \in [was : {"none", "on", "off"}] /\ data.was = plugin
    BY <1>3 DEF StudioInv, PluginOK
<1>5. StudioRequests' /\ StudioMove(h, at, data) /\ doubt' = doubt
    BY <1>1, <1>3, <1>4, SwitchGoes
<1>6. (PluginInDoubt' <=> PluginInDoubt) /\ \A s : SessionInDoubt(s)' <=> SessionInDoubt(s)
    BY <1>5 DEF PluginInDoubt, SessionInDoubt
<1>7. \A w \in Workers \ {h} : SamePlugin(w)
    BY <1>5, OthersSame DEF StudioMove
<1>8. /\ (Enables(h)' <=> Enables(h)) /\ (Disables(h)' <=> Disables(h)) /\ (Deletes(h)' <=> Deletes(h)) /\ ~Deletes(h)
      /\ req'[h].at = "write" /\ req'[h].data.was = plugin /\ (ForPlugin(h)' <=> ForPlugin(h))
    BY <1>1, <1>3, <1>4, <1>5 DEF StudioMove, Enables, Disables, Deletes, ForPlugin
<1>9. Enables(h) => EnableOK(h)'
    <2>1. Enables(h) => EnableOK(h)
        BY DEF StudioInv, PluginOK
    <2> QED BY <1>1, <1>2, <1>6, <1>7, <1>8, <2>1 DEF EnableOK, SamePlugin
<1>10. Disables(h) => DisableOK(h)'
    <2>1. Disables(h) => DisableOK(h)
        BY DEF StudioInv, PluginOK
    <2> QED BY <1>1, <1>2, <1>6, <1>7, <1>8, <2>1 DEF DisableOK, SamePlugin
<1>11. TablesOK'
    <2>1. \A w \in Workers : (DropsTables(w)' <=> DropsTables(w)) /\ (Enables(w)' <=> Enables(w))
        BY <1>1, <1>7, <1>8 DEF SamePlugin, DropsTables
    <2>2. TablesOK
        BY DEF StudioInv, PluginOK
    <2> QED BY <1>2, <1>6, <2>1, <2>2 DEF TablesOK
<1>12. PluginOK'
    <2>1. plugin' \in {"none", "on", "off"} /\ studio' \subseteq StudioTables
        BY <1>2 DEF StudioInv, PluginOK
    <2> QED BY <1>1, <1>2, <1>5, <1>6, <1>9, <1>10, <1>11, <2>1, SwitchMoves DEF StudioInv
<1>13. TalksOK'
    BY <1>1, <1>2, <1>5, <1>6, SwitchIs, SessionsKept DEF StudioInv
<1> QED BY <1>5, <1>12, <1>13 DEF StudioInv

\* What a request is for the plugin that goes on,
LEMMA SwitchStep ==
    ASSUME StudioInv, NEW h \in Workers, Enables(h) \/ Disables(h),
           NEW at \in {"write", "project", "endpoints", "logs", "contexts"}, NEW data \in [was : {"none", "on", "off"}],
           Go(h, at, data)
    PROVE  /\ StudioRequests' /\ StudioMove(h, at, data) /\ (PluginInDoubt' <=> PluginInDoubt)
           /\ \A s : SessionInDoubt(s)' <=> SessionInDoubt(s)
           /\ \A w \in Workers \ {h} : SamePlugin(w)
           /\ (Enables(h)' <=> Enables(h)) /\ (Disables(h)' <=> Disables(h)) /\ ~Deletes(h)' /\ ~Deletes(h)
           /\ req'[h].at = at /\ req'[h].data = data /\ (ForPlugin(h)' <=> ForPlugin(h))
<1>1. StudioRequests' /\ StudioMove(h, at, data) /\ doubt' = doubt
    BY SwitchGoes
<1>2. (PluginInDoubt' <=> PluginInDoubt) /\ \A s : SessionInDoubt(s)' <=> SessionInDoubt(s)
    BY <1>1 DEF PluginInDoubt, SessionInDoubt
<1>3. \A w \in Workers \ {h} : SamePlugin(w)
    BY <1>1, OthersSame DEF StudioMove
<1>4. /\ (Enables(h)' <=> Enables(h)) /\ (Disables(h)' <=> Disables(h)) /\ (Deletes(h)' <=> Deletes(h)) /\ ~Deletes(h)
      /\ req'[h].at = at /\ req'[h].data = data /\ (ForPlugin(h)' <=> ForPlugin(h))
    BY <1>1 DEF StudioMove, Enables, Disables, Deletes, ForPlugin
<1> QED BY <1>1, <1>2, <1>3, <1>4

\* or ends.
LEMMA SwitchOver ==
    ASSUME StudioInv, NEW h \in Workers, Enables(h) \/ Disables(h), NEW settled \in SUBSET {PluginObject}, Finish(h, settled)
    PROVE  /\ StudioRequests' /\ StudioEnd(h)
           /\ ((PluginInDoubt' <=> PluginInDoubt) \/ ForPlugin(h))
           /\ PluginInDoubt' => PluginInDoubt
           /\ \A s : SessionInDoubt(s)' <=> SessionInDoubt(s)
           /\ \A w \in Workers \ {h} : SamePlugin(w)
           /\ ~Enables(h)' /\ ~Disables(h)' /\ ~Deletes(h)' /\ ~Deletes(h)
<1>1. StudioRequests' /\ StudioEnd(h) /\ doubt' = doubt \ (settled \cap req[h].sure)
    BY StudioFinishes DEF StudioInv
<1>2. \A s : SessionInDoubt(s)' <=> SessionInDoubt(s)
    BY <1>1, SwitchSettles
<1>3. ((PluginInDoubt' <=> PluginInDoubt) \/ ForPlugin(h)) /\ (PluginInDoubt' => PluginInDoubt)
    BY <1>1 DEF PluginInDoubt, ForPlugin
<1>4. \A w \in Workers \ {h} : SamePlugin(w)
    BY <1>1, OthersSame DEF StudioEnd
<1>5. ~Enables(h)' /\ ~Disables(h)' /\ ~Deletes(h)' /\ ~Deletes(h)
    BY <1>1 DEF StudioEnd, Enables, Disables, Deletes
<1> QED BY <1>1, <1>2, <1>3, <1>4, <1>5

\* One that writes the row,
LEMMA WritePluginKeeps ==
    ASSUME StudioInv, NEW h \in Workers, WritePlugin(h)
    PROVE  StudioInv'
<1>1. (Enables(h) \/ Disables(h)) /\ req[h].at = "write"
    BY DEF WritePlugin, OfPlugin, PluginOps, At, Enables, Disables
<1>2. UNCHANGED <<studio, endpoint, contexts, said>>
    BY DEF WritePlugin
<1>3. /\ req[h].data \in [was : {"none", "on", "off"}] /\ ~(Enables(h) /\ Disables(h)) /\ \A s : ~Talks(h, s) /\ ~Forgets(h, s)
    BY <1>1, SwitchIs
<1>4. /\ plugin \in {"none", "on", "off"} /\ studio \subseteq StudioTables /\ TablesOK
      /\ (Enables(h) => EnableOK(h)) /\ (Disables(h) => DisableOK(h))
      /\ \A w \in Workers : Deletes(w) => ErasesOK(w)
    BY DEF StudioInv, PluginOK
<1>5. CASE Finish(h, {}) /\ UNCHANGED plugin /\ req[h].data.was = "none" /\ plugin # "none"
    <2>1. /\ StudioRequests' /\ StudioEnd(h) /\ ((PluginInDoubt' <=> PluginInDoubt) \/ ForPlugin(h))
          /\ PluginInDoubt' => PluginInDoubt
          /\ \A s : SessionInDoubt(s)' <=> SessionInDoubt(s)
          /\ \A w \in Workers \ {h} : SamePlugin(w)
          /\ ~Enables(h)' /\ ~Disables(h)' /\ ~Deletes(h)' /\ ~Deletes(h)
        BY <1>1, <1>5, SwitchOver
    <2>2. doubt' = doubt \ ({} \cap req[h].sure)
        BY <1>5 DEF Finish
    <2>3. PluginInDoubt' <=> PluginInDoubt
        BY <2>2 DEF PluginInDoubt
    <2>4. Enables(h) => PluginInDoubt
        BY <1>1, <1>4, <1>5 DEF EnableOK
    <2>5. TablesOK'
        <3>1. \A w \in Workers : DropsTables(w)' <=> DropsTables(w)
            BY <1>1, <2>1 DEF SamePlugin, DropsTables
        <3>2. \A w \in Workers : w # h => (Enables(w)' <=> Enables(w))
            BY <2>1 DEF SamePlugin
        <3> QED BY <1>2, <1>4, <1>5, <2>1, <2>3, <2>4, <3>1, <3>2 DEF TablesOK
    <2>6. \A w \in Workers : Deletes(w) => ErasesOK(w)'
        BY <1>4, <1>5, <2>1, <2>3 DEF ErasesOK, SamePlugin
    <2>7. PluginOK'
        BY <1>1, <1>2, <1>4, <1>5, <2>1, <2>5, <2>6, SwitchEnds DEF StudioInv
    <2>8. TalksOK'
        BY <1>1, <1>2, <1>3, <2>1, SessionsKept DEF StudioInv
    <2> QED BY <2>1, <2>7, <2>8 DEF StudioInv
<1>6. CASE /\ plugin' = IF req[h].data.was # "none" /\ plugin = "none" THEN plugin
                        ELSE IF req[h].op = "enable plugin" THEN "on" ELSE "off"
           /\ GoOn(h, "project")
    <2>1. PICK at, data : at = "project" /\ data = req[h].data /\ Go(h, at, data)
        BY <1>6 DEF GoOn
    <2>2. /\ StudioRequests' /\ StudioMove(h, at, data) /\ (PluginInDoubt' <=> PluginInDoubt)
          /\ \A s : SessionInDoubt(s)' <=> SessionInDoubt(s)
          /\ \A w \in Workers \ {h} : SamePlugin(w)
          /\ (Enables(h)' <=> Enables(h)) /\ (Disables(h)' <=> Disables(h)) /\ ~Deletes(h)' /\ ~Deletes(h)
          /\ req'[h].at = at /\ req'[h].data = data /\ (ForPlugin(h)' <=> ForPlugin(h))
        BY <1>1, <1>3, <2>1, SwitchStep
    <2>3. plugin' \in {"none", "on", "off"} /\ studio' \subseteq StudioTables
        BY <1>2, <1>4, <1>6
    <2>4. (Disables(h) => plugin' # "on") /\ (Enables(h) /\ req[h].data.was = plugin => plugin' = "on")
        BY <1>6 DEF Enables, Disables
    <2>5. Enables(h) => EnableOK(h)'
        BY <1>1, <1>2, <1>4, <2>1, <2>2, <2>4 DEF EnableOK, SamePlugin
    <2>6. Disables(h) => DisableOK(h)'
        BY <1>1, <1>4, <2>1, <2>2, <2>4 DEF DisableOK, SamePlugin
    <2>7. TablesOK'
        <3>1. CASE Enables(h)
            BY <2>2, <3>1 DEF TablesOK
        <3>2. CASE Disables(h)
            <4>1. DropsTables(h)'
                BY <2>1, <2>2, <3>2 DEF DropsTables
            <4> QED BY <2>4, <3>2, <4>1 DEF TablesOK
        <3> QED BY <1>1, <3>1, <3>2
    <2>8. PluginOK'
        BY <1>1, <2>2, <2>3, <2>4, <2>5, <2>6, <2>7, SwitchMoves DEF StudioInv
    <2>9. TalksOK'
        BY <1>1, <1>2, <1>3, <2>2, SessionsKept DEF StudioInv
    <2> QED BY <2>2, <2>8, <2>9 DEF StudioInv
<1> QED BY <1>5, <1>6 DEF WritePlugin

\* looks for the project,
LEMMA FindTablesKeeps ==
    ASSUME StudioInv, NEW h \in Workers, FindTables(h)
    PROVE  StudioInv'
<1>1. (Enables(h) \/ Disables(h)) /\ req[h].at = "project"
    BY DEF FindTables, OfPlugin, PluginOps, At, Enables, Disables
<1>2. UNCHANGED <<plugin, studio, endpoint, contexts, said>>
    BY DEF FindTables, studioVars
<1>3. /\ req[h].data \in [was : {"none", "on", "off"}] /\ ~(Enables(h) /\ Disables(h)) /\ \A s : ~Talks(h, s) /\ ~Forgets(h, s)
    BY <1>1, SwitchIs
<1>4. /\ plugin \in {"none", "on", "off"} /\ studio \subseteq StudioTables /\ TablesOK
      /\ (Enables(h) => EnableOK(h)) /\ (Disables(h) => DisableOK(h))
      /\ \A w \in Workers : Deletes(w) => ErasesOK(w)
    BY DEF StudioInv, PluginOK
<1>5. CASE Finish(h, {}) /\ Enables(h) /\ "endpoints" \in studio
    <2>1. /\ StudioRequests' /\ StudioEnd(h) /\ ((PluginInDoubt' <=> PluginInDoubt) \/ ForPlugin(h))
          /\ PluginInDoubt' => PluginInDoubt
          /\ \A s : SessionInDoubt(s)' <=> SessionInDoubt(s)
          /\ \A w \in Workers \ {h} : SamePlugin(w)
          /\ ~Enables(h)' /\ ~Disables(h)' /\ ~Deletes(h)' /\ ~Deletes(h)
        BY <1>1, <1>5, SwitchOver
    <2>2. doubt' = doubt \ ({} \cap req[h].sure)
        BY <1>5 DEF Finish
    <2>3. PluginInDoubt' <=> PluginInDoubt
        BY <2>2 DEF PluginInDoubt
    <2>4. ~PluginInDoubt => plugin = "on" /\ studio = StudioTables
        <3>1. studio # {}
            BY <1>5
        <3> QED BY <1>1, <1>4, <1>5, <3>1 DEF EnableOK
    <2>5. TablesOK'
        BY <1>2, <2>3, <2>4 DEF TablesOK
    <2>6. \A w \in Workers : Deletes(w) => ErasesOK(w)'
        BY <1>2, <1>4, <2>1, <2>3 DEF ErasesOK, SamePlugin
    <2>7. PluginOK'
        BY <1>1, <1>2, <1>4, <2>1, <2>5, <2>6, SwitchEnds DEF StudioInv
    <2>8. TalksOK'
        BY <1>1, <1>2, <1>3, <2>1, SessionsKept DEF StudioInv
    <2> QED BY <2>1, <2>7, <2>8 DEF StudioInv
<1>6. ASSUME NEW at, at = IF Enables(h) THEN "endpoints" ELSE "contexts", GoOn(h, at) PROVE StudioInv'
    <2>1. PICK data : data = req[h].data /\ Go(h, at, data) /\ at \in {"write", "project", "endpoints", "logs", "contexts"}
        BY <1>6 DEF GoOn
    <2>2. /\ StudioRequests' /\ StudioMove(h, at, data) /\ (PluginInDoubt' <=> PluginInDoubt)
          /\ \A s : SessionInDoubt(s)' <=> SessionInDoubt(s)
          /\ \A w \in Workers \ {h} : SamePlugin(w)
          /\ (Enables(h)' <=> Enables(h)) /\ (Disables(h)' <=> Disables(h)) /\ ~Deletes(h)' /\ ~Deletes(h)
          /\ req'[h].at = at /\ req'[h].data = data /\ (ForPlugin(h)' <=> ForPlugin(h))
        BY <1>1, <1>3, <2>1, SwitchStep
    <2>3. Enables(h) => EnableOK(h)'
        BY <1>1, <1>2, <1>4, <1>6, <2>1, <2>2 DEF EnableOK, SamePlugin
    <2>4. Disables(h) => DisableOK(h)'
        BY <1>1, <1>2, <1>3, <1>4, <1>6, <2>1, <2>2 DEF DisableOK, SamePlugin
    <2>5. TablesOK'
        <3>1. CASE Enables(h)
            BY <2>2, <3>1 DEF TablesOK
        <3>2. CASE ~Enables(h)
            <4>1. DropsTables(h)'
                BY <1>1, <1>6, <2>2, <3>2 DEF DropsTables
            <4>2. (\A w \in Workers : ~Enables(w)') => \A w \in Workers : ~Enables(w)
                BY <2>2, <3>2 DEF SamePlugin
            <4> QED BY <1>2, <1>4, <2>2, <4>1, <4>2 DEF TablesOK
        <3> QED BY <3>1, <3>2
    <2>6. PluginOK'
        BY <1>1, <1>2, <1>4, <2>2, <2>3, <2>4, <2>5, SwitchMoves DEF StudioInv
    <2>7. TalksOK'
        BY <1>1, <1>2, <1>3, <2>2, SessionsKept DEF StudioInv
    <2> QED BY <2>2, <2>6, <2>7 DEF StudioInv
<1>7. req[h].op = "enable plugin" <=> Enables(h)
    BY <1>1 DEF Enables, Disables
<1> QED BY <1>5, <1>6, <1>7 DEF FindTables

\* makes a table,
LEMMA MakeTableKeeps ==
    ASSUME StudioInv, NEW h \in Workers, MakeTable(h)
    PROVE  StudioInv'
<1>1. PICK t \in StudioTables :
        /\ At(h, "enable plugin", t) /\ project.schema /\ t \notin studio
        /\ t # "endpoints" => "endpoints" \in studio
        /\ studio' = studio \cup {t}
        /\ IF t = "contexts" THEN Finish(h, {PluginObject})
           ELSE GoOn(h, IF t = "endpoints" THEN "logs" ELSE "contexts")
        /\ UNCHANGED <<plugin, endpoint, contexts, said>>
    BY DEF MakeTable
<1>2. Enables(h) /\ req[h].at = t /\ t \in {"endpoints", "logs", "contexts"}
    BY <1>1 DEF At, Enables, StudioTables
<1>3. /\ req[h].data \in [was : {"none", "on", "off"}] /\ ~Disables(h) /\ \A s : ~Talks(h, s) /\ ~Forgets(h, s)
    BY <1>2, SwitchIs
<1>4. /\ plugin \in {"none", "on", "off"} /\ studio \subseteq StudioTables /\ EnableOK(h)
      /\ \A w \in Workers : Deletes(w) => ErasesOK(w)
    BY <1>2 DEF StudioInv, PluginOK
<1>5. CASE t = "contexts"
    <2>1. PICK settled : settled = {PluginObject} /\ Finish(h, settled)
        BY <1>1, <1>5
    <2>2. /\ StudioRequests' /\ StudioEnd(h) /\ ((PluginInDoubt' <=> PluginInDoubt) \/ ForPlugin(h))
          /\ PluginInDoubt' => PluginInDoubt
          /\ \A s : SessionInDoubt(s)' <=> SessionInDoubt(s)
          /\ \A w \in Workers \ {h} : SamePlugin(w)
          /\ ~Enables(h)' /\ ~Disables(h)' /\ ~Deletes(h)' /\ ~Deletes(h)
        BY <1>2, <2>1, SwitchOver
    <2>3. ~PluginInDoubt' => ForPlugin(h)
        BY <1>4, <2>2 DEF EnableOK
    <2>4. ForPlugin(h) => plugin' = "on" /\ studio' = StudioTables
        BY <1>1, <1>2, <1>4, <1>5 DEF EnableOK, StudioTables
    <2>5. TablesOK'
        BY <2>3, <2>4 DEF TablesOK
    <2>6. \A w \in Workers : Deletes(w) => ErasesOK(w)'
        <3>1. \A w \in Workers : Deletes(w) => ~ForPlugin(h)
            BY <1>4, <2>2 DEF EnableOK
        <3> QED BY <2>3, <3>1 DEF ErasesOK
    <2>7. PluginOK'
        BY <1>1, <1>2, <1>4, <2>2, <2>5, <2>6, SwitchEnds DEF StudioInv
    <2>8. TalksOK'
        BY <1>1, <1>3, <2>2, SessionsKept DEF StudioInv
    <2> QED BY <2>2, <2>7, <2>8 DEF StudioInv
<1>6. CASE t # "contexts"
    <2>1. PICK at, data : /\ at = (IF t = "endpoints" THEN "logs" ELSE "contexts") /\ data = req[h].data /\ Go(h, at, data)
                          /\ at \in {"write", "project", "endpoints", "logs", "contexts"}
        BY <1>1, <1>6 DEF GoOn
    <2>2. /\ StudioRequests' /\ StudioMove(h, at, data) /\ (PluginInDoubt' <=> PluginInDoubt)
          /\ \A s : SessionInDoubt(s)' <=> SessionInDoubt(s)
          /\ \A w \in Workers \ {h} : SamePlugin(w)
          /\ (Enables(h)' <=> Enables(h)) /\ (Disables(h)' <=> Disables(h)) /\ ~Deletes(h)' /\ ~Deletes(h)
          /\ req'[h].at = at /\ req'[h].data = data /\ (ForPlugin(h)' <=> ForPlugin(h))
        BY <1>2, <1>3, <2>1, SwitchStep
    <2>3. EnableOK(h)'
        BY <1>1, <1>2, <1>4, <1>6, <2>1, <2>2 DEF EnableOK, SamePlugin
    <2>4. TablesOK'
        BY <1>2, <2>2 DEF TablesOK
    <2>5. PluginOK'
        BY <1>1, <1>2, <1>3, <1>4, <2>2, <2>3, <2>4, SwitchMoves DEF StudioInv
    <2>6. TalksOK'
        BY <1>1, <1>3, <2>2, SessionsKept DEF StudioInv
    <2> QED BY <2>2, <2>5, <2>6 DEF StudioInv
<1> QED BY <1>5, <1>6

\* or drops one.
LEMMA DropTableKeeps ==
    ASSUME StudioInv, NEW h \in Workers, DropTable(h)
    PROVE  StudioInv'
<1>1. PICK t \in StudioTables :
        /\ At(h, "disable plugin", t)
        /\ DropStudioTable(t)
        /\ IF t = "endpoints" THEN Finish(h, {PluginObject})
           ELSE GoOn(h, IF t = "contexts" THEN "logs" ELSE "endpoints")
        /\ UNCHANGED plugin
    BY DEF DropTable
<1>2. Disables(h) /\ req[h].at = t /\ t \in {"endpoints", "logs", "contexts"}
    BY <1>1 DEF At, Disables, StudioTables
<1>3. req[h].data \in [was : {"none", "on", "off"}] /\ ~Enables(h)
    BY <1>2, SwitchIs
<1>4. /\ plugin \in {"none", "on", "off"} /\ studio \subseteq StudioTables /\ DisableOK(h)
      /\ \A w \in Workers : Deletes(w) => ErasesOK(w)
    BY <1>2 DEF StudioInv, PluginOK
<1>5. /\ studio' = studio \ {t} /\ endpoint' \in {0, endpoint}
      /\ UNCHANGED <<contexts, said>> \/ (contexts' = NoContexts /\ said' = Silence)
    BY <1>1 DEF DropStudioTable
<1>6. CASE t = "endpoints"
    <2>1. PICK settled : settled = {PluginObject} /\ Finish(h, settled)
        BY <1>1, <1>6
    <2>2. /\ StudioRequests' /\ StudioEnd(h) /\ ((PluginInDoubt' <=> PluginInDoubt) \/ ForPlugin(h))
          /\ PluginInDoubt' => PluginInDoubt
          /\ \A s : SessionInDoubt(s)' <=> SessionInDoubt(s)
          /\ \A w \in Workers \ {h} : SamePlugin(w)
          /\ ~Enables(h)' /\ ~Disables(h)' /\ ~Deletes(h)' /\ ~Deletes(h)
        BY <1>2, <2>1, SwitchOver
    <2>3. ~PluginInDoubt' => ForPlugin(h)
        BY <1>4, <2>2 DEF DisableOK
    <2>4. ForPlugin(h) => plugin' # "on" /\ studio' = {}
        BY <1>1, <1>2, <1>4, <1>5, <1>6 DEF DisableOK, StudioTables
    <2>5. TablesOK'
        BY <2>3, <2>4 DEF TablesOK
    <2>6. \A w \in Workers : Deletes(w) => ErasesOK(w)'
        BY <2>3, <2>4 DEF ErasesOK
    <2>7. PluginOK'
        BY <1>1, <1>2, <1>4, <1>5, <2>2, <2>5, <2>6, SwitchEnds DEF StudioInv
    <2>8. TalksOK'
        BY <1>2, <1>5, <2>2, SessionsDropped DEF StudioInv
    <2> QED BY <2>2, <2>7, <2>8 DEF StudioInv
<1>7. CASE t # "endpoints"
    <2>1. PICK at, data : /\ at = (IF t = "contexts" THEN "logs" ELSE "endpoints") /\ data = req[h].data /\ Go(h, at, data)
                          /\ at \in {"write", "project", "endpoints", "logs", "contexts"}
        BY <1>1, <1>7 DEF GoOn
    <2>2. /\ StudioRequests' /\ StudioMove(h, at, data) /\ (PluginInDoubt' <=> PluginInDoubt)
          /\ \A s : SessionInDoubt(s)' <=> SessionInDoubt(s)
          /\ \A w \in Workers \ {h} : SamePlugin(w)
          /\ (Enables(h)' <=> Enables(h)) /\ (Disables(h)' <=> Disables(h)) /\ ~Deletes(h)' /\ ~Deletes(h)
          /\ req'[h].at = at /\ req'[h].data = data /\ (ForPlugin(h)' <=> ForPlugin(h))
        BY <1>2, <1>3, <2>1, SwitchStep
    <2>3. DisableOK(h)'
        BY <1>1, <1>2, <1>4, <1>5, <1>7, <2>1, <2>2 DEF DisableOK, SamePlugin
    <2>4. TablesOK'
        <3>1. ~PluginInDoubt' => plugin' # "on"
            BY <1>1, <1>2, <1>4, <2>2 DEF DisableOK
        <3>2. DropsTables(h)'
            BY <1>2, <1>7, <2>1, <2>2 DEF DropsTables
        <3> QED BY <3>1, <3>2 DEF TablesOK
    <2>5. PluginOK'
        BY <1>1, <1>2, <1>3, <1>4, <1>5, <2>2, <2>3, <2>4, SwitchMoves DEF StudioInv
    <2>6. TalksOK'
        BY <1>2, <1>5, <2>2, SessionsDropped DEF StudioInv
    <2> QED BY <2>2, <2>5, <2>6 DEF StudioInv
<1> QED BY <1>6, <1>7

----------------------------------------------------------------------------
(***************************************************************************)
(* The project is deleted, its plugin with it.                             *)
(***************************************************************************)

\* What a deletion does to the requests when it goes on,
LEMMA ErasureGoes ==
    ASSUME StudioInv, NEW h \in Workers, NEW at, NEW data, NEW more, DeletionGoes(h, at, data, more)
    PROVE  /\ StudioRequests' /\ StudioMove(h, at, data) /\ doubt' = doubt \cup more
           /\ \A w \in Workers \ {h} : SamePlugin(w)
           /\ ~Enables(h) /\ ~Disables(h) /\ Deletes(h) /\ ~Enables(h)' /\ ~Disables(h)' /\ Deletes(h)'
           /\ req'[h].at = at /\ \A s : ~Talks(h, s) /\ ~Forgets(h, s)
<1>1. Deletes(h) /\ Ours(StudioWork, h) /\ req[h].op = "delete project"
    BY DEF DeletionGoes, Deletes, Ours, StudioWork
<1>2. ~Enables(h) /\ ~Disables(h) /\ \A s : ~Talks(h, s) /\ ~Forgets(h, s)
    BY <1>1 DEF Enables, Disables, Talks, Forgets
<1>3. StudioRequest(req[h]) /\ TypedRequests(StudioWork, StudioPlaces)
    BY <1>1 DEF StudioInv, StudioRequests
<1>4. DeletionOK(req[h]) /\ "delete project" \in StudioWork
    BY <1>3 DEF StudioRequest, StudioWork
<1>5. /\ TypedRequests(StudioWork, StudioPlaces)'
      /\ Ours(StudioWork, h)' /\ req'[h] # NoReq /\ req'[h].op = "delete project" /\ req'[h].on = req[h].on /\ req'[h].at = at
      /\ req'[h].data = data /\ req'[h].sure = req[h].sure /\ DeletionOK(req'[h])
      /\ \A w \in Workers \ {h} : req'[w] = req[w]
    BY <1>3, <1>4, DeletionMoves
<1>6. StudioMove(h, at, data) /\ doubt' = doubt \cup more
    BY <1>1, <1>5 DEF StudioMove, Deletes, DeletionGoes
<1>7. StudioRequest(req'[h])
    <2>1. /\ req'[h].op # "talk" /\ req'[h].op # "forget session" /\ req'[h].op \notin PluginOps
          /\ req'[h].op # "enable plugin" /\ req'[h].op # "disable plugin"
        BY <1>5 DEF PluginOps
    <2> QED BY <1>5, <2>1 DEF StudioRequest
<1>8. StudioRequests'
    <2>1. \A w \in Workers : Ours(StudioWork, w)' => StudioRequest(req'[w])
        BY <1>5, <1>7 DEF Ours, StudioInv, StudioRequests
    <2> QED BY <1>5, <2>1 DEF StudioRequests
<1>9. \A w \in Workers \ {h} : SamePlugin(w)
    BY <1>5, OthersSame
<1>10. ~Enables(h)' /\ ~Disables(h)' /\ Deletes(h)'
    BY <1>5 DEF Enables, Disables, Deletes
<1> QED BY <1>1, <1>2, <1>5, <1>6, <1>8, <1>9, <1>10

\* The plugin when a deletion goes on that may have dropped something of it.
LEMMA ErasureOn ==
    ASSUME PluginOK, NEW h \in Workers, \A w \in Workers \ {h} : SamePlugin(w),
           ~Enables(h) /\ ~Disables(h) /\ Deletes(h) /\ ~Enables(h)' /\ ~Disables(h)' /\ Deletes(h)',
           PluginInDoubt => PluginInDoubt',
           plugin' \in {"none", "on", "off"}, studio' \subseteq StudioTables, plugin' = plugin \/ plugin' = "none",
           studio' = studio \/ studio' = {},
           (plugin' # plugin \/ studio' # studio) => plugin' # "on" \/ PluginInDoubt',
           DropsTables(h) => DropsTables(h)' \/ studio' = {} \/ PluginInDoubt',
           plugin' # plugin => DropsTables(h)' \/ studio' = {} \/ PluginInDoubt',
           ErasesOK(h)'
    PROVE  PluginOK'
<1>1. TablesOK'
    <2> SUFFICES ASSUME ~PluginInDoubt', \A w \in Workers : ~Enables(w)'
                 PROVE  /\ plugin' = "on" => studio' = StudioTables
                        /\ (plugin' # "on" /\ \A w \in Workers : ~DropsTables(w)') => studio' = {}
        BY DEF TablesOK
    <2>1. ~PluginInDoubt /\ \A w \in Workers : ~Enables(w)
        BY DEF SamePlugin
    <2>2. TablesOK
        BY DEF PluginOK
    <2>3. plugin' = "on" => studio' = StudioTables
        BY <2>1, <2>2 DEF TablesOK
    <2>4. ASSUME plugin' # "on", \A w \in Workers : ~DropsTables(w)' PROVE studio' = {}
        <3>1. \A w \in Workers \ {h} : ~DropsTables(w)
            BY <2>4 DEF SamePlugin, DropsTables
        <3>2. ~DropsTables(h) \/ studio' = {}
            BY <2>4
        <3> QED BY <2>1, <2>2, <2>4, <3>1, <3>2 DEF TablesOK
    <2> QED BY <2>3, <2>4
<1>2. ASSUME NEW w \in Workers
      PROVE  (Enables(w)' => EnableOK(w)') /\ (Disables(w)' => DisableOK(w)') /\ (Deletes(w)' => ErasesOK(w)')
    <2>1. CASE w = h
        BY <2>1
    <2>2. CASE w # h
        <3>1. (Enables(w) => EnableOK(w)) /\ (Disables(w) => DisableOK(w)) /\ (Deletes(w) => ErasesOK(w)) /\ SamePlugin(w)
            BY <2>2 DEF PluginOK
        <3>2. Enables(w)' => EnableOK(w)'
            <4>1. Enables(w) => ~ForPlugin(w) /\ PluginInDoubt
                BY <2>2, <3>1 DEF EnableOK
            <4> QED BY <3>1, <4>1 DEF EnableOK, SamePlugin
        <3>3. Disables(w)' => DisableOK(w)'
            <4> SUFFICES ASSUME Disables(w)' PROVE DisableOK(w)'
                OBVIOUS
            <4>1. Disables(w) /\ DisableOK(w) /\ ~Enables(w)
                BY <3>1 DEF SamePlugin, Enables, Disables
            <4>2. \A v \in Workers : v # w => (Enables(v)' => Enables(v)) /\ (Disables(v)' => Disables(v))
                BY DEF SamePlugin
            <4>3. plugin' = "on" => plugin = "on"
                OBVIOUS
            <4>4. studio' \subseteq studio
                OBVIOUS
            <4> QED BY <3>1, <4>1, <4>2, <4>3, <4>4 DEF DisableOK, SamePlugin
        <3>4. Deletes(w)' => ErasesOK(w)'
            BY <3>1 DEF ErasesOK, SamePlugin
        <3> QED BY <3>2, <3>3, <3>4
    <2> QED BY <2>1, <2>2
<1> QED BY <1>1, <1>2 DEF PluginOK

\* A deletion ends, at its end or with the plugin in doubt.
LEMMA ErasureEnds ==
    ASSUME StudioInv, NEW h \in Workers, Deletes(h), Put(h, NoReq), calls' = calls, UNCHANGED studioVars,
           \A s : SessionInDoubt(s)' <=> SessionInDoubt(s),
           PluginInDoubt' \/ ((PluginInDoubt' <=> PluginInDoubt) /\ ~DropsTables(h))
    PROVE  StudioInv'
<1>1. StudioRequests' /\ StudioEnd(h)
    BY StudioEnds DEF StudioInv
<1>2. UNCHANGED <<plugin, studio, endpoint, contexts, said>>
    BY DEF studioVars
<1>3. \A w \in Workers \ {h} : SamePlugin(w)
    BY <1>1, OthersSame DEF StudioEnd
<1>4. ~Enables(h)' /\ ~Disables(h)' /\ ~Deletes(h)' /\ ~Enables(h) /\ ~Disables(h)
    BY <1>1 DEF StudioEnd, Enables, Disables, Deletes
<1>5. PluginOK'
    <2>1. CASE PluginInDoubt'
        BY <1>2, <1>3, <1>4, <2>1, PluginDoubted DEF StudioInv
    <2>2. CASE (PluginInDoubt' <=> PluginInDoubt) /\ ~DropsTables(h)
        <3>1. PluginOK /\ plugin' \in {"none", "on", "off"} /\ studio' \subseteq StudioTables /\ TablesOK
            BY <1>2 DEF StudioInv, PluginOK
        <3>2. \A w \in Workers : DropsTables(w)' <=> DropsTables(w)
            BY <1>3, <1>4, <2>2 DEF SamePlugin, DropsTables
        <3>3. TablesOK'
            BY <1>2, <1>3, <1>4, <2>2, <3>1, <3>2 DEF TablesOK, SamePlugin
        <3>4. ASSUME NEW w \in Workers
              PROVE  (Enables(w)' => EnableOK(w)') /\ (Disables(w)' => DisableOK(w)') /\ (Deletes(w)' => ErasesOK(w)')
            <4>1. CASE w = h
                BY <1>4, <4>1
            <4>2. CASE w # h
                <5>1. (Enables(w) => EnableOK(w)) /\ (Disables(w) => DisableOK(w)) /\ (Deletes(w) => ErasesOK(w)) /\ SamePlugin(w)
                    BY <1>3, <3>1, <4>2 DEF PluginOK
                <5>2. Enables(w)' => EnableOK(w)'
                    BY <1>2, <1>3, <1>4, <2>2, <5>1 DEF EnableOK, SamePlugin
                <5>3. Disables(w)' => DisableOK(w)'
                    BY <1>2, <1>3, <1>4, <2>2, <5>1 DEF DisableOK, SamePlugin
                <5>4. Deletes(w)' => ErasesOK(w)'
                    BY <1>2, <2>2, <5>1 DEF ErasesOK, SamePlugin
                <5> QED BY <5>2, <5>3, <5>4
            <4> QED BY <4>1, <4>2
        <3> QED BY <3>1, <3>3, <3>4 DEF PluginOK
    <2> QED BY <2>1, <2>2
<1>6. TalksOK'
    BY <1>1, <1>2, SessionsDropped DEF StudioInv
<1> QED BY <1>1, <1>5, <1>6 DEF StudioInv

\* A deletion goes on, dropping what it does of the plugin.
LEMMA ErasureGoesKeeps ==
    ASSUME StudioInv, NEW h \in Workers, NEW at, NEW data, NEW more, DeletionGoes(h, at, data, more),
           FilesOnly(more) \/ more \subseteq {PluginObject},
           endpoint' \in {0, endpoint}, UNCHANGED <<contexts, said>> \/ (contexts' = NoContexts /\ said' = Silence),
           plugin' = plugin \/ (plugin' = "none" /\ at = "raw logs"), studio' = studio \/ (studio' = {} /\ at = "row"),
           DropsTables(h) => at \in {"raw logs", "hooks", "token rows", "pluck", "keys", "schema"} \/ studio' = {},
           at \notin Later \/ at = "plugins" \/ req[h].at \in Later \ {"plugins"} \/ plugin' = "none" \/ PluginObject \in more
    PROVE  StudioInv'
<1>1. /\ StudioRequests' /\ StudioMove(h, at, data) /\ doubt' = doubt \cup more
      /\ \A w \in Workers \ {h} : SamePlugin(w)
      /\ ~Enables(h) /\ ~Disables(h) /\ Deletes(h) /\ ~Enables(h)' /\ ~Disables(h)' /\ Deletes(h)'
      /\ req'[h].at = at /\ \A s : ~Talks(h, s) /\ ~Forgets(h, s)
    BY ErasureGoes
<1>2. \A s : SessionInDoubt(s)' <=> SessionInDoubt(s)
    <2>1. \A s : SessionObject(s) # PluginObject /\ \A f : SessionObject(s) # FileObject(f)
        BY DEF SessionObject, PluginObject, FileObject
    <2>2. \A s : SessionObject(s) \notin more
        BY <2>1 DEF FilesOnly
    <2> QED BY <1>1, <2>2 DEF SessionInDoubt
<1>3. TalksOK'
    BY <1>1, <1>2, SessionsDropped DEF StudioInv
<1>4. /\ plugin \in {"none", "on", "off"} /\ studio \subseteq StudioTables /\ ErasesOK(h)
    BY <1>1 DEF StudioInv, PluginOK
<1>5. (PluginInDoubt => PluginInDoubt') /\ (PluginObject \in more => PluginInDoubt')
    BY <1>1 DEF PluginInDoubt
<1>6. ErasesOK(h)'
    <2> SUFFICES ASSUME ~PluginInDoubt', at \in Later \ {"plugins"} PROVE plugin' # "on"
        BY <1>1 DEF ErasesOK
    <2>1. ~PluginInDoubt /\ PluginObject \notin more
        BY <1>5
    <2>2. plugin' = "none" \/ (req[h].at \in Later \ {"plugins"} /\ plugin' = plugin)
        BY <2>1
    <2>3. req[h].at \in Later \ {"plugins"} => plugin # "on"
        BY <1>4, <2>1 DEF ErasesOK
    <2> QED BY <2>2, <2>3
<1>7. DropsTables(h) => DropsTables(h)' \/ studio' = {}
    BY <1>1 DEF DropsTables
<1>8. plugin' # plugin => DropsTables(h)'
    BY <1>1 DEF DropsTables
<1>9. (plugin' # plugin \/ studio' # studio) => plugin' # "on" \/ PluginInDoubt'
    <2>1. studio' # studio => at \in Later \ {"plugins"}
        BY DEF Later
    <2> QED BY <1>1, <1>6, <2>1 DEF ErasesOK
<1>10. /\ plugin' \in {"none", "on", "off"} /\ studio' \subseteq StudioTables /\ (plugin' = plugin \/ plugin' = "none")
       /\ (studio' = studio \/ studio' = {})
    BY <1>4
<1>11. PluginOK'
    BY <1>1, <1>5, <1>6, <1>7, <1>8, <1>9, <1>10, ErasureOn DEF StudioInv
<1> QED BY <1>1, <1>3, <1>11 DEF StudioInv

\* Every step of a deletion.
LEMMA StudioErased ==
    ASSUME StudioInv, NEW h \in Workers, Deletion(h)
    PROVE  StudioInv'
<1>1. RequestsOf(StudioWork, StudioPlaces) /\ (req[h] # NoReq => DeletionOK(req[h]))
    <2>1. RequestsOf(StudioWork, StudioPlaces)
        BY DEF StudioInv, StudioRequests, TypedRequests
    <2>2. ASSUME req[h] # NoReq, req[h].op = "delete project" PROVE DeletionOK(req[h])
        <3>1. Ours(StudioWork, h)
            BY <2>2 DEF Ours, StudioWork
        <3> QED BY <3>1 DEF StudioInv, StudioRequests, StudioRequest
    <2> QED BY <2>1, <2>2 DEF DeletionOK
<1>2. /\ \A s : SessionObject(s) # ProjectObject /\ SessionObject(s) # PluginObject /\ \A t : SessionObject(s) # TokenObject(t)
      /\ PluginObject # ProjectObject
    BY DEF SessionObject, PluginObject, ProjectObject, TokenObject
<1>3. CASE DropSchema(h)
    <2>1. PICK at, data, more : at = "row" /\ data = NoData /\ more = {} /\ Go(h, at, data) /\ At(h, "delete project", "schema")
        BY <1>3 DEF DropSchema, Deleting
    <2>2. req[h] # NoReq /\ req[h].op = "delete project" /\ req[h].at = "schema"
        BY <2>1 DEF At
    <2>3. DeletionGoes(h, at, data, more)
        <3>1. Put(h, Moved(req[h], at, data)) /\ UNCHANGED <<doubt, calls, menu>>
            BY <1>1, <2>1, <2>2, GoPuts
        <3> QED BY <2>1, <2>2, <3>1 DEF DeletionGoes, Later, DeletionData
    <2>4. /\ endpoint' \in {0, endpoint} /\ (UNCHANGED <<contexts, said>> \/ (contexts' = NoContexts /\ said' = Silence))
          /\ plugin' = plugin /\ studio' = {}
        BY <1>3 DEF DropSchema
    <2>5. (FilesOnly(more) \/ more \subseteq {PluginObject}) /\ req[h].at \in Later \ {"plugins"}
        BY <2>1, <2>2 DEF Later
    <2> QED BY <2>1, <2>3, <2>4, <2>5, ErasureGoesKeeps
<1>4. CASE FileDeletion(h) /\ UNCHANGED studioVars
    <2>1. UNCHANGED <<plugin, studio, endpoint, contexts, said>>
        BY <1>4 DEF studioVars
    <2>2. /\ req[h] # NoReq /\ req[h].op = "delete project"
          /\ \/ /\ req[h].at \in {"files", "file rows"}
                /\ \E at, data, more :
                     /\ at \in {"file rows", "plugins"} /\ data \in DeletionData /\ FilesOnly(more)
                     /\ Put(h, Moved(req[h], at, data)) /\ doubt' = doubt \cup more /\ UNCHANGED <<calls, menu>>
             \/ /\ req[h].at = "uploads" /\ Put(h, NoReq) /\ doubt' = doubt \ ({ProjectObject} \cap req[h].sure)
                /\ UNCHANGED <<calls, menu>>
        BY <1>1, <1>4, FileDeletionSteps
    <2>3. CASE req[h].at \in {"files", "file rows"} /\ req[h].at # "uploads"
        <3>1. PICK at, data, more :
                     /\ at \in {"file rows", "plugins"} /\ data \in DeletionData /\ FilesOnly(more)
                     /\ Put(h, Moved(req[h], at, data)) /\ doubt' = doubt \cup more /\ UNCHANGED <<calls, menu>>
            BY <2>2, <2>3
        <3>2. DeletionGoes(h, at, data, more)
            BY <2>2, <3>1 DEF DeletionGoes, Later
        <3>3. ~DropsTables(h)
            BY <2>2, <2>3 DEF DropsTables, Disables
        <3>4. at \notin Later \/ at = "plugins"
            BY <3>1 DEF Later
        <3> QED BY <2>1, <3>1, <3>2, <3>3, <3>4, ErasureGoesKeeps
    <2>4. CASE /\ req[h].at = "uploads" /\ Put(h, NoReq) /\ doubt' = doubt \ ({ProjectObject} \cap req[h].sure)
               /\ UNCHANGED <<calls, menu>>
        <3>1. (PluginInDoubt' <=> PluginInDoubt) /\ \A s : SessionInDoubt(s)' <=> SessionInDoubt(s)
            BY <1>2, <2>4 DEF PluginInDoubt, SessionInDoubt
        <3>2. Deletes(h) /\ ~DropsTables(h)
            BY <2>2, <2>4 DEF Deletes, DropsTables, Disables
        <3> QED BY <1>4, <2>4, <3>1, <3>2, ErasureEnds
    <2> QED BY <2>2, <2>3, <2>4
<1>5. CASE RowDeletion(h)
    <2>1. LaterStep(h)
        BY <1>1, <1>5, DeletionSteps
    <2>2. UNCHANGED studioVars \/ (DeletePlugins(h) /\ req[h].at = "plugins")
        BY <1>5 DEF RowDeletion, DeleteProject, FindProject, DeletePlugins, DeleteRawLogs, DeleteHooks, DeleteTokenRows,
                    PluckHashes, DeleteKey, DeleteStepFails, DeleteKeysFail, DeleteRow, DeleteFails, Deleting, At
    <2>3. CASE Arrived(h, "delete project", Deleted, "find", NoData)
        <3>1. req[h] = NoReq
            BY <2>3 DEF Arrived
        <3>2. UNCHANGED studioVars
            BY <1>5, <3>1 DEF RowDeletion, DeleteProject, FindProject, DeletePlugins, DeleteRawLogs, DeleteHooks, DeleteTokenRows,
                    PluckHashes, DeleteKey, DeleteStepFails, DeleteKeysFail, DeleteRow, DeleteFails, Deleting, At
        <3> QED BY <2>3, <3>2, StudioErasureBegins
    <2>4. CASE At(h, "delete project", "find") /\ Put(h, Moved(req[h], "files", req[h].data)) /\ UNCHANGED <<doubt, calls, menu>>
        <3>1. PICK at, data, more : at = "files" /\ data = req[h].data /\ more = {}
            OBVIOUS
        <3>2. req[h] # NoReq /\ req[h].op = "delete project" /\ req[h].at = "find"
            BY <2>4 DEF At
        <3>3. DeletionGoes(h, at, data, more)
            <4>1. data \in DeletionData
                BY <1>1, <3>1, <3>2 DEF DeletionOK
            <4> QED BY <2>4, <3>1, <3>2, <4>1 DEF DeletionGoes
        <3>4. ~DropsTables(h) /\ at \notin Later /\ UNCHANGED <<plugin, studio, endpoint, contexts, said>>
            BY <2>2, <3>1, <3>2 DEF DropsTables, Disables, Later, studioVars
        <3>5. FilesOnly(more)
            BY <3>1 DEF FilesOnly
        <3> QED BY <3>3, <3>4, <3>5, ErasureGoesKeeps
    <2>5. CASE At(h, "delete project", "find") /\ Put(h, NoReq) /\ UNCHANGED <<doubt, calls, menu>>
        <3>1. req[h] # NoReq /\ req[h].op = "delete project" /\ req[h].at = "find"
            BY <2>5 DEF At
        <3>2. Deletes(h) /\ ~DropsTables(h) /\ UNCHANGED studioVars
            BY <2>2, <3>1 DEF Deletes, DropsTables, Disables
        <3>3. (PluginInDoubt' <=> PluginInDoubt) /\ \A s : SessionInDoubt(s)' <=> SessionInDoubt(s)
            BY <2>5 DEF PluginInDoubt, SessionInDoubt
        <3> QED BY <2>5, <3>2, <3>3, ErasureEnds
    <2>6. CASE \E at \in Later, data \in DeletionData, more \in SUBSET {PluginObject} :
            /\ req[h] # NoReq /\ req[h].op = "delete project" /\ req[h].at \in Later \ {"uploads"}
            /\ at \in Followed(req[h].at) /\ (at = "keys" => data # NoData)
            /\ Put(h, Moved(req[h], at, data)) /\ doubt' = doubt \cup more /\ UNCHANGED <<calls, menu>>
        <3>1. PICK at \in Later, data \in DeletionData, more \in SUBSET {PluginObject} :
                /\ req[h] # NoReq /\ req[h].op = "delete project" /\ req[h].at \in Later \ {"uploads"}
                /\ at \in Followed(req[h].at) /\ (at = "keys" => data # NoData)
                /\ Put(h, Moved(req[h], at, data)) /\ doubt' = doubt \cup more /\ UNCHANGED <<calls, menu>>
            BY <2>6
        <3>2. DeletionGoes(h, at, data, more)
            BY <3>1 DEF DeletionGoes
        <3>3. CASE req[h].at = "plugins"
            <4>1. at = "raw logs" /\ ~DropsTables(h)
                BY <3>1, <3>3, FollowedIs DEF DropsTables, Disables
            <4>2. CASE DeletePlugins(h)
                BY <3>2, <4>1, <4>2, ErasureGoesKeeps DEF DeletePlugins
            <4>3. CASE ~DeletePlugins(h)
                <5>1. DeleteStepFails(h)
                    BY <1>5, <3>1, <3>3, <4>3 DEF RowDeletion, DeleteProject, FindProject, DeleteRawLogs, DeleteHooks, DeleteTokenRows,
                        PluckHashes, DeleteKey, DeleteKeysFail, DeleteRow, DeleteFails, Deleting, At, Begin, Called, Arrive
                <5>2. PICK b \in {"plugins", "raw logs", "hooks", "token rows", "pluck"} :
                        Deleting(h, b) /\ Swallow(h, AfterStep(b), NoData, IF b = "plugins" THEN {PluginObject} ELSE {})
                    BY <5>1 DEF DeleteStepFails
                <5>3. b = "plugins"
                    BY <3>3, <5>2 DEF Deleting, At
                <5>4. doubt' = doubt \cup {PluginObject}
                    BY <5>2, <5>3 DEF Swallow
                <5>5. PICK all : all = {PluginObject}
                    OBVIOUS
                <5>6. DeletionGoes(h, at, data, all) /\ PluginObject \in all
                    BY <3>1, <5>4, <5>5 DEF DeletionGoes
                <5>7. UNCHANGED <<plugin, studio, endpoint, contexts, said>>
                    BY <5>1 DEF DeleteStepFails, studioVars
                <5> QED BY <4>1, <5>5, <5>6, <5>7, ErasureGoesKeeps
            <4> QED BY <4>2, <4>3
        <3>4. CASE req[h].at # "plugins"
            <4>1. UNCHANGED <<plugin, studio, endpoint, contexts, said>> /\ req[h].at \in Later \ {"plugins"}
                BY <2>2, <3>1, <3>4 DEF studioVars
            <4>2. CASE req[h].at \in {"raw logs", "hooks", "token rows", "pluck", "keys"}
                <5>1. at \in {"raw logs", "hooks", "token rows", "pluck", "keys", "schema"}
                    BY <3>1, <4>2, FollowedIs
                <5> QED BY <3>1, <3>2, <4>1, <5>1, ErasureGoesKeeps
            <4>3. CASE req[h].at = "row"
                <5>1. ~DropsTables(h)
                    BY <3>1, <4>3 DEF DropsTables, Disables
                <5> QED BY <3>1, <3>2, <4>1, <5>1, ErasureGoesKeeps
            <4>4. req[h].at # "schema"
                <5> SUFFICES ASSUME req[h].at = "schema" PROVE FALSE
                    OBVIOUS
                <5>1. DeleteFails(h)
                    <6>1. \A b \in {"plugins", "raw logs", "hooks", "token rows", "pluck"} : ~Deleting(h, b)
                        BY DEF Deleting, At
                    <6> QED BY <1>5, <3>1, <6>1 DEF RowDeletion, DeleteProject, FindProject, DeletePlugins, DeleteRawLogs, DeleteHooks, DeleteTokenRows,
                        PluckHashes, DeleteKey, DeleteStepFails, DeleteKeysFail, DeleteRow, Deleting, At, Begin, Called, Arrive
                <5>2. req' = [req EXCEPT ![h] = NoReq]
                    BY <5>1 DEF DeleteFails, Fail
                <5>3. req'[h] = NoReq /\ req'[h] # NoReq
                    <6>1. req = [w \in Workers |-> req[w]]
                        BY <1>1 DEF RequestsOf
                    <6>2. req'[h] = NoReq
                        BY <5>2, <6>1
                    <6>3. req'[h] # NoReq
                        BY <3>2, ErasureGoes DEF StudioMove
                    <6> QED BY <6>2, <6>3
                <5> QED BY <5>3
            <4> QED BY <3>1, <3>4, <4>2, <4>3, <4>4 DEF Later
        <3> QED BY <3>3, <3>4
    <2>7. CASE \E more \in SUBSET ({ProjectObject, PluginObject} \cup TokenObjects) :
            /\ At(h, "delete project", "schema") \/ At(h, "delete project", "row")
            /\ {ProjectObject, PluginObject} \cup TokenObjects \subseteq more
            /\ Put(h, NoReq) /\ doubt' = doubt \cup more /\ UNCHANGED <<calls, menu>>
        <3>1. PICK more \in SUBSET ({ProjectObject, PluginObject} \cup TokenObjects) :
                /\ At(h, "delete project", "schema") \/ At(h, "delete project", "row")
                /\ {ProjectObject, PluginObject} \cup TokenObjects \subseteq more
                /\ Put(h, NoReq) /\ doubt' = doubt \cup more /\ UNCHANGED <<calls, menu>>
            BY <2>7
        <3>2. Deletes(h) /\ req[h].at # "plugins" /\ UNCHANGED studioVars
            BY <2>2, <3>1 DEF Deletes, At
        <3>3. PluginInDoubt'
            BY <3>1 DEF PluginInDoubt
        <3>4. \A s : SessionInDoubt(s)' <=> SessionInDoubt(s)
            BY <1>2, <3>1 DEF SessionInDoubt, TokenObjects
        <3> QED BY <3>1, <3>2, <3>3, <3>4, ErasureEnds
    <2> QED BY <2>1, <2>3, <2>4, <2>5, <2>6, <2>7 DEF LaterStep
<1> QED BY <1>3, <1>4, <1>5 DEF Deletion

----------------------------------------------------------------------------
(***************************************************************************)
(* A session is called, or deleted.                                        *)
(***************************************************************************)

\* A call, and its data.
LEMMA TalkIs ==
    ASSUME StudioInv, NEW h \in Workers, req[h] # NoReq, req[h].op = "talk"
    PROVE  /\ Ours(StudioWork, h) /\ ~Enables(h) /\ ~Disables(h) /\ ~Deletes(h)
           /\ req[h].data \in TalkData /\ Len(req[h].data.found.kept) <= MaxKept
           /\ req[h].on = {SessionObject(req[h].data.s)} /\ req[h].at \in TalkAwaits
           /\ \A s : Talks(h, s) <=> req[h].data.s = s
           /\ \A s : ~Forgets(h, s)
<1>1. Ours(StudioWork, h)
    BY DEF Ours, StudioWork
<1>2. StudioRequest(req[h])
    BY <1>1 DEF StudioInv, StudioRequests
<1>3. ~Enables(h) /\ ~Disables(h) /\ ~Deletes(h) /\ (\A s : Talks(h, s) <=> req[h].data.s = s) /\ \A s : ~Forgets(h, s)
    BY DEF Enables, Disables, Deletes, Talks, Forgets
<1> QED BY <1>1, <1>2, <1>3 DEF StudioRequest

\* The plugin while a request moves or ends that is not about it.
LEMMA PluginSpared ==
    ASSUME PluginOK, NEW h \in Workers, ~Enables(h) /\ ~Disables(h) /\ ~Deletes(h), StudioEnd(h) \/ \E at, data : StudioMove(h, at, data),
           PluginInDoubt' <=> PluginInDoubt, UNCHANGED <<plugin, studio>>
    PROVE  PluginOK'
<1>1. \A w \in Workers \ {h} : SamePlugin(w)
    BY OthersSame DEF StudioEnd, StudioMove
<1>2. ~Enables(h)' /\ ~Disables(h)' /\ ~Deletes(h)'
    <2>1. req'[h] # NoReq => req[h] # NoReq /\ req'[h].op = req[h].op
        BY DEF StudioEnd, StudioMove
    <2> QED BY <2>1 DEF Enables, Disables, Deletes
<1>3. SamePlugin(h)
    BY <1>2 DEF SamePlugin
<1> QED BY <1>1, <1>3, PluginSame

\* A call goes on.
LEMMA TalkGoes ==
    ASSUME StudioInv, NEW h \in Workers, req[h] # NoReq, req[h].op = "talk", NEW at \in TalkAwaits, NEW data \in TalkData,
           Len(data.found.kept) <= MaxKept, data.s = req[h].data.s, Go(h, at, data), UNCHANGED studioVars,
           ~SessionInDoubt(data.s) => /\ at # "endpoint" => data.endpoint = endpoint
                                      /\ at = "save" => data.found = contexts[data.s]
    PROVE  StudioInv'
<1>1. /\ Ours(StudioWork, h) /\ ~Enables(h) /\ ~Disables(h) /\ ~Deletes(h)
      /\ req[h].on = {SessionObject(req[h].data.s)}
      /\ (\A s : Talks(h, s) <=> req[h].data.s = s) /\ \A s : ~Forgets(h, s)
    BY TalkIs
<1>2. at \in Awaits /\ data \in RequestData
    BY DEF TalkAwaits, Awaits, TalkData, RequestData
<1>3. ASSUME NEW r, r.op = req[h].op, r.on = req[h].on, r.at = at, r.data = data PROVE StudioRequest(r)
    BY <1>1, <1>3 DEF StudioRequest, DeletionOK, PluginOps
<1>4. StudioRequests' /\ StudioMove(h, at, data) /\ doubt' = doubt
    BY <1>1, <1>2, <1>3, StudioGoes DEF StudioInv
<1>5. UNCHANGED <<plugin, studio, endpoint, contexts, said>>
    BY DEF studioVars
<1>6. (PluginInDoubt' <=> PluginInDoubt) /\ \A s : SessionInDoubt(s)' <=> SessionInDoubt(s)
    BY <1>4 DEF PluginInDoubt, SessionInDoubt
<1>7. PluginOK'
    BY <1>1, <1>4, <1>5, <1>6, PluginSpared DEF StudioInv
<1>8. /\ req'[h] # NoReq /\ req'[h].op = "talk" /\ req'[h].at = at /\ req'[h].data = data
      /\ \A w \in Workers \ {h} : req'[w] = req[w]
    BY <1>4 DEF StudioMove
<1>9. ASSUME NEW s \in Sessions PROVE SessionOK(s)'
    <2>1. ASSUME NEW w \in Workers
          PROVE  /\ Talks(w, s)' => Talks(w, s) /\ (TalkOK(w, s) => TalkOK(w, s)')
                 /\ Forgets(w, s)' => Forgets(w, s) /\ (ForSession(w, s)' => ForSession(w, s))
                 /\ Disables(w)' => Disables(w)
                 /\ Deletes(w)' => Deletes(w)
        <3>1. CASE w = h
            <4>1. Talks(h, s)' => data.s = s
                BY <1>8 DEF Talks
            <4>2. Talks(h, s)' => Talks(h, s)
                BY <1>1, <4>1
            <4>3. Talks(h, s)' => TalkOK(h, s)'
                BY <1>5, <1>6, <1>8, <4>1 DEF TalkOK
            <4>4. ~Forgets(h, s)' /\ ~Disables(h)' /\ ~Deletes(h)'
                BY <1>8 DEF Forgets, Disables, Deletes
            <4> QED BY <3>1, <4>2, <4>3, <4>4
        <3>2. CASE w # h
            <4>1. SameTalk(w, s) /\ (ForSession(w, s)' <=> ForSession(w, s)) /\ req'[w] = req[w]
                BY <1>8, <3>2, OthersSame
            <4>2. TalkOK(w, s) => TalkOK(w, s)'
                BY <1>5, <1>6, <4>1 DEF TalkOK
            <4> QED BY <4>1, <4>2 DEF SameTalk
        <3> QED BY <3>1, <3>2
    <2>2. SessionOK(s) /\ contexts'[s] = contexts[s] /\ said'[s] = said[s] /\ endpoint' = endpoint
          /\ (SessionInDoubt(s)' <=> SessionInDoubt(s))
        BY <1>5, <1>6 DEF StudioInv, TalksOK
    <2> QED BY <2>1, <2>2, SessionSame
<1>10. Conversations'
    BY <1>5 DEF StudioInv, TalksOK, Conversations
<1> QED BY <1>4, <1>7, <1>9, <1>10 DEF StudioInv, TalksOK

\* A call, or a deletion of a session, ends with no more done.
LEMMA TalkEnds ==
    ASSUME StudioInv, NEW h \in Workers, req[h] # NoReq, req[h].op \in {"talk", "forget session"},
           Finish(h, {}) \/ \E more : Fail(h, more) /\ more \subseteq req[h].on, UNCHANGED studioVars
    PROVE  StudioInv'
<1>1. Ours(StudioWork, h) /\ ~Enables(h) /\ ~Disables(h) /\ ~Deletes(h)
    BY DEF Ours, StudioWork, Enables, Disables, Deletes
<1>2. StudioRequest(req[h])
    BY <1>1 DEF StudioInv, StudioRequests
<1>3. PluginObject \notin req[h].on
    <2>1. req[h].on = {SessionObject(req[h].data.s)}
        BY <1>2 DEF StudioRequest
    <2> QED BY <2>1 DEF SessionObject, PluginObject
<1>4. StudioRequests' /\ StudioEnd(h) /\ \E more : more \subseteq req[h].on /\ doubt' = doubt \cup more
    <2>1. CASE Finish(h, {})
        <3>1. StudioRequests' /\ StudioEnd(h) /\ doubt' = doubt \ ({} \cap req[h].sure)
            BY <2>1, StudioFinishes DEF StudioInv
        <3>2. doubt' = doubt \cup {}
            BY <3>1
        <3> QED BY <3>1, <3>2
    <2>2. CASE \E more : Fail(h, more) /\ more \subseteq req[h].on
        BY <2>2, StudioBreaks DEF StudioInv
    <2> QED BY <2>1, <2>2
<1>5. (PluginInDoubt' <=> PluginInDoubt) /\ \A s : SessionInDoubt(s) => SessionInDoubt(s)'
    BY <1>3, <1>4 DEF PluginInDoubt, SessionInDoubt
<1>6. UNCHANGED <<plugin, studio, endpoint, contexts, said>>
    BY DEF studioVars
<1>7. PluginOK'
    BY <1>1, <1>4, <1>5, <1>6, PluginSpared DEF StudioInv
<1>8. \A w \in Workers \ {h} : req'[w] = req[w]
    BY <1>4 DEF StudioEnd
<1>9. ASSUME NEW s \in Sessions PROVE SessionOK(s)'
    <2>1. ~Talks(h, s)' /\ ~Forgets(h, s)' /\ ~Disables(h)' /\ ~Deletes(h)'
        BY <1>4 DEF StudioEnd, Talks, Forgets, Disables, Deletes
    <2>2. ASSUME NEW w \in Workers
          PROVE  /\ Talks(w, s)' => Talks(w, s) /\ req'[w] = req[w]
                 /\ Forgets(w, s)' => Forgets(w, s) /\ (ForSession(w, s)' => ForSession(w, s))
                 /\ Disables(w)' => Disables(w)
                 /\ Deletes(w)' => Deletes(w)
        <3>1. CASE w = h
            BY <2>1, <3>1
        <3>2. CASE w # h
            <4>1. SameTalk(w, s) /\ (ForSession(w, s)' <=> ForSession(w, s)) /\ req'[w] = req[w]
                BY <1>8, <3>2, OthersSame
            <4> QED BY <4>1 DEF SameTalk
        <3> QED BY <3>1, <3>2
    <2>3. SessionOK(s) /\ contexts'[s] = contexts[s] /\ said'[s] = said[s] /\ endpoint' = endpoint
        BY <1>6 DEF StudioInv, TalksOK
    <2>4. CASE SessionInDoubt(s)'
        BY <2>2, <2>3, <2>4, SessionDoubted
    <2>5. CASE ~SessionInDoubt(s)'
        <3>1. ~SessionInDoubt(s)
            BY <1>5, <2>5
        <3>2. \A w \in Workers : req'[w] = req[w] => (TalkOK(w, s) => TalkOK(w, s)')
            BY <2>3, <2>5, <3>1 DEF TalkOK
        <3> QED BY <2>2, <2>3, <2>5, <3>1, <3>2, SessionSame
    <2> QED BY <2>4, <2>5
<1>10. Conversations'
    BY <1>6 DEF StudioInv, TalksOK, Conversations
<1> QED BY <1>4, <1>7, <1>9, <1>10 DEF StudioInv, TalksOK

\* The steps of a call that only read.
LEMMA TalkReads ==
    ASSUME StudioInv, NEW h \in Workers, GetEndpoint(h) \/ GetContext(h) \/ AskProvider(h) \/ LogCall(h) \/ FindContext(h)
    PROVE  StudioInv'
<1>1. req[h] # NoReq /\ req[h].op = "talk" /\ UNCHANGED studioVars
    BY DEF GetEndpoint, GetContext, AskProvider, LogCall, FindContext, At
<1>2. /\ req[h].data \in TalkData /\ Len(req[h].data.found.kept) <= MaxKept
      /\ req[h].at \in TalkAwaits /\ \A s : Talks(h, s) <=> req[h].data.s = s
    BY <1>1, TalkIs
<1>3. PICK d \in TalkData : d = req[h].data
    BY <1>2
<1>4. Conversations /\ d.s \in Sessions /\ SessionOK(d.s) /\ TalkOK(h, d.s)
    <2>1. d.s \in Sessions /\ Talks(h, d.s)
        BY <1>2, <1>3 DEF TalkData
    <2> QED BY <2>1 DEF StudioInv, TalksOK, SessionOK
<1>5. CASE Finish(h, {})
    BY <1>1, <1>5, TalkEnds
<1>6. ASSUME NEW at \in TalkAwaits \ {"endpoint", "save"}, GoOn(h, at), req[h].at # "endpoint" PROVE StudioInv'
    <2>1. Go(h, at, d)
        BY <1>3, <1>6 DEF GoOn
    <2>2. ~SessionInDoubt(d.s) => d.endpoint = endpoint
        BY <1>3, <1>4, <1>6 DEF TalkOK
    <2> QED BY <1>1, <1>2, <1>3, <1>6, <2>1, <2>2, TalkGoes
<1>7. CASE GetEndpoint(h)
    <2>1. CASE ~(endpoint # 0)
        BY <1>5, <1>7, <2>1 DEF GetEndpoint
    <2>2. CASE endpoint # 0
        <3>1. PICK at, data : at = "purge" /\ data = [d EXCEPT !.endpoint = endpoint] /\ Go(h, at, data)
            BY <1>3, <1>7, <2>2 DEF GetEndpoint
        <3>2. data \in TalkData /\ data.s = d.s /\ data.found = d.found /\ data.endpoint = endpoint
            BY <1>3, <1>4, <3>1 DEF TalkData, Conversations
        <3>3. at \in TalkAwaits /\ at # "save"
            BY <3>1 DEF TalkAwaits
        <3> QED BY <1>1, <1>2, <1>3, <3>1, <3>2, <3>3, TalkGoes
    <2> QED BY <2>1, <2>2
<1>8. CASE GetContext(h)
    <2>1. req[h].at = "context"
        BY <1>8 DEF GetContext, At
    <2>2. Finish(h, {}) \/ \E at \in TalkAwaits \ {"endpoint", "save"} : GoOn(h, at)
        BY <1>8 DEF GetContext, TalkAwaits
    <2> QED BY <1>5, <1>6, <2>1, <2>2
<1>9. CASE AskProvider(h)
    <2>1. req[h].at = "provider"
        BY <1>9 DEF AskProvider, At
    <2>2. \E at \in TalkAwaits \ {"endpoint", "save"} : GoOn(h, at)
        BY <1>9 DEF AskProvider, TalkAwaits
    <2> QED BY <1>6, <2>1, <2>2
<1>10. CASE LogCall(h)
    <2>1. req[h].at = "log" \/ req[h].at = "logError"
        BY <1>10 DEF LogCall, At
    <2>2. Finish(h, {}) \/ \E at \in TalkAwaits \ {"endpoint", "save"} : GoOn(h, at)
        BY <1>10 DEF LogCall, TalkAwaits
    <2> QED BY <1>5, <1>6, <2>1, <2>2
<1>11. CASE FindContext(h)
    <2>1. req[h].at = "find"
        BY <1>11 DEF FindContext, At
    <2>2. CASE "contexts" \notin studio
        BY <1>5, <1>11, <2>2 DEF FindContext
    <2>3. CASE "contexts" \in studio
        <3>1. PICK at, data : at = "save" /\ data = [d EXCEPT !.found = ContextOf(d)] /\ Go(h, at, data)
            BY <1>3, <1>11, <2>3 DEF FindContext
        <3>2. ContextOf(d) \in ContextRow /\ Len(ContextOf(d).kept) <= MaxKept
            <4>1. NoContext \in ContextRow /\ Len(NoContext.kept) <= MaxKept
                BY StudioAssumption DEF NoContext, ContextRow
            <4> QED BY <1>4, <4>1 DEF ContextOf, Conversations
        <3>3. data \in TalkData /\ data.s = d.s /\ data.endpoint = d.endpoint /\ data.found = ContextOf(d)
            BY <3>1, <3>2 DEF TalkData
        <3>4. ~SessionInDoubt(d.s) => d.endpoint = endpoint
            BY <1>3, <1>4, <2>1 DEF TalkOK
        <3>5. ~SessionInDoubt(d.s) => ContextOf(d) = contexts[d.s]
            BY <3>4 DEF ContextOf
        <3>6. at \in TalkAwaits
            BY <3>1 DEF TalkAwaits
        <3> QED BY <1>1, <1>3, <3>1, <3>2, <3>3, <3>4, <3>5, <3>6, TalkGoes
    <2> QED BY <2>2, <2>3
<1> QED BY <1>7, <1>8, <1>9, <1>10, <1>11

\* The sessions no request is about are not called.
LEMMA IdleSilent ==
    ASSUME StudioRequests, NEW s \in Sessions, Idle(SessionObject(s))
    PROVE  \A w \in Workers : ~Disturbs(w, s)
<1> SUFFICES ASSUME NEW w \in Workers, Disturbs(w, s) PROVE FALSE
    OBVIOUS
<1>1. req[w] # NoReq
    BY DEF Disturbs, Talks, Forgets, Disables, Deletes
<1>2. SessionObject(s) \in req[w].on
    BY <1>1, StudioObjects
<1> QED BY <1>1, <1>2 DEF Idle, Busy

\* A call or a deletion fails.
LEMMA TalkFailsKeeps ==
    ASSUME StudioInv, NEW h \in Workers, TalkFails(h)
    PROVE  StudioInv'
<1>1. /\ req[h] # NoReq /\ req[h].op \in {"talk", "forget session"} /\ UNCHANGED studioVars
      /\ \E more : Fail(h, more) /\ more \subseteq req[h].on
    <2>1. Fail(h, IF req[h].at \in {"save", "delete"} THEN req[h].on ELSE {})
        BY DEF TalkFails
    <2>2. PICK more : more = IF req[h].at \in {"save", "delete"} THEN req[h].on ELSE {}
        OBVIOUS
    <2>3. Fail(h, more)
        BY <2>1, <2>2
    <2>4. more \subseteq req[h].on
        BY <2>2
    <2> QED BY <2>3, <2>4 DEF TalkFails
<1> QED BY <1>1, TalkEnds

\* Old sessions go.
LEMMA PurgeKeeps ==
    ASSUME StudioInv, NEW h \in Workers, Purge(h)
    PROVE  StudioInv'
<1>1. req[h] # NoReq /\ req[h].op = "talk" /\ req[h].at = "purge" /\ UNCHANGED <<menu, calls, plugin, studio, endpoint>>
    BY DEF Purge, At
<1>2. PICK old \in SUBSET Sessions :
        /\ contexts' = [s \in Sessions |-> IF s \in old THEN NoContext ELSE contexts[s]]
        /\ said' = [s \in Sessions |-> IF s \in old THEN NothingSaid ELSE said[s]]
        /\ doubt' = doubt \cup Interrupts(old \ {req[h].data.s})
    BY DEF Purge
<1>3. /\ Ours(StudioWork, h) /\ ~Enables(h) /\ ~Disables(h) /\ ~Deletes(h)
      /\ req[h].data \in TalkData /\ Len(req[h].data.found.kept) <= MaxKept
      /\ req[h].on = {SessionObject(req[h].data.s)}
      /\ \A s : Talks(h, s) <=> req[h].data.s = s
    BY <1>1, TalkIs
<1>4. PICK at, data : at = "context" /\ data = req[h].data
    OBVIOUS
<1>5. at \in Awaits /\ at \in TalkAwaits /\ data \in RequestData
    BY <1>3, <1>4 DEF Awaits, TalkAwaits, TalkData, RequestData
<1>6. Put(h, Moved(req[h], at, data))
    <2>1. req' = [req EXCEPT ![h].at = "context"]
        BY DEF Purge
    <2>2. Put(h, Moved(req[h], "context", req[h].data))
        BY <1>1, <2>1, MoveOnPuts DEF StudioInv, StudioRequests, TypedRequests
    <2> QED BY <1>4, <2>2
<1>7. ASSUME NEW r, r.op = req[h].op, r.on = req[h].on, r.at = at, r.data = data PROVE StudioRequest(r)
    BY <1>1, <1>3, <1>4, <1>5, <1>7 DEF StudioRequest, DeletionOK, PluginOps
<1>8. StudioRequests' /\ StudioMove(h, at, data)
    BY <1>1, <1>3, <1>5, <1>6, <1>7, StudioMoves DEF StudioInv
<1>9. PluginInDoubt' <=> PluginInDoubt
    <2>1. \A s : SessionObject(s) # PluginObject
        BY DEF SessionObject, PluginObject
    <2>2. PluginObject \notin Interrupts(old \ {req[h].data.s})
        BY <2>1 DEF Interrupts
    <2> QED BY <1>2, <2>2 DEF PluginInDoubt
<1>10. PluginOK'
    BY <1>1, <1>3, <1>8, <1>9, PluginSpared DEF StudioInv
<1>11. NoContext \in ContextRow /\ Len(NoContext.kept) <= MaxKept /\ NothingSaid \in SaidRow
       /\ NoContext.kept = NothingSaid.kept /\ NoContext.tokens = NothingSaid.tokens
    BY StudioAssumption DEF NoContext, NothingSaid, ContextRow, SaidRow
<1>12. Conversations'
    BY <1>1, <1>2, <1>11 DEF StudioInv, TalksOK, Conversations
<1>13. /\ req'[h] # NoReq /\ req'[h].op = "talk" /\ req'[h].at = "context" /\ req'[h].data = req[h].data
       /\ \A w \in Workers \ {h} : req'[w] = req[w]
    BY <1>1, <1>4, <1>8 DEF StudioMove
<1>14. ASSUME NEW s \in Sessions PROVE SessionOK(s)'
    <2>1. SessionOK(s)
        BY DEF StudioInv, TalksOK
    <2>2. SessionInDoubt(s) => SessionInDoubt(s)'
        BY <1>2 DEF SessionInDoubt
    <2>3. ASSUME NEW w \in Workers
          PROVE  /\ Talks(w, s)' <=> Talks(w, s)
                 /\ Forgets(w, s)' => Forgets(w, s) /\ (ForSession(w, s)' => ForSession(w, s))
                 /\ Disables(w)' => Disables(w)
                 /\ Deletes(w)' => Deletes(w)
        <3>1. CASE w = h
            <4>1. Talks(h, s)' <=> req[h].data.s = s
                BY <1>13 DEF Talks
            <4>2. ~Forgets(h, s)' /\ ~Disables(h)' /\ ~Deletes(h)'
                BY <1>13 DEF Forgets, Disables, Deletes
            <4> QED BY <1>3, <3>1, <4>1, <4>2
        <3>2. CASE w # h
            <4>1. SameTalk(w, s) /\ (ForSession(w, s)' <=> ForSession(w, s))
                BY <1>13, <3>2, OthersSame
            <4> QED BY <4>1 DEF SameTalk
        <3> QED BY <3>1, <3>2
    <2>4. CASE SessionInDoubt(s)'
        BY <2>1, <2>3, <2>4, SessionDoubted
    <2>5. CASE ~SessionInDoubt(s)'
        <3>1. ~SessionInDoubt(s)
            BY <2>2, <2>5
        <3>2. contexts'[s].kept = said'[s].kept /\ contexts'[s].tokens = said'[s].tokens
            BY <1>2, <1>11, <2>1, <3>1 DEF SessionOK
        <3>3. CASE s \in old /\ s # req[h].data.s
            <4>1. Idle(SessionObject(s))
                BY <1>2, <2>5, <3>3 DEF SessionInDoubt, Interrupts
            <4>2. \A w \in Workers : ~Talks(w, s)'
                BY <2>3, <4>1, IdleSilent DEF StudioInv, Disturbs
            <4> QED BY <3>2, <4>2, SessionQuiet
        <3>4. CASE s \notin old
            <4>1. contexts'[s] = contexts[s] /\ said'[s] = said[s] /\ endpoint' = endpoint
                BY <1>1, <1>2, <3>4
            <4>2. ASSUME NEW w \in Workers, TalkOK(w, s), Talks(w, s)' PROVE TalkOK(w, s)'
                <5>1. CASE w = h
                    <6>1. req[h].at # "endpoint" => req[h].data.endpoint = endpoint
                        BY <3>1, <4>2, <5>1 DEF TalkOK
                    <6> QED BY <1>1, <1>13, <4>1, <5>1, <6>1 DEF TalkOK
                <5>2. CASE w # h
                    BY <1>13, <3>1, <4>1, <4>2, <5>2 DEF TalkOK
                <5> QED BY <5>1, <5>2
            <4> QED BY <2>1, <2>3, <2>5, <3>1, <4>1, <4>2, SessionSame
        <3>5. CASE s = req[h].data.s
            <4>1. Talks(h, s)
                BY <1>3, <3>5
            <4>2. \A v \in Workers \ {h} : ~Disturbs(v, s)
                BY <2>1, <3>1, <4>1 DEF SessionOK
            <4>3. TalkOK(h, s)'
                <5>1. req[h].data.endpoint = endpoint
                    BY <1>1, <2>1, <3>1, <4>1 DEF SessionOK, TalkOK
                <5> QED BY <1>1, <1>13, <5>1 DEF TalkOK
            <4>4. \A w \in Workers : Talks(w, s)' => w = h
                BY <2>3, <4>2 DEF Disturbs
            <4>5. \A v \in Workers \ {h} : ~Disturbs(v, s)'
                BY <2>3, <4>2 DEF Disturbs
            <4>6. \A v \in Workers : Forgets(v, s)' => ~ForSession(v, s)'
                BY <2>1, <2>3, <4>1 DEF SessionOK
            <4> QED BY <3>2, <4>3, <4>4, <4>5, <4>6 DEF SessionOK
        <3> QED BY <3>3, <3>4, <3>5
    <2> QED BY <2>4, <2>5
<1> QED BY <1>8, <1>10, <1>12, <1>14 DEF StudioInv, TalksOK

\* What is kept of a conversation one exchange later is the end of it, and at most MaxKept.
LEMMA KeptIs ==
    ASSUME NEW kept \in Seq(Nat), NEW n \in Nat
    PROVE  /\ Kept(Append(kept, n)) \in Seq(Nat)
           /\ Len(kept) <= MaxKept =>
                /\ Len(Kept(Append(kept, n))) <= MaxKept
                /\ Kept(Append(kept, n)) = SubSeq(Append(kept, n), IF Len(kept) = MaxKept THEN 2 ELSE 1, Len(kept) + 1)
<1>1. PICK all : all = Append(kept, n)
    OBVIOUS
<1>2. all \in Seq(Nat) /\ Len(all) = Len(kept) + 1 /\ Len(kept) \in Nat /\ MaxKept \in Nat \ {0}
    BY <1>1, StudioAssumption
<1>3. CASE Len(all) <= MaxKept
    <2>1. Kept(all) = all /\ Len(kept) # MaxKept
        BY <1>2, <1>3 DEF Kept
    <2>2. SubSeq(all, 1, Len(all)) = all
        BY <1>2
    <2> QED BY <1>1, <1>2, <1>3, <2>1, <2>2
<1>4. CASE ~(Len(all) <= MaxKept)
    <2>1. Kept(all) = SubSeq(all, Len(all) - MaxKept + 1, Len(all))
        BY <1>4 DEF Kept
    <2>2. Len(all) - MaxKept + 1 \in Nat \ {0} /\ Len(all) - MaxKept + 1 >= 2 /\ Len(all) \in Nat
        BY <1>2, <1>4
    <2>3. /\ SubSeq(all, Len(all) - MaxKept + 1, Len(all)) \in Seq(Nat)
          /\ Len(SubSeq(all, Len(all) - MaxKept + 1, Len(all))) = MaxKept
        <3>1. PICK m \in Nat \ {0} : m = Len(all) - MaxKept + 1
            BY <2>2
        <3>2. \A i \in m .. Len(all) : all[i] \in Nat
            BY <1>2, <3>1
        <3>3. SubSeq(all, m, Len(all)) \in Seq(Nat)
            BY <1>2, <3>1, <3>2, SubSeqProperties
        <3>4. Len(SubSeq(all, m, Len(all))) = IF m <= Len(all) THEN Len(all) - m + 1 ELSE 0
            BY <1>2, <3>1, <3>2, SubSeqProperties
        <3>5. m <= Len(all) /\ Len(all) - m + 1 = MaxKept
            BY <1>2, <3>1
        <3> QED BY <3>1, <3>3, <3>4, <3>5
    <2>4. Len(kept) <= MaxKept => Len(kept) = MaxKept /\ Len(all) - MaxKept + 1 = 2
        BY <1>2, <1>4
    <2> QED BY <1>1, <1>2, <2>1, <2>3, <2>4
<1> QED BY <1>3, <1>4

\* What the row and the conversation become.
LEMMA RowSaved ==
    ASSUME NEW c \in ContextRow, NEW n \in Nat, NEW whole \in SaidRow, Len(c.kept) <= MaxKept
    PROVE  /\ With(c, n) \in ContextRow /\ Len(With(c, n).kept) <= MaxKept
           /\ Heard(whole, n) \in SaidRow
           /\ (c.kept = whole.kept /\ c.tokens = whole.tokens) =>
                With(c, n).kept = Heard(whole, n).kept /\ With(c, n).tokens = Heard(whole, n).tokens
<1>1. c.kept \in Seq(Nat) /\ whole.kept \in Seq(Nat) /\ c.tokens \in Nat /\ whole.tokens \in Nat /\ c.id \in Nat
    BY DEF ContextRow, SaidRow
<1>2. With(c, n) = [id |-> c.id, kept |-> Kept(Append(c.kept, n)), tokens |-> c.tokens + 1]
    <2>1. PICK k, t : k = Kept(Append(c.kept, n)) /\ t = c.tokens + 1
        OBVIOUS
    <2>2. With(c, n) = [c EXCEPT !.kept = k, !.tokens = t]
        BY <2>1 DEF With
    <2>3. c = [id |-> c.id, kept |-> c.kept, tokens |-> c.tokens]
        BY DEF ContextRow
    <2>4. PICK r : r = [id |-> c.id, kept |-> k, tokens |-> c.tokens]
        OBVIOUS
    <2>5. [c EXCEPT !.kept = k] = r
        BY <2>3, <2>4
    <2>6. [c EXCEPT !.kept = k, !.tokens = t] = [r EXCEPT !.tokens = t]
        BY <2>5
    <2>7. [r EXCEPT !.tokens = t] = [id |-> c.id, kept |-> k, tokens |-> t]
        BY <2>4
    <2> QED BY <2>1, <2>2, <2>6, <2>7
<1>3. /\ Kept(Append(c.kept, n)) \in Seq(Nat) /\ Len(Kept(Append(c.kept, n))) <= MaxKept
      /\ Kept(Append(c.kept, n)) = SubSeq(Append(c.kept, n), IF Len(c.kept) = MaxKept THEN 2 ELSE 1, Len(c.kept) + 1)
    BY <1>1, KeptIs
<1>4. With(c, n) \in ContextRow /\ Len(With(c, n).kept) <= MaxKept
    BY <1>1, <1>2, <1>3 DEF ContextRow
<1>5. PICK all, from : all = Append(whole.kept, n) /\ from = IF Len(whole.kept) = MaxKept THEN 2 ELSE 1
    OBVIOUS
<1>6. all \in Seq(Nat) /\ Len(all) = Len(whole.kept) + 1 /\ from \in Nat \ {0}
    BY <1>1, <1>5
<1>7. SubSeq(all, from, Len(all)) \in Seq(Nat)
    <2>1. \A i \in from .. Len(all) : all[i] \in Nat
        BY <1>6
    <2> QED BY <1>6, <2>1, SubSeqProperties
<1>8. Heard(whole, n) = [kept |-> SubSeq(all, from, Len(all)), tokens |-> whole.tokens + 1]
    BY <1>5, <1>6 DEF Heard
<1>9. Heard(whole, n) \in SaidRow
    BY <1>1, <1>7, <1>8 DEF SaidRow
<1>10. ASSUME c.kept = whole.kept, c.tokens = whole.tokens
       PROVE  With(c, n).kept = Heard(whole, n).kept /\ With(c, n).tokens = Heard(whole, n).tokens
    <2>1. Kept(Append(c.kept, n)) = SubSeq(all, from, Len(all))
        BY <1>1, <1>3, <1>5, <1>6, <1>10
    <2>2. With(c, n).kept = Kept(Append(c.kept, n)) /\ With(c, n).tokens = c.tokens + 1
        BY <1>2
    <2>3. Heard(whole, n).kept = SubSeq(all, from, Len(all)) /\ Heard(whole, n).tokens = whole.tokens + 1
        <3>1. PICK k, t : k = SubSeq(all, from, Len(all)) /\ t = whole.tokens + 1
            OBVIOUS
        <3>2. Heard(whole, n) = [kept |-> k, tokens |-> t]
            BY <1>8, <3>1
        <3>3. Heard(whole, n).kept = k /\ Heard(whole, n).tokens = t
            BY ONLY <3>2
        <3> QED BY <3>1, <3>3
    <2> QED BY <1>10, <2>1, <2>2, <2>3
<1> QED BY <1>4, <1>9, <1>10

\* A session whose row is written by the only request about it that may, which ends.
LEMMA SessionEnds ==
    ASSUME StudioInv, NEW h \in Workers, NEW c \in Sessions, Talks(h, c) \/ Forgets(h, c), StudioRequests', StudioEnd(h),
           PluginInDoubt' <=> PluginInDoubt,
           \A s \in Sessions : (SessionInDoubt(s) /\ s # c) => SessionInDoubt(s)',
           \A s \in Sessions : SessionInDoubt(s)' => SessionInDoubt(s),
           SessionInDoubt(c)' \/ (Forgets(h, c) /\ ForSession(h, c)) \/ ~SessionInDoubt(c),
           UNCHANGED <<plugin, studio, endpoint>>, Conversations',
           \A s \in Sessions : s # c => contexts'[s] = contexts[s] /\ said'[s] = said[s],
           ~SessionInDoubt(c)' => contexts'[c].kept = said'[c].kept /\ contexts'[c].tokens = said'[c].tokens
    PROVE  StudioInv'
<1>1. ~Enables(h) /\ ~Disables(h) /\ ~Deletes(h)
    BY DEF Talks, Forgets, Enables, Disables, Deletes
<1>2. PluginOK'
    BY <1>1, PluginSpared DEF StudioInv
<1>3. \A s : ~Talks(h, s)' /\ ~Forgets(h, s)' /\ ~Disables(h)' /\ ~Deletes(h)'
    BY DEF StudioEnd, Talks, Forgets, Disables, Deletes
<1>4. ASSUME NEW s \in Sessions, NEW w \in Workers
      PROVE  /\ Talks(w, s)' => Talks(w, s) /\ req'[w] = req[w] /\ w # h
             /\ Forgets(w, s)' => Forgets(w, s) /\ (ForSession(w, s)' => ForSession(w, s))
             /\ Disables(w)' => Disables(w)
             /\ Deletes(w)' => Deletes(w)
    <2>1. CASE w = h
        BY <1>3, <2>1
    <2>2. CASE w # h
        <3>1. req'[w] = req[w]
            BY <2>2 DEF StudioEnd
        <3>2. SameTalk(w, s) /\ (ForSession(w, s)' <=> ForSession(w, s))
            BY <3>1, OthersSame
        <3> QED BY <2>2, <3>1, <3>2 DEF SameTalk
    <2> QED BY <2>1, <2>2
<1>5. ASSUME NEW s \in Sessions PROVE SessionOK(s)'
    <2>1. SessionOK(s)
        BY DEF StudioInv, TalksOK
    <2>2. CASE SessionInDoubt(s)'
        BY <1>4, <2>1, <2>2, SessionDoubted
    <2>3. CASE ~SessionInDoubt(s)' /\ s # c
        <3>1. ~SessionInDoubt(s) /\ contexts'[s] = contexts[s] /\ said'[s] = said[s] /\ endpoint' = endpoint
            BY <2>3
        <3>2. \A w \in Workers : req'[w] = req[w] => (TalkOK(w, s) => TalkOK(w, s)')
            BY <3>1, <2>3 DEF TalkOK
        <3> QED BY <1>4, <2>1, <2>3, <3>1, <3>2, SessionSame
    <2>4. CASE ~SessionInDoubt(s)' /\ s = c
        <3>1. ASSUME NEW w \in Workers, Talks(w, s)' PROVE FALSE
            <4>1. Talks(w, s) /\ w # h
                BY <1>4, <3>1
            <4>2. Disturbs(h, s)
                BY <2>4 DEF Disturbs
            <4>3. SessionInDoubt(s)
                BY <2>1, <4>1, <4>2 DEF SessionOK
            <4>4. Forgets(h, s) /\ ForSession(h, s)
                BY <2>4, <4>3
            <4> QED BY <2>1, <4>1, <4>4 DEF SessionOK
        <3> QED BY <2>4, <3>1, SessionQuiet
    <2> QED BY <2>2, <2>3, <2>4
<1> QED BY <1>2, <1>5 DEF StudioInv, TalksOK

\* A call is answered.
LEMMA SaveContextKeeps ==
    ASSUME StudioInv, NEW h \in Workers, SaveContext(h)
    PROVE  StudioInv'
<1>1. /\ req[h] # NoReq /\ req[h].op = "talk" /\ req[h].at = "save" /\ Finish(h, {}) /\ UNCHANGED <<plugin, studio, endpoint>>
    BY DEF SaveContext, At
<1>2. req[h].data \in TalkData /\ Len(req[h].data.found.kept) <= MaxKept /\ \A s : Talks(h, s) <=> req[h].data.s = s
    BY <1>1, TalkIs
<1>3. PICK d \in TalkData : d = req[h].data
    BY <1>2
<1>4. PICK now, c : now = ContextOf(d) /\ c = IF d.found = NoContext THEN [NoContext EXCEPT !.id = d.n] ELSE d.found
    OBVIOUS
<1>5. PICK refused \in BOOLEAN, missed \in BOOLEAN :
        /\ refused <=> ("contexts" \notin studio \/ (d.found = NoContext /\ (now # NoContext \/ endpoint # d.endpoint)))
        /\ missed <=> (refused \/ (d.found # NoContext /\ now.id # d.found.id))
    OBVIOUS
<1>6. /\ contexts' = IF missed THEN contexts ELSE [contexts EXCEPT ![d.s] = With(c, d.n)]
      /\ said' = IF refused THEN said ELSE [said EXCEPT ![d.s] = Heard(said[d.s], d.n)]
    BY <1>3, <1>4, <1>5 DEF SaveContext
<1>7. Conversations /\ d.s \in Sessions /\ d.n \in Nat /\ d.found \in ContextRow /\ Len(d.found.kept) <= MaxKept /\ Talks(h, d.s)
    BY <1>2, <1>3 DEF StudioInv, TalksOK, TalkData
<1>8. c \in ContextRow /\ Len(c.kept) <= MaxKept /\ c.kept = d.found.kept /\ c.tokens = d.found.tokens
    <2>1. CASE d.found = NoContext
        <3>1. c = [id |-> d.n, kept |-> <<>>, tokens |-> 0]
            BY <1>4, <2>1 DEF NoContext
        <3>2. Len(<<>>) <= MaxKept /\ <<>> \in Seq(Nat)
            BY StudioAssumption
        <3> QED BY <1>7, <2>1, <3>1, <3>2 DEF NoContext, ContextRow
    <2>2. CASE d.found # NoContext
        BY <1>4, <1>7, <2>2
    <2> QED BY <2>1, <2>2
<1>9. said[d.s] \in SaidRow
    BY <1>7 DEF Conversations
<1>10. /\ With(c, d.n) \in ContextRow /\ Len(With(c, d.n).kept) <= MaxKept
       /\ Heard(said[d.s], d.n) \in SaidRow
       /\ (c.kept = said[d.s].kept /\ c.tokens = said[d.s].tokens) =>
            With(c, d.n).kept = Heard(said[d.s], d.n).kept /\ With(c, d.n).tokens = Heard(said[d.s], d.n).tokens
    BY ONLY <1>7, <1>8, <1>9, RowSaved
<1>11. Conversations'
    <2>1. endpoint' \in Nat
        BY <1>1, <1>7 DEF Conversations
    <2>2. contexts' \in [Sessions -> ContextRow]
        BY <1>6, <1>7, <1>10 DEF Conversations
    <2>3. said' \in [Sessions -> SaidRow]
        BY <1>6, <1>7, <1>10 DEF Conversations
    <2>4. \A s \in Sessions : Len(contexts'[s].kept) <= MaxKept
        BY <1>6, <1>7, <1>10 DEF Conversations
    <2> QED BY <2>1, <2>2, <2>3, <2>4 DEF Conversations
<1>12. \A s \in Sessions : s # d.s => contexts'[s] = contexts[s] /\ said'[s] = said[s]
    BY <1>6, <1>7 DEF Conversations
<1>13. StudioRequests' /\ StudioEnd(h) /\ doubt' = doubt \ ({} \cap req[h].sure)
    BY <1>1, StudioFinishes DEF StudioInv
<1>14. doubt' = doubt
    BY <1>13
<1>15. (PluginInDoubt' <=> PluginInDoubt) /\ \A s \in Sessions : SessionInDoubt(s)' <=> SessionInDoubt(s)
    BY <1>14 DEF PluginInDoubt, SessionInDoubt
<1>16. ASSUME ~SessionInDoubt(d.s)
       PROVE  contexts'[d.s].kept = said'[d.s].kept /\ contexts'[d.s].tokens = said'[d.s].tokens
    <2>1. SessionOK(d.s) /\ TalkOK(h, d.s)
        BY <1>7 DEF StudioInv, TalksOK, SessionOK
    <2>2. d.endpoint = endpoint /\ d.found = contexts[d.s] /\ now = contexts[d.s]
        BY <1>1, <1>3, <1>4, <1>16, <2>1 DEF TalkOK, ContextOf
    <2>3. contexts[d.s].kept = said[d.s].kept /\ contexts[d.s].tokens = said[d.s].tokens
        BY <1>16, <2>1 DEF SessionOK
    <2>4. missed = refused
        BY <1>5, <2>2
    <2>5. CASE refused
        BY <1>6, <2>3, <2>4, <2>5
    <2>6. CASE ~refused
        <3>1. contexts'[d.s] = With(c, d.n) /\ said'[d.s] = Heard(said[d.s], d.n)
            BY <1>6, <1>7, <2>4, <2>6 DEF Conversations
        <3> QED BY <1>8, <1>10, <2>2, <2>3, <3>1
    <2> QED BY <2>5, <2>6
<1> QED BY <1>1, <1>7, <1>11, <1>12, <1>13, <1>15, <1>16, SessionEnds

\* A session is deleted.
LEMMA DeleteContextKeeps ==
    ASSUME StudioInv, NEW h \in Workers, DeleteContext(h)
    PROVE  StudioInv'
<1>1. /\ req[h] # NoReq /\ req[h].op = "forget session" /\ UNCHANGED <<plugin, studio, endpoint>>
    BY DEF DeleteContext, At
<1>2. Ours(StudioWork, h)
    BY <1>1 DEF Ours, StudioWork
<1>3. req[h].data \in [s : Sessions]
    BY <1>1, <1>2 DEF StudioInv, StudioRequests, StudioRequest
<1>4. PICK c \in Sessions : c = req[h].data.s
    BY <1>3
<1>5. Forgets(h, c) /\ Conversations
    BY <1>1, <1>4 DEF Forgets, StudioInv, TalksOK
<1>6. contexts' = [contexts EXCEPT ![c] = NoContext] /\ said' = [said EXCEPT ![c] = NothingSaid]
    BY <1>4 DEF DeleteContext
<1>7. PICK settled : settled = {SessionObject(c)} /\ Finish(h, settled)
    BY <1>4 DEF DeleteContext
<1>8. StudioRequests' /\ StudioEnd(h) /\ doubt' = doubt \ (settled \cap req[h].sure)
    BY <1>7, StudioFinishes DEF StudioInv
<1>9. \A s, t : SessionObject(s) # PluginObject /\ (SessionObject(s) = SessionObject(t) => s = t)
    BY DEF SessionObject, PluginObject
<1>10. /\ PluginInDoubt' <=> PluginInDoubt
       /\ \A s \in Sessions : (SessionInDoubt(s) /\ s # c) => SessionInDoubt(s)'
       /\ \A s \in Sessions : SessionInDoubt(s)' => SessionInDoubt(s)
       /\ SessionInDoubt(c)' \/ ForSession(h, c) \/ ~SessionInDoubt(c)
    BY <1>7, <1>8, <1>9 DEF PluginInDoubt, SessionInDoubt, ForSession
<1>11. NoContext \in ContextRow /\ Len(NoContext.kept) <= MaxKept /\ NothingSaid \in SaidRow
      /\ NoContext.kept = NothingSaid.kept /\ NoContext.tokens = NothingSaid.tokens
    BY StudioAssumption DEF NoContext, NothingSaid, ContextRow, SaidRow
<1>12. Conversations'
    BY <1>1, <1>5, <1>6, <1>11 DEF Conversations
<1>13. /\ \A s \in Sessions : s # c => contexts'[s] = contexts[s] /\ said'[s] = said[s]
       /\ contexts'[c] = NoContext /\ said'[c] = NothingSaid
    BY <1>5, <1>6 DEF Conversations
<1> QED BY <1>1, <1>5, <1>8, <1>10, <1>11, <1>12, <1>13, SessionEnds

\* An endpoint is added or removed, all sessions with it.
LEMMA StatementKeeps ==
    ASSUME StudioInv, StudioStatement
    PROVE  StudioInv'
<1>1. PICK add \in BOOLEAN : WriteEndpoint(add)
    BY DEF StudioStatement
<1>2. /\ calls' = calls - 1 /\ calls > 0 /\ doubt' = doubt \cup Interrupts(Sessions) /\ req' = req
      /\ UNCHANGED <<plugin, studio>> /\ contexts' = NoContexts /\ said' = Silence
      /\ endpoint' = (IF add THEN calls ELSE 0)
    BY <1>1 DEF WriteEndpoint
<1>3. TypedRequests(StudioWork, StudioPlaces) /\ calls \in Nat
    BY DEF StudioInv, StudioRequests, TypedRequests, RequestsOf
<1>4. calls' \in Nat /\ endpoint' \in Nat
    BY <1>2, <1>3
<1>5. StudioRequests'
    <2>1. TypedRequests(StudioWork, StudioPlaces)'
        BY <1>2, <1>3, <1>4 DEF TypedRequests, RequestsOf, Ours
    <2> QED BY <1>2, <2>1 DEF StudioInv, StudioRequests, Ours
<1>6. \A w \in Workers : SamePlugin(w) /\ \A s : SameTalk(w, s) /\ (ForSession(w, s)' <=> ForSession(w, s))
    BY <1>2, OthersSame
<1>7. PluginInDoubt' <=> PluginInDoubt
    <2>1. \A s : SessionObject(s) # PluginObject
        BY DEF SessionObject, PluginObject
    <2>2. PluginObject \notin Interrupts(Sessions)
        BY <2>1 DEF Interrupts
    <2> QED BY <1>2, <2>2 DEF PluginInDoubt
<1>8. PluginOK'
    BY <1>2, <1>6, <1>7, PluginSame DEF StudioInv
<1>9. NoContext \in ContextRow /\ Len(NoContext.kept) <= MaxKept /\ NothingSaid \in SaidRow
      /\ NoContext.kept = NothingSaid.kept /\ NoContext.tokens = NothingSaid.tokens
    BY StudioAssumption DEF NoContext, NothingSaid, ContextRow, SaidRow
<1>10. Conversations'
    BY <1>2, <1>4, <1>9 DEF Conversations, NoContexts, Silence
<1>11. ASSUME NEW s \in Sessions PROVE SessionOK(s)'
    <2>1. SessionOK(s)
        BY DEF StudioInv, TalksOK
    <2>2. CASE SessionInDoubt(s)'
        BY <1>6, <2>1, <2>2, SessionDoubted DEF SameTalk
    <2>3. CASE ~SessionInDoubt(s)'
        <3>1. Idle(SessionObject(s))
            BY <1>2, <2>3 DEF SessionInDoubt, Interrupts
        <3>2. \A w \in Workers : ~Talks(w, s)'
            BY <1>6, <3>1, IdleSilent DEF StudioInv, Disturbs, SameTalk
        <3>3. contexts'[s].kept = said'[s].kept /\ contexts'[s].tokens = said'[s].tokens
            BY <1>2, <1>9 DEF NoContexts, Silence
        <3> QED BY <3>2, <3>3, SessionQuiet
    <2> QED BY <2>2, <2>3
<1> QED BY <1>5, <1>8, <1>10, <1>11 DEF StudioInv, TalksOK

----------------------------------------------------------------------------
(***************************************************************************)
(* Every step, and the theorems.                                           *)
(***************************************************************************)

\* Every step of a request of the studio's.
LEMMA StudioStepKeeps ==
    ASSUME StudioInv, NEW h \in Workers, StudioStep(h)
    PROVE  StudioInv'
<1>1. (\E op \in PluginOps : SwitchPlugin(h, op)) => StudioInv'
    BY SwitchBegins
<1>2. ForgetSession(h) \/ Talk(h) => StudioInv'
    BY TalkBegins
<1>3. FindPlugin(h) \/ WritePlugin(h) \/ FindTables(h) => StudioInv'
    BY FindPluginKeeps, WritePluginKeeps, FindTablesKeeps
<1>4. FindNoProject(h) \/ MakeTableRefused(h) \/ PluginStepFails(h) => StudioInv'
    BY SwitchBreaks
<1>5. MakeTable(h) \/ DropTable(h) => StudioInv'
    BY MakeTableKeeps, DropTableKeeps
<1>6. GetEndpoint(h) \/ GetContext(h) \/ AskProvider(h) \/ LogCall(h) \/ FindContext(h) => StudioInv'
    BY TalkReads
<1>7. DeleteContext(h) \/ Purge(h) \/ SaveContext(h) \/ TalkFails(h) => StudioInv'
    BY DeleteContextKeeps, PurgeKeeps, SaveContextKeeps, TalkFailsKeeps
<1> QED BY <1>1, <1>2, <1>3, <1>4, <1>5, <1>6, <1>7 DEF StudioStep

\* The worker starts again.
LEMMA StudioRestart ==
    ASSUME StudioInv, Restart
    PROVE  StudioInv'
<1>1. TypedRequests(StudioWork, StudioPlaces)
    BY DEF StudioInv, StudioRequests
<1>2. /\ TypedRequests(StudioWork, StudioPlaces)' /\ doubt' = (doubt \cup Cut) \ MonObjects
      /\ \A w \in Workers : ~Ours(StudioWork, w)'
    <2>1. TokenObjects \cap StudioPlaces = {} /\ MonObjects \cap StudioPlaces = {}
        BY DEF TokenObjects, TokenObject, MonObjects, MonObject, StudioPlaces, SessionObjects, SessionObject, PluginObject
    <2> QED BY <1>1, <2>1, RestartStays DEF Ours, StudioWork
<1>3. UNCHANGED <<plugin, studio, endpoint, contexts, said>>
    BY DEF Restart, studioVars
<1>4. \A w \in Workers : ~Enables(w)' /\ ~Disables(w)' /\ ~Deletes(w)' /\ \A s : ~Talks(w, s)'
    BY <1>2 DEF Ours, StudioWork, Enables, Disables, Deletes, Talks
<1>5. /\ PluginInDoubt => PluginInDoubt'
      /\ \A s : SessionInDoubt(s) => SessionInDoubt(s)'
      /\ PluginObject \in Cut => PluginInDoubt'
    <2>1. PluginObject \notin MonObjects /\ \A s : SessionObject(s) \notin MonObjects
        BY DEF PluginObject, SessionObject, MonObjects, MonObject
    <2> QED BY <1>2, <2>1 DEF PluginInDoubt, SessionInDoubt
<1>6. ASSUME NEW w \in Workers, Enables(w) \/ Disables(w) \/ Deletes(w) PROVE PluginInDoubt'
    <2>1. req[w] # NoReq /\ Ours(StudioWork, w) /\ (req[w].op \in PluginOps \/ req[w].op = "delete project")
        BY <1>6 DEF Enables, Disables, Deletes, Ours, StudioWork, PluginOps
    <2>2. StudioRequest(req[w]) /\ req[w].op \in Operations
        BY <2>1 DEF StudioInv, StudioRequests, Operations
    <2>3. PluginObject \in CutOff(req[w])
        <3>1. CASE req[w].op = "delete project"
            <4>1. CutOff(req[w]) = {ProjectObject, PluginObject} \cup TokenObjects \cup FileObjects
                BY <2>2, <3>1, CutOffIs
            <4> QED BY <4>1
        <3>2. CASE req[w].op \in PluginOps
            <4>1. CutOff(req[w]) = req[w].on
                BY <2>2, <3>2, CutOffIs
            <4>2. PluginObject \in req[w].on
                BY <1>6, <2>1, StudioObjects DEF StudioInv
            <4> QED BY <4>1, <4>2
        <3> QED BY <2>1, <3>1, <3>2
    <2>4. PluginObject \in Cut
        BY <2>1, <2>3, CutOffDoubts
    <2> QED BY <1>5, <2>4
<1>7. PluginOK'
    <2>1. PluginOK /\ TablesOK
        BY DEF StudioInv, PluginOK
    <2>2. TablesOK'
        <3> SUFFICES ASSUME ~PluginInDoubt'
                     PROVE  (plugin' = "on" => studio' = StudioTables) /\ (plugin' # "on" => studio' = {})
            BY DEF TablesOK
        <3>1. ~PluginInDoubt /\ \A w \in Workers : ~Enables(w) /\ ~DropsTables(w)
            BY <1>5, <1>6 DEF DropsTables
        <3> QED BY <1>3, <2>1, <3>1 DEF TablesOK
    <2> QED BY <1>3, <1>4, <2>1, <2>2 DEF PluginOK
<1>8. ASSUME NEW s \in Sessions PROVE SessionOK(s)'
    <2>1. SessionOK(s)
        BY DEF StudioInv, TalksOK
    <2>2. ~SessionInDoubt(s)' => contexts'[s].kept = said'[s].kept /\ contexts'[s].tokens = said'[s].tokens
        BY <1>3, <1>5, <2>1 DEF SessionOK
    <2> QED BY <1>4, <2>2, SessionQuiet
<1>9. StudioRequests' /\ Conversations'
    BY <1>2, <1>3 DEF StudioRequests, StudioInv, TalksOK, Conversations
<1> QED BY <1>7, <1>8, <1>9 DEF StudioInv, TalksOK

\* Redis loses its memory, which has nothing of the studio.
LEMMA StudioLost ==
    ASSUME StudioInv, RedisLost
    PROVE  StudioInv'
<1>1. TypedRequests(StudioWork, StudioPlaces)
    BY DEF StudioInv, StudioRequests
<1>2. /\ TypedRequests(StudioWork, StudioPlaces)'
      /\ \A w \in Workers : /\ Stays(StudioWork, w)
                            /\ req[w] # NoReq => req'[w].sure = req[w].sure \ (TokenObjects \cup {SwitchObject})
      /\ \A o \in doubt : o \in doubt'
      /\ \A o \in doubt' : o \in doubt \/ o \in TokenObjects \cup {SwitchObject}
    BY <1>1, LostStays
<1>3. PluginObject \notin TokenObjects \cup {SwitchObject} /\ \A s : SessionObject(s) \notin TokenObjects \cup {SwitchObject}
    BY DEF PluginObject, SessionObject, TokenObjects, TokenObject, SwitchObject
<1>4. \A w \in Workers : Stays(StudioWork, w) /\ (Ours(StudioWork, w) =>
               /\ ForPlugin(w)' <=> ForPlugin(w)
               /\ \A s \in Sessions : ForSession(w, s)' => ForSession(w, s))
    BY <1>2, <1>3 DEF Ours, ForPlugin, ForSession
<1>5. (PluginInDoubt' <=> PluginInDoubt) /\ \A s \in Sessions : SessionInDoubt(s) => SessionInDoubt(s)'
    BY <1>2, <1>3 DEF PluginInDoubt, SessionInDoubt
<1>6. UNCHANGED <<plugin, studio, endpoint, contexts, said>>
    BY DEF RedisLost, studioVars
<1>7. Conversations'
    BY <1>6 DEF StudioInv, TalksOK, Conversations
<1> QED BY <1>2, <1>4, <1>5, <1>6, <1>7, StudioSame

\* Every step keeps the invariant.
LEMMA StudioNext ==
    ASSUME StudioInv, [Next]_vars
    PROVE  StudioInv'
<1>1. RequestsOf(StudioWork, StudioPlaces)
    BY DEF StudioInv, StudioRequests, TypedRequests
<1>2. CASE UNCHANGED vars
    <2>1. UNCHANGED <<req, doubt, calls, studioVars, menu>>
        BY <1>2 DEF vars, baseVars
    <2>2. Aside(StudioWork, StudioPlaces)
        BY <1>1, <2>1, IdleAside DEF RequestsOf
    <2> QED BY <2>1, <2>2, StudioAside
<1>3. /\ \A x : TokenObject(x) \notin StudioPlaces /\ MonObject(x) \notin StudioPlaces /\ FileObject(x) \notin StudioPlaces
      /\ \A x : PlayerObject(x) \notin StudioPlaces
      /\ LayoutObject \notin StudioPlaces /\ ProjectObject \notin StudioPlaces /\ SwitchObject \notin StudioPlaces
      /\ FileObjects \cap StudioPlaces = {} /\ TokenObjects \cap StudioPlaces = {}
    BY DEF FileObjects, FileObject, TokenObject, TokenObjects, PluginObject, LayoutObject, ProjectObject, SwitchObject,
           SessionObject, SessionObjects, PlayerObject, PlayerObjects, MonObject, StudioPlaces
<1>4. ASSUME NEW w \in Workers, UNCHANGED studioVars,
             TokenStep(w) \/ HookStep(w) \/ MonitorStep(w) \/ PlayerStep(w) \/ QuotaStep(w) \/ FileStep(w) \/ ProjectStep(w)
      PROVE  StudioInv'
    <2>1. StudioWork \cap TokenOps = {} /\ StudioWork \cap HookRequests = {} /\ StudioWork \cap (MonOps \cup {"start monitors"}) = {}
        BY DEF StudioWork, TokenOps, HookRequests, HookOps, MonOps
    <2>2. StudioWork \cap PlayerOps = {} /\ StudioWork \cap QuotaOps = {} /\ StudioWork \cap ProjectOps = {} /\ StudioWork \cap FileOps = {}
        BY DEF StudioWork, PlayerOps, UseOps, QuotaOps, ProjectOps, FileOps
    <2>3. Aside(StudioWork, StudioPlaces)
        BY <1>1, <1>3, <1>4, <2>1, <2>2, TokenStepAside, HookStepAside, MonitorStepAside, PlayerStepAside, QuotaStepAside,
           ProjectStepAside, FileStepAside
    <2> QED BY <1>4, <2>3, StudioAside
<1>5. ASSUME UNCHANGED studioVars,
             \/ TokenTime \/ Delivery \/ MonitorTimers \/ Counting \/ QuotaTime \/ ForgetProject \/ PlayerTime
      PROVE  StudioInv'
    <2>1. Aside(StudioWork, StudioPlaces)
        BY <1>1, <1>5, OthersAside
    <2> QED BY <1>5, <2>1, StudioAside
<1> QED BY <1>2, <1>4, <1>5, StudioStepKeeps, StudioErased, StatementKeeps, StudioRestart, StudioLost DEF Next

\* It holds when the worker starts.
LEMMA StudioStart ==
    ASSUME Init
    PROVE  StudioInv
<1>1. /\ TypedRequests(StudioWork, StudioPlaces) /\ doubt = {} /\ \A w \in Workers : ~Ours(StudioWork, w) /\ req[w] = NoReq
    BY NoneOurs
<1>2. PICK c \in Scenarios : StudioInit(c)
    BY DEF Init
<1>3. /\ plugin \in {"none", "on", "off"} /\ studio = (IF plugin = "on" THEN StudioTables ELSE {}) /\ endpoint \in Nat
      /\ contexts = NoContexts /\ said = Silence
    BY <1>2, StudioAssumption DEF StudioInit
<1>4. \A w \in Workers : ~Enables(w) /\ ~Disables(w) /\ ~Deletes(w) /\ \A s : ~Talks(w, s)
    BY <1>1 DEF Enables, Disables, Deletes, Talks
<1>5. PluginOK
    BY <1>3, <1>4 DEF PluginOK, TablesOK
<1>6. NoContext \in ContextRow /\ Len(NoContext.kept) <= MaxKept /\ NothingSaid \in SaidRow
      /\ NoContext.kept = NothingSaid.kept /\ NoContext.tokens = NothingSaid.tokens
    BY StudioAssumption DEF NoContext, NothingSaid, ContextRow, SaidRow
<1>7. TalksOK
    BY <1>3, <1>4, <1>6 DEF TalksOK, Conversations, SessionOK, NoContexts, Silence
<1> QED BY <1>1, <1>5, <1>7 DEF StudioInv, StudioRequests

\* The studio's tables and conversations are as the requests have left them.
LEMMA StudioTold ==
    ASSUME StudioInv
    PROVE  ConversationsKept /\ StudioTablesKept
<1>1. ConversationsKept
    <2> SUFFICES ASSUME NEW s \in Sessions, SessionObject(s) \notin doubt
                 PROVE  contexts[s].kept = said[s].kept /\ contexts[s].tokens = said[s].tokens
        BY DEF ConversationsKept
    <2> QED BY DEF StudioInv, TalksOK, SessionOK, SessionInDoubt
<1>2. StudioTablesKept
    <2> SUFFICES ASSUME Idle(PluginObject), PluginObject \notin doubt
                 PROVE  studio = IF plugin = "on" THEN StudioTables ELSE {}
        BY DEF StudioTablesKept
    <2>1. ASSUME NEW w \in Workers, Enables(w) \/ Disables(w) \/ Deletes(w) PROVE FALSE
        <3>1. req[w] # NoReq
            BY <2>1 DEF Enables, Disables, Deletes
        <3>2. PluginObject \in req[w].on
            BY <2>1, <3>1, StudioObjects DEF StudioInv
        <3> QED BY <3>1, <3>2 DEF Idle, Busy
    <2>2. \A w \in Workers : ~Enables(w) /\ ~DropsTables(w)
        BY <2>1 DEF DropsTables
    <2> QED BY <2>2 DEF StudioInv, PluginOK, TablesOK, PluginInDoubt
<1> QED BY <1>1, <1>2

\* A session of the studio has the last exchanges that were answered, and the studio its tables
\* exactly when it is enabled, unless requests overlapped or failed.
THEOREM StudioIsAsLeft == Spec => [](ConversationsKept /\ StudioTablesKept)
BY StudioStart, StudioNext, StudioTold, PTL DEF Spec

----------------------------------------------------------------------------
(***************************************************************************)
(* Players.  The key of a login at work has never been seen; a key that    *)
(* was issued is on rows of its player only; a player that is not in doubt *)
(* has one row at most, with the key of the last login or none, which is   *)
(* at most the life of a key in Redis older than the session is idle, or   *)
(* has lost its key because the session was idle too long.                 *)
(***************************************************************************)
PlayerWork == {"login", "check session", "use session"}
LogsIn(w, p) == req[w] # NoReq /\ req[w].op = "login" /\ req[w].data.p = p
Uses(w) == req[w] # NoReq /\ req[w].op \in {"check session", "use session"}
PlayerInDoubt(p) == PlayerObject(p) \in doubt

PlayerRequest(r) ==
    /\ r.op = "login" =>
        /\ r.data \in [p : Players, key : Nat]
        /\ r.on = {PlayerObject(r.data.p)} /\ r.at \in {"find", "update", "insert"}
    /\ r.op \in {"check session", "use session"} => r.data \in [key : Nat] /\ r.on = {}
PlayerRequests ==
    /\ TypedRequests(PlayerWork, PlayerObjects)
    /\ \A w \in Workers : Ours(PlayerWork, w) => PlayerRequest(req[w])

Ages == 0 .. SessionTtl + 1
PlayerRow == [id : Nat, of : Players, key : Nat, age : Ages]
PlayerTables ==
    /\ players \subseteq PlayerRow /\ IsFiniteSet(players)
    /\ active \subseteq [key : Nat, left : 1 .. ActiveTicks]
    /\ \A a \in active, b \in active : a.key = b.key => a = b
    /\ issued \in [Players -> [key : Nat, idle : Ages]]
    /\ touches \subseteq Nat /\ marks \subseteq Nat /\ neglected \subseteq Nat

\* The keys that have been seen, all of calls that have come.
Seen(k) ==
    \/ \E r \in players : r.key = k
    \/ \E p \in Players : issued[p].key = k
    \/ \E a \in active : a.key = k
    \/ k \in touches \cup marks \cup neglected
    \/ \E w \in Workers : Uses(w) /\ req[w].data.key = k
KeysSeen ==
    /\ \A k : Seen(k) => k \in Nat /\ (k = 0 \/ k > calls)
    /\ \A w \in Workers, p \in Players : LogsIn(w, p) =>
        /\ req[w].data.key \in Nat /\ req[w].data.key > calls /\ ~Seen(req[w].data.key)
        /\ \A v \in Workers, q \in Players : LogsIn(v, q) /\ v # w => req[v].data.key # req[w].data.key
Owned == \A r \in players, p \in Players : (r.key # 0 /\ r.key = issued[p].key) => r.of = p

\* What the keys in Redis, and those on their way there, say of the rows.
ActiveKept ==
    \A r \in players : (r.key \notin {0} \cup touches \cup neglected) =>
        /\ \A a \in active : a.key = r.key => r.age + a.left <= ActiveTicks
        /\ r.key \in marks => r.age = 0

Fresh(p) ==
    LET k == issued[p].key IN
    (k # 0 /\ k \notin neglected) =>
        \/ \E r \in players :
            /\ r.of = p /\ r.key = k
            /\ k \in touches \/ r.age <= issued[p].idle + ActiveTicks
        \/ /\ \A r \in players : r.key # k
           /\ issued[p].idle + ActiveTicks > SessionTtl
One(p) ==
    /\ \A r \in players, s \in players : (r.of = p /\ s.of = p) => r = s
    /\ \A r \in players : r.of = p => r.key \in {0, issued[p].key}
LoginOK(w, p) ==
    LogsIn(w, p) =>
        /\ \A v \in Workers : LogsIn(v, p) /\ v # w => PlayerInDoubt(p) /\ PlayerObject(p) \notin req[w].sure
        /\ (req[w].at = "insert" /\ ~PlayerInDoubt(p)) => \A r \in players : r.of # p
LoginsOK == \A w \in Workers, p \in Players : LoginOK(w, p)
PlayerOK(p) == ~PlayerInDoubt(p) => One(p) /\ Fresh(p)
PlayersInv ==
    /\ PlayerRequests /\ PlayerTables /\ KeysSeen /\ Owned /\ ActiveKept /\ LoginsOK
    /\ \A p \in Players : PlayerOK(p)

\* Rows after a statement come each from a row before, of the same player and with the
\* same key or none.
Mapped(F) ==
    /\ F \in [players -> PlayerRow] /\ players' \subseteq {F[r] : r \in players}
    /\ \A r \in players : F[r].of = r.of /\ F[r].key \in {0, r.key}

\* The requests after a step: a login is one that was at work, no less in doubt and no more
\* sure, about to insert only where there is no row; a use has a key that has been seen.
LoginsStay ==
    /\ calls' \in Nat /\ calls' <= calls
    /\ \A w \in Workers, p \in Players : LogsIn(w, p)' =>
        /\ LogsIn(w, p) /\ req'[w].data.key = req[w].data.key
        /\ PlayerObject(p) \in req'[w].sure => PlayerObject(p) \in req[w].sure
        /\ req'[w].at = "insert" => req[w].at = "insert" \/ \A r \in players : r.of # p
    /\ \A w \in Workers : Uses(w)' => Seen(req'[w].data.key)
    /\ \A p \in Players : PlayerInDoubt(p) => PlayerInDoubt(p)'

\* The sessions after such a step: those that were issued, or ended; and no key is new.
SessionsStay ==
    /\ \A p \in Players : issued'[p].key \in {0, issued[p].key}
    /\ \A k \in touches' \cup marks' \cup neglected' : Seen(k)
    /\ \A a \in active' : Seen(a.key)

\* The image of a finite set is finite.
LEMMA ImageIsFinite ==
    ASSUME NEW S, NEW T, NEW F, F \in Surjection(S, T), IsFiniteSet(S)
    PROVE  IsFiniteSet(T)
BY FS_Surjection, Zenon

\* The rows, without the keys of some.
LEMMA ClearedMaps ==
    ASSUME PlayerTables, NEW some, some \subseteq players, players' = Cleared(some)
    PROVE  \E F : Mapped(F) /\ \A r \in players :
                /\ r \notin some => F[r] = r
                /\ r \in some => F[r].key = 0
                /\ F[r] \in players'
<1> DEFINE F == [r \in players |-> IF r \in some THEN [r EXCEPT !.key = 0] ELSE r]
<1>1. ASSUME NEW r \in players
      PROVE  /\ F[r] \in PlayerRow /\ F[r].of = r.of /\ F[r].key \in {0, r.key}
             /\ r \notin some => F[r] = r
             /\ r \in some => F[r].key = 0
             /\ F[r] \in players'
    <2>1. r \in PlayerRow
        BY DEF PlayerTables
    <2>2. /\ [r EXCEPT !.key = 0] \in PlayerRow /\ [r EXCEPT !.key = 0].of = r.of /\ [r EXCEPT !.key = 0].key = 0
        BY <2>1 DEF PlayerRow
    <2>3. F[r] = IF r \in some THEN [r EXCEPT !.key = 0] ELSE r
        OBVIOUS
    <2>4. F[r] \in players'
        BY <2>3 DEF Cleared
    <2> QED BY <2>1, <2>2, <2>3, <2>4
<1>2. players' \subseteq {F[r] : r \in players}
    <2> SUFFICES ASSUME NEW s \in players' PROVE \E r \in players : s = F[r]
        OBVIOUS
    <2>1. CASE s \in players \ some
        BY <2>1
    <2>2. CASE s \in {[r EXCEPT !.key = 0] : r \in some}
        <3>1. PICK r \in some : s = [r EXCEPT !.key = 0]
            BY <2>2
        <3> QED BY <3>1
    <2> QED BY <2>1, <2>2 DEF Cleared
<1>3. F \in [players -> PlayerRow]
    BY <1>1
<1>4. Mapped(F)
    <2> HIDE DEF F
    <2> QED BY <1>1, <1>2, <1>3 DEF Mapped
<1> HIDE DEF F
<1> QED BY <1>1, <1>4

\* The rows, some of them touched.
LEMMA TouchedMaps ==
    ASSUME PlayerTables, NEW some, some \subseteq players, players' = Touched(some)
    PROVE  \E F : Mapped(F) /\ \A r \in players :
                /\ F[r].key = r.key
                /\ r \notin some => F[r] = r
                /\ r \in some => F[r].age = 0
                /\ F[r] \in players'
<1> DEFINE F == [r \in players |-> IF r \in some THEN [r EXCEPT !.age = 0] ELSE r]
<1>1. ASSUME NEW r \in players
      PROVE  /\ F[r] \in PlayerRow /\ F[r].of = r.of /\ F[r].key = r.key
             /\ r \notin some => F[r] = r
             /\ r \in some => F[r].age = 0
             /\ F[r] \in players'
    <2>1. r \in PlayerRow
        BY DEF PlayerTables
    <2>2. 0 \in Ages
        BY PlayersAssumption DEF Ages
    <2>3. /\ [r EXCEPT !.age = 0] \in PlayerRow /\ [r EXCEPT !.age = 0].of = r.of
          /\ [r EXCEPT !.age = 0].key = r.key /\ [r EXCEPT !.age = 0].age = 0
        BY <2>1, <2>2 DEF PlayerRow
    <2>4. F[r] = IF r \in some THEN [r EXCEPT !.age = 0] ELSE r
        OBVIOUS
    <2>5. F[r] \in players'
        BY <2>4 DEF Touched
    <2> QED BY <2>1, <2>3, <2>4, <2>5
<1>2. players' \subseteq {F[r] : r \in players}
    <2> SUFFICES ASSUME NEW s \in players' PROVE \E r \in players : s = F[r]
        OBVIOUS
    <2>1. CASE s \in players \ some
        BY <2>1
    <2>2. CASE s \in {[r EXCEPT !.age = 0] : r \in some}
        <3>1. PICK r \in some : s = [r EXCEPT !.age = 0]
            BY <2>2
        <3> QED BY <3>1
    <2> QED BY <2>1, <2>2 DEF Touched
<1>3. F \in [players -> PlayerRow]
    BY <1>1
<1>4. Mapped(F)
    <2> HIDE DEF F
    <2> QED BY <1>1, <1>2, <1>3 DEF Mapped
<1> HIDE DEF F
<1> QED BY <1>1, <1>4

\* The same rows.
LEMMA SameMaps ==
    ASSUME PlayerTables, players' = players \/ players' = {}
    PROVE  \E F : Mapped(F) /\ \A r \in players : F[r] = r
<1> DEFINE F == [r \in players |-> r]
<1>1. Mapped(F)
    BY DEF Mapped, PlayerTables
<1> QED BY <1>1

\* What such a step keeps of the sessions.
LEMMA MappedKeeps ==
    ASSUME PlayersInv, NEW F, Mapped(F), LoginsStay, SessionsStay
    PROVE  /\ players' \subseteq PlayerRow /\ IsFiniteSet(players') /\ KeysSeen' /\ Owned' /\ LoginsOK'
           /\ \A p \in Players : (/\ ~PlayerInDoubt(p)'
                                  /\ \/ issued'[p].key = issued[p].key
                                     \/ \A r \in players' : r.of = p => r.key = 0) => One(p)'
<1>1. /\ \A r \in players' : \E s \in players : r = F[s]
      /\ \A s \in players : F[s] \in PlayerRow /\ F[s].of = s.of /\ F[s].key \in {0, s.key}
    BY DEF Mapped
<1>2. players' \subseteq PlayerRow
    BY <1>1
<1>3. IsFiniteSet(players')
    <2> DEFINE Images == {F[r] : r \in players}
    <2>1. F \in [players -> Images]
        BY DEF Mapped
    <2>2. \A i \in Images : \E r \in players : F[r] = i
        OBVIOUS
    <2>3. F \in Surjection(players, Images)
        BY <2>1, <2>2 DEF Surjection
    <2>4. IsFiniteSet(players)
        BY DEF PlayersInv, PlayerTables
    <2>5. IsFiniteSet(Images)
        <3> HIDE DEF Images
        <3> QED BY ONLY <2>3, <2>4, ImageIsFinite
    <2>6. players' \subseteq Images
        BY DEF Mapped
    <2> HIDE DEF Images
    <2> QED BY ONLY <2>5, <2>6, FS_Subset
<1>4. ASSUME NEW k, Seen(k)' PROVE k = 0 \/ Seen(k)
    <2>1. ASSUME NEW r \in players', r.key = k PROVE k = 0 \/ Seen(k)
        BY <1>1, <2>1 DEF Seen
    <2>2. ASSUME NEW p \in Players, issued'[p].key = k PROVE k = 0 \/ Seen(k)
        BY <2>2 DEF Seen, SessionsStay
    <2>3. ASSUME NEW a \in active', a.key = k PROVE Seen(k)
        BY <2>3 DEF SessionsStay
    <2>4. ASSUME NEW w \in Workers, Uses(w)', req'[w].data.key = k PROVE Seen(k)
        BY <2>4 DEF LoginsStay
    <2>5. ASSUME k \in touches' \cup marks' \cup neglected' PROVE Seen(k)
        BY <2>5 DEF SessionsStay
    <2> QED BY <1>4, <2>1, <2>2, <2>3, <2>4, <2>5 DEF Seen
<1>5. calls \in Nat /\ calls' \in Nat /\ calls' <= calls
    BY DEF PlayersInv, PlayerRequests, TypedRequests, RequestsOf, LoginsStay
<1>6. KeysSeen'
    <2>1. ASSUME NEW k, Seen(k)' PROVE k \in Nat /\ (k = 0 \/ k > calls')
        <3>1. k = 0 \/ Seen(k)
            BY <1>4, <2>1
        <3>2. k \in Nat /\ (k = 0 \/ k > calls)
            BY <3>1 DEF PlayersInv, KeysSeen
        <3> QED BY <1>5, <3>2
    <2>2. ASSUME NEW w \in Workers, NEW p \in Players, LogsIn(w, p)', NEW k, k = req'[w].data.key
          PROVE  k \in Nat /\ k > calls' /\ ~Seen(k)'
        <3>1. LogsIn(w, p) /\ k = req[w].data.key
            BY <2>2 DEF LoginsStay
        <3>2. k \in Nat /\ k > calls /\ ~Seen(k)
            BY <3>1 DEF PlayersInv, KeysSeen
        <3>3. k > calls' /\ k # 0
            BY <1>5, <3>2
        <3>4. ~Seen(k)'
            BY <1>4, <3>2, <3>3
        <3> QED BY <3>2, <3>3, <3>4
    <2>3. ASSUME NEW w \in Workers, NEW p \in Players, LogsIn(w, p)',
                 NEW v \in Workers, NEW q \in Players, LogsIn(v, q)', v # w
          PROVE  req'[v].data.key # req'[w].data.key
        <3>1. LogsIn(w, p) /\ req'[w].data.key = req[w].data.key
            BY <2>3 DEF LoginsStay
        <3>2. LogsIn(v, q) /\ req'[v].data.key = req[v].data.key
            BY <2>3 DEF LoginsStay
        <3>3. req[v].data.key # req[w].data.key
            BY <2>3, <3>1, <3>2 DEF PlayersInv, KeysSeen
        <3> QED BY <3>1, <3>2, <3>3
    <2> QED BY <2>1, <2>2, <2>3 DEF KeysSeen
<1>7. Owned'
    <2> SUFFICES ASSUME NEW r \in players', NEW p \in Players, r.key # 0, r.key = issued'[p].key PROVE r.of = p
        BY DEF Owned
    <2>1. PICK s \in players : r = F[s]
        BY <1>1
    <2>2. r.of = s.of /\ r.key = s.key
        BY <1>1, <2>1
    <2>3. issued'[p].key = issued[p].key
        BY DEF SessionsStay
    <2> QED BY <2>2, <2>3 DEF PlayersInv, Owned
<1>8. LoginsOK'
    <2> SUFFICES ASSUME NEW w \in Workers, NEW p \in Players, LogsIn(w, p)' PROVE LoginOK(w, p)'
        BY DEF LoginsOK, LoginOK
    <2>1. LogsIn(w, p) /\ LoginOK(w, p)
        BY DEF LoginsStay, PlayersInv, LoginsOK
    <2>2. ASSUME NEW v \in Workers, LogsIn(v, p)', v # w PROVE PlayerInDoubt(p)' /\ PlayerObject(p) \notin req'[w].sure
        <3>1. LogsIn(v, p) /\ (PlayerObject(p) \in req'[w].sure => PlayerObject(p) \in req[w].sure)
            BY <2>2 DEF LoginsStay
        <3>2. PlayerInDoubt(p) /\ PlayerObject(p) \notin req[w].sure
            BY <2>1, <2>2, <3>1 DEF LoginOK
        <3> QED BY <3>1, <3>2 DEF LoginsStay
    <2>3. ASSUME req'[w].at = "insert", ~PlayerInDoubt(p)', NEW r \in players' PROVE r.of # p
        <3>1. \A s \in players : s.of # p
            BY <2>1, <2>3 DEF LoginOK, LoginsStay
        <3> QED BY <1>1, <2>3, <3>1
    <2> QED BY <2>2, <2>3 DEF LoginOK
<1>9. ASSUME NEW p \in Players, ~PlayerInDoubt(p)',
             issued'[p].key = issued[p].key \/ \A r \in players' : r.of = p => r.key = 0
      PROVE  One(p)'
    <2>1. One(p)
        BY <1>9 DEF LoginsStay, PlayersInv, PlayerOK
    <2>2. ASSUME NEW r \in players', NEW s \in players', r.of = p, s.of = p PROVE r = s
        <3>1. PICK a \in players, b \in players : r = F[a] /\ s = F[b]
            BY <1>1
        <3>2. a = b
            BY <1>1, <2>1, <2>2, <3>1 DEF One
        <3> QED BY <3>1, <3>2
    <2>3. ASSUME NEW r \in players', r.of = p PROVE r.key \in {0, issued'[p].key}
        <3>1. PICK a \in players : r = F[a]
            BY <1>1
        <3>2. a.of = p /\ r.key \in {0, a.key}
            BY <1>1, <2>3, <3>1
        <3>3. a.key \in {0, issued[p].key}
            BY <2>1, <3>2 DEF One
        <3> QED BY <1>9, <2>3, <3>2, <3>3
    <2> QED BY <2>2, <2>3 DEF One
<1> QED BY <1>2, <1>3, <1>6, <1>7, <1>8, <1>9

\* The sessions' tables but for the rows.
SessionTables ==
    /\ active \subseteq [key : Nat, left : 1 .. ActiveTicks]
    /\ \A a \in active, b \in active : a.key = b.key => a = b
    /\ issued \in [Players -> [key : Nat, idle : Ages]]
    /\ touches \subseteq Nat /\ marks \subseteq Nat /\ neglected \subseteq Nat

\* Where no key is new and no row comes, freshness is what a step has to keep.
LEMMA PlayersKeep ==
    ASSUME PlayersInv, NEW F, Mapped(F), LoginsStay, SessionsStay, PlayerRequests', SessionTables', ActiveKept',
           \A p \in Players : ~PlayerInDoubt(p)' =>
                Fresh(p)' /\ (issued'[p].key = issued[p].key \/ \A r \in players' : r.of = p => r.key = 0)
    PROVE  PlayersInv'
<1>1. /\ players' \subseteq PlayerRow /\ IsFiniteSet(players') /\ KeysSeen' /\ Owned' /\ LoginsOK'
      /\ \A p \in Players : (/\ ~PlayerInDoubt(p)'
                             /\ \/ issued'[p].key = issued[p].key
                                \/ \A r \in players' : r.of = p => r.key = 0) => One(p)'
    BY MappedKeeps
<1>2. PlayerTables'
    BY <1>1 DEF PlayerTables, SessionTables, Ages, PlayerRow
<1>3. \A p \in Players : PlayerOK(p)'
    BY <1>1 DEF PlayerOK
<1> QED BY <1>1, <1>2, <1>3 DEF PlayersInv

\* The rows and the keys as they are.
LEMMA PlayersSame ==
    ASSUME PlayersInv, LoginsStay, PlayerRequests', UNCHANGED playerVars
    PROVE  PlayersInv'
<1>1. UNCHANGED <<players, active, touches, marks, issued, neglected>>
    BY DEF playerVars
<1>2. PICK F : Mapped(F)
    BY <1>1, SameMaps DEF PlayersInv
<1>3. SessionsStay
    BY <1>1 DEF SessionsStay, Seen
<1>4. SessionTables' /\ ActiveKept'
    BY <1>1 DEF PlayersInv, PlayerTables, SessionTables, ActiveKept, Ages
<1>5. ASSUME NEW p \in Players, ~PlayerInDoubt(p)' PROVE Fresh(p)' /\ issued'[p].key = issued[p].key
    <2>1. Fresh(p)
        BY <1>5 DEF LoginsStay, PlayersInv, PlayerOK
    <2>2. Fresh(p)'
        BY <1>1, <2>1 DEF Fresh
    <2> QED BY <1>1, <2>2
<1> QED BY <1>2, <1>3, <1>4, <1>5, PlayersKeep

\* A request that stays what it is.
LEMMA PlayerStays ==
    ASSUME NEW w, Stays(PlayerWork, w)
    PROVE  /\ \A p : LogsIn(w, p)' <=> LogsIn(w, p)
           /\ Uses(w)' <=> Uses(w)
           /\ Ours(PlayerWork, w)' <=> Ours(PlayerWork, w)
           /\ Ours(PlayerWork, w) => req'[w].at = req[w].at /\ req'[w].data = req[w].data
           /\ (Ours(PlayerWork, w) /\ PlayerRequest(req[w])) => PlayerRequest(req'[w])
<1>1. /\ Ours(PlayerWork, w)' <=> Ours(PlayerWork, w)
      /\ Ours(PlayerWork, w) => /\ req'[w].op = req[w].op /\ req'[w].on = req[w].on /\ req'[w].at = req[w].at
                                /\ req'[w].data = req[w].data
    BY DEF Stays
<1>2. \A p : LogsIn(w, p)' <=> LogsIn(w, p)
    BY <1>1 DEF LogsIn, Ours, PlayerWork
<1>3. Uses(w)' <=> Uses(w)
    BY <1>1 DEF Uses, Ours, PlayerWork
<1> QED BY <1>1, <1>2, <1>3 DEF PlayerRequest

\* Requests that stay, or are less sure.
LEMMA PlayersStay ==
    ASSUME PlayersInv, TypedRequests(PlayerWork, PlayerObjects)', calls' <= calls,
           \A w \in Workers : Stays(PlayerWork, w) \/ ~Ours(PlayerWork, w)',
           \A w \in Workers, p \in Players : (LogsIn(w, p)' /\ PlayerObject(p) \in req'[w].sure) => PlayerObject(p) \in req[w].sure,
           \A p \in Players : PlayerInDoubt(p) => PlayerInDoubt(p)'
    PROVE  LoginsStay /\ PlayerRequests'
<1>1. ASSUME NEW w \in Workers, Stays(PlayerWork, w), Ours(PlayerWork, w)'
      PROVE  /\ PlayerRequest(req'[w])
             /\ \A p \in Players : LogsIn(w, p)' =>
                    LogsIn(w, p) /\ req'[w].data.key = req[w].data.key /\ req'[w].at = req[w].at
             /\ Uses(w)' => Seen(req'[w].data.key)
    <2>1. Ours(PlayerWork, w) /\ PlayerRequest(req[w])
        BY <1>1, PlayerStays DEF PlayersInv, PlayerRequests
    <2>2. PlayerRequest(req'[w]) /\ req'[w].at = req[w].at /\ req'[w].data = req[w].data
        BY <1>1, <2>1, PlayerStays
    <2>3. Uses(w)' => Seen(req'[w].data.key)
        BY <1>1, <2>2, PlayerStays DEF Seen
    <2> QED BY <1>1, <2>2, <2>3, PlayerStays
<1>2. \A w \in Workers : (\A p : LogsIn(w, p)' => Ours(PlayerWork, w)') /\ (Uses(w)' => Ours(PlayerWork, w)')
    BY DEF LogsIn, Uses, Ours, PlayerWork
<1>3. PlayerRequests'
    BY <1>1 DEF PlayerRequests
<1>4. calls' \in Nat
    BY DEF TypedRequests, RequestsOf
<1> QED BY <1>1, <1>2, <1>3, <1>4 DEF LoginsStay

\* A step aside keeps the players.
LEMMA PlayersAsideStay ==
    ASSUME PlayersInv, Aside(PlayerWork, PlayerObjects)
    PROVE  LoginsStay /\ PlayerRequests'
<1>1. TypedRequests(PlayerWork, PlayerObjects)
    BY DEF PlayersInv, PlayerRequests
<1>2. /\ TypedRequests(PlayerWork, PlayerObjects)'
      /\ \A w \in Workers : Stays(PlayerWork, w) /\
           (Ours(PlayerWork, w) => req'[w].sure \cap PlayerObjects = req[w].sure \cap PlayerObjects)
    BY <1>1, AsideStays
<1>3. \A p \in Players : PlayerObject(p) \in PlayerObjects
    BY DEF PlayerObjects
<1>4. calls' <= calls /\ \A p \in Players : PlayerInDoubt(p) => PlayerInDoubt(p)'
    BY <1>3 DEF Aside, PlayerInDoubt
<1>5. \A w \in Workers, p \in Players : (LogsIn(w, p)' /\ PlayerObject(p) \in req'[w].sure) => PlayerObject(p) \in req[w].sure
    <2> SUFFICES ASSUME NEW w \in Workers, NEW p \in Players, LogsIn(w, p)', PlayerObject(p) \in req'[w].sure
                 PROVE  PlayerObject(p) \in req[w].sure
        OBVIOUS
    <2>1. Ours(PlayerWork, w)
        BY <1>2, PlayerStays DEF LogsIn, Ours, PlayerWork
    <2> QED BY <1>2, <1>3, <2>1
<1> QED BY <1>2, <1>4, <1>5, PlayersStay

\* Players are as they were when a step is about no request of theirs and leaves their tables.
LEMMA PlayersAside ==
    ASSUME PlayersInv, Aside(PlayerWork, PlayerObjects), UNCHANGED playerVars
    PROVE  PlayersInv'
BY PlayersAsideStay, PlayersSame

\* A request of the players' ends,
LEMMA PlayerEnds ==
    ASSUME PlayersInv, NEW h \in Workers, Put(h, NoReq), calls' = calls,
           \A p \in Players : PlayerInDoubt(p) => PlayerInDoubt(p)'
    PROVE  LoginsStay /\ PlayerRequests'
<1>1. TypedRequests(PlayerWork, PlayerObjects)
    BY DEF PlayersInv, PlayerRequests
<1>2. /\ TypedRequests(PlayerWork, PlayerObjects)' /\ ~Ours(PlayerWork, h)' /\ req'[h] = NoReq
      /\ \A w \in Workers \ {h} : req'[w] = req[w]
    BY <1>1, EndedStays
<1>3. \A w \in Workers : Stays(PlayerWork, w) \/ ~Ours(PlayerWork, w)'
    BY <1>2, SameStays
<1>4. \A w \in Workers, p \in Players : LogsIn(w, p)' => w # h
    BY <1>2 DEF LogsIn
<1>5. calls' <= calls
    BY <1>1 DEF TypedRequests, RequestsOf
<1> QED BY <1>2, <1>3, <1>4, <1>5, PlayersStay

\* or goes on, to insert a row where there is none.
LEMMA PlayerMoves ==
    ASSUME PlayersInv, NEW h \in Workers, Ours(PlayerWork, h), NEW at, at \in Awaits,
           Go(h, at, req[h].data), req[h].op = "login" => at \in {"find", "update", "insert"},
           \A p \in Players : (LogsIn(h, p) /\ at = "insert") => \A r \in players : r.of # p
    PROVE  LoginsStay /\ PlayerRequests'
<1>1. TypedRequests(PlayerWork, PlayerObjects) /\ RequestsOf(PlayerWork, PlayerObjects) /\ req[h] # NoReq
    BY DEF PlayersInv, PlayerRequests, TypedRequests, Ours
<1>2. Put(h, Moved(req[h], at, req[h].data)) /\ UNCHANGED <<doubt, calls, menu>>
    BY <1>1, GoPuts
<1>3. req[h].data \in RequestData /\ req[h].op \in PlayerWork
    BY <1>1 DEF TypedRequests, Typed, Ours
<1>4. PICK data : data = req[h].data
    OBVIOUS
<1>5. Put(h, Moved(req[h], at, data)) /\ data \in RequestData /\ calls' = calls
    BY <1>2, <1>3, <1>4
<1>6. /\ TypedRequests(PlayerWork, PlayerObjects)'
      /\ Ours(PlayerWork, h)' /\ req'[h] # NoReq /\ req'[h].op = req[h].op /\ req'[h].on = req[h].on /\ req'[h].at = at
      /\ req'[h].data = data /\ req'[h].sure = req[h].sure
      /\ \A w \in Workers \ {h} : req'[w] = req[w]
    BY ONLY <1>1, <1>5, h \in Workers, at \in Awaits, Ours(PlayerWork, h), MovedStays
<1>7. PlayerRequest(req[h])
    BY DEF PlayersInv, PlayerRequests
<1>8. PlayerRequest(req'[h])
    <2>1. req[h].op = "login" => req[h].data \in [p : Players, key : Nat] /\ req[h].on = {PlayerObject(req[h].data.p)}
        BY <1>7 DEF PlayerRequest
    <2>2. req[h].op \in {"check session", "use session"} => req[h].data \in [key : Nat] /\ req[h].on = {}
        BY <1>7 DEF PlayerRequest
    <2> QED BY <1>4, <1>6, <2>1, <2>2 DEF PlayerRequest
<1>9. PlayerRequests'
    <2> SUFFICES ASSUME NEW w \in Workers, Ours(PlayerWork, w)' PROVE PlayerRequest(req'[w])
        BY <1>6 DEF PlayerRequests
    <2>1. CASE w = h
        BY <1>8, <2>1
    <2>2. CASE w # h
        <3>1. req'[w] = req[w] /\ Ours(PlayerWork, w)
            BY <1>6, <2>2 DEF Ours
        <3> QED BY <3>1 DEF PlayersInv, PlayerRequests
    <2> QED BY <2>1, <2>2
<1>10. ASSUME NEW w \in Workers, NEW p \in Players, LogsIn(w, p)'
       PROVE  /\ LogsIn(w, p) /\ req'[w].data.key = req[w].data.key
              /\ PlayerObject(p) \in req'[w].sure => PlayerObject(p) \in req[w].sure
              /\ req'[w].at = "insert" => req[w].at = "insert" \/ \A r \in players : r.of # p
    <2>1. CASE w = h
        <3>1. LogsIn(h, p)
            BY <1>1, <1>4, <1>6, <1>10, <2>1 DEF LogsIn
        <3> QED BY <1>4, <1>6, <2>1, <3>1
    <2>2. CASE w # h
        BY <1>6, <1>10, <2>2 DEF LogsIn
    <2> QED BY <2>1, <2>2
<1>11. ASSUME NEW w \in Workers, Uses(w)' PROVE Seen(req'[w].data.key)
    <2>1. CASE w = h
        <3>1. Uses(h)
            BY <1>1, <1>6, <1>11, <2>1 DEF Uses
        <3> QED BY <1>4, <1>6, <2>1, <3>1 DEF Seen
    <2>2. CASE w # h
        <3>1. req'[w] = req[w] /\ Uses(w)
            BY <1>6, <1>11, <2>2 DEF Uses
        <3> QED BY <3>1 DEF Seen
    <2> QED BY <2>1, <2>2
<1>12. calls' \in Nat /\ calls' <= calls /\ doubt' = doubt
    BY <1>1, <1>2 DEF RequestsOf
<1> QED BY <1>9, <1>10, <1>11, <1>12 DEF LoginsStay, PlayerInDoubt

\* A use arrives, with the key of a row.
LEMMA UseArrives ==
    ASSUME PlayersInv, NEW h \in Workers, NEW op, op \in {"check session", "use session"},
           NEW r \in players, Called(h, op, {}, "find", [key |-> r.key])
    PROVE  LoginsStay /\ PlayerRequests'
<1>1. TypedRequests(PlayerWork, PlayerObjects) /\ RequestsOf(PlayerWork, PlayerObjects)
    BY DEF PlayersInv, PlayerRequests, TypedRequests
<1>2. r.key \in Nat
    BY DEF PlayersInv, PlayerTables, PlayerRow
<1>3. PICK on, at, data : on = {} /\ at = "find" /\ data = [key |-> r.key]
    OBVIOUS
<1>4. op \in PlayerWork /\ op \in Operations /\ on \subseteq Objects /\ at \in Awaits
    BY <1>3 DEF PlayerWork, Operations, UseOps, Awaits
<1>5. data \in [key : Nat] /\ data.key = r.key
    BY <1>2, <1>3
<1>6. data \in RequestData
    BY <1>5 DEF RequestData
<1>7. Arrived(h, op, on, at, data)
    BY <1>1, <1>3, CalledArrives
<1>8. /\ TypedRequests(PlayerWork, PlayerObjects)'
      /\ ~Ours(PlayerWork, h) /\ Ours(PlayerWork, h)'
      /\ req'[h].op = op /\ req'[h].on = on /\ req'[h].at = at /\ req'[h].data = data
      /\ req'[h].sure = on \ Hit(op, on)
      /\ \A w \in Workers \ {h} : Stays(PlayerWork, w) /\ SureOf(w, op, on)
    BY ONLY <1>1, h \in Workers, <1>4, <1>6, <1>7, ArrivedStays
<1>9. PlayerRequest(req'[h]) /\ Seen(req'[h].data.key) /\ \A p : ~LogsIn(h, p)'
    <2>1. PlayerRequest(req'[h])
        BY <1>3, <1>5, <1>8 DEF PlayerRequest
    <2>2. Seen(r.key)
        BY DEF Seen
    <2>3. \A p : ~LogsIn(h, p)'
        BY <1>8 DEF LogsIn
    <2> QED BY <1>5, <1>8, <2>1, <2>2, <2>3
<1>10. \A w \in Workers \ {h} : Ours(PlayerWork, w)' => Ours(PlayerWork, w) /\ PlayerRequest(req[w])
    BY <1>8, PlayerStays DEF PlayersInv, PlayerRequests
<1>11. PlayerRequests'
    BY <1>8, <1>9, <1>10, PlayerStays DEF PlayerRequests
<1>12. ASSUME NEW w \in Workers, NEW p \in Players, LogsIn(w, p)'
       PROVE  /\ LogsIn(w, p) /\ req'[w].data.key = req[w].data.key
              /\ PlayerObject(p) \in req'[w].sure => PlayerObject(p) \in req[w].sure
              /\ req'[w].at = "insert" => req[w].at = "insert" \/ \A s \in players : s.of # p
    <2>1. w # h
        BY <1>9, <1>12
    <2>2. LogsIn(w, p) /\ Ours(PlayerWork, w)
        BY <1>8, <1>12, <2>1, PlayerStays DEF LogsIn, Ours, PlayerWork
    <2>3. req'[w].at = req[w].at /\ req'[w].data = req[w].data
        BY <1>8, <2>1, <2>2, PlayerStays
    <2>4. req'[w].sure \subseteq req[w].sure
        BY <1>8, <2>1 DEF SureOf
    <2> QED BY <2>2, <2>3, <2>4
<1>13. ASSUME NEW w \in Workers \ {h}, Uses(w)' PROVE Seen(req'[w].data.key)
    <2>1. Uses(w) /\ Ours(PlayerWork, w)
        BY <1>8, <1>13, PlayerStays DEF Uses, Ours, PlayerWork
    <2>2. req'[w].data = req[w].data
        BY <1>8, <2>1, PlayerStays
    <2> QED BY <2>1, <2>2 DEF Seen
<1>14. calls' \in Nat /\ calls' <= calls /\ \A p \in Players : PlayerInDoubt(p) => PlayerInDoubt(p)'
    <2>1. calls \in Nat
        BY <1>1 DEF RequestsOf
    <2>2. calls' = calls - 1 /\ calls > 0 /\ doubt' = doubt \cup Hit(op, on)
        BY <1>7 DEF Arrived
    <2>3. calls' \in Nat /\ calls' <= calls
        BY ONLY <2>1, <2>2
    <2>4. \A p \in Players : PlayerInDoubt(p) => PlayerInDoubt(p)'
        BY <2>2 DEF PlayerInDoubt
    <2> QED BY <2>3, <2>4
<1> QED BY <1>9, <1>11, <1>12, <1>13, <1>14 DEF LoginsStay

\* The keys of some rows go because their sessions are too old: of the others nothing is lost,
\* and those that were used have been neglected.
LEMMA ExpiryKeeps ==
    ASSUME PlayersInv, LoginsStay, PlayerRequests', NEW some, some \subseteq players, players' = Cleared(some),
           neglected' = neglected \cup Overtaken(some), UNCHANGED <<active, touches, marks, issued>>
    PROVE  PlayersInv'
<1>1. PICK F : Mapped(F) /\ \A r \in players : /\ r \notin some => F[r] = r
                                               /\ r \in some => F[r].key = 0
                                               /\ F[r] \in players'
    BY ClearedMaps DEF PlayersInv
<1>2. PlayerTables /\ Owned /\ ActiveKept
    BY DEF PlayersInv
<1>3. Overtaken(some) \subseteq {r.key : r \in some}
    BY DEF Overtaken
<1>4. SessionsStay
    <2>1. \A k \in Overtaken(some) : \E r \in players : r.key = k
        BY <1>3
    <2> QED BY <2>1 DEF SessionsStay, Seen
<1>5. SessionTables'
    <2>1. Overtaken(some) \subseteq Nat
        BY <1>2, <1>3 DEF PlayerTables, PlayerRow
    <2> QED BY <1>2, <2>1 DEF PlayerTables, SessionTables, Ages
<1>6. \A r \in players' : \E s \in players : r = F[s]
    BY <1>1 DEF Mapped
<1>7. ActiveKept'
    <2> SUFFICES ASSUME NEW r \in players', r.key \notin {0} \cup touches' \cup neglected'
                 PROVE  /\ \A a \in active' : a.key = r.key => r.age + a.left <= ActiveTicks
                        /\ r.key \in marks' => r.age = 0
        BY DEF ActiveKept
    <2>1. PICK s \in players : r = F[s]
        BY <1>6
    <2>2. r = s
        BY <1>1, <2>1
    <2> QED BY <1>2, <2>2 DEF ActiveKept
<1>8. ASSUME NEW p \in Players, ~PlayerInDoubt(p)' PROVE Fresh(p)'
    <2>1. Fresh(p) /\ One(p)
        BY <1>8 DEF LoginsStay, PlayersInv, PlayerOK
    <2> SUFFICES ASSUME NEW k, k = issued[p].key, k # 0, k \notin neglected'
                 PROVE  \/ \E r \in players' : r.of = p /\ r.key = k /\ (k \in touches \/ r.age <= issued[p].idle + ActiveTicks)
                        \/ (\A r \in players' : r.key # k) /\ issued[p].idle + ActiveTicks > SessionTtl
        BY DEF Fresh
    <2>2. CASE \E r \in players : r.of = p /\ r.key = k /\ (k \in touches \/ r.age <= issued[p].idle + ActiveTicks)
        <3>1. PICK r \in players : r.of = p /\ r.key = k /\ (k \in touches \/ r.age <= issued[p].idle + ActiveTicks)
            BY <2>2
        <3>2. CASE r \notin some
            BY <1>1, <3>1, <3>2
        <3>3. CASE r \in some
            <4>1. Stale(r) /\ k \notin touches
                <5>1. k \notin Overtaken(some)
                    OBVIOUS
                <5> QED BY <3>1, <3>3, <5>1 DEF Overtaken
            <4>2. SessionTtl \in Nat /\ r.age \in Int /\ issued[p].idle + ActiveTicks \in Int
                BY <1>2, PlayersAssumption DEF PlayerTables, PlayerRow, Ages
            <4>3. issued[p].idle + ActiveTicks > SessionTtl
                BY <3>1, <4>1, <4>2 DEF Stale
            <4>4. ASSUME NEW s \in players, F[s].key = k PROVE FALSE
                <5>1. s \notin some /\ s.key = k
                    BY <1>1, <4>4
                <5>2. s.of = p
                    BY <1>2, <5>1 DEF Owned
                <5>3. s = r
                    BY <2>1, <3>1, <5>2 DEF One
                <5> QED BY <3>3, <5>1, <5>3
            <4> QED BY <1>6, <4>3, <4>4
        <3> QED BY <3>2, <3>3
    <2>3. CASE (\A r \in players : r.key # k) /\ issued[p].idle + ActiveTicks > SessionTtl
        <3>1. \A s \in players : F[s].key # k
            BY <1>1, <2>3
        <3> QED BY <1>6, <2>3, <3>1
    <2>4. (k # 0 /\ k \notin neglected) =>
            \/ \E r \in players : r.of = p /\ r.key = k /\ (k \in touches \/ r.age <= issued[p].idle + ActiveTicks)
            \/ (\A r \in players : r.key # k) /\ issued[p].idle + ActiveTicks > SessionTtl
        BY <2>1 DEF Fresh
    <2> QED BY <2>2, <2>3, <2>4
<1> QED BY <1>1, <1>4, <1>5, <1>7, <1>8, PlayersKeep

\* Some keys go because their sessions are ended.
LEMMA EndKeeps ==
    ASSUME PlayersInv, LoginsStay, PlayerRequests', NEW some, some \subseteq players, players' = Cleared(some),
           NEW ended, ended \subseteq Players,
           issued' = [p \in Players |-> IF p \in ended THEN NoLogin ELSE issued[p]],
           UNCHANGED <<active, touches, marks, neglected>>,
           \A r \in players : r \in some => r.of \in ended,
           \A p \in ended : ~PlayerInDoubt(p)' => \A r \in players : r.of = p => r \in some \/ r.key = 0
    PROVE  PlayersInv'
<1>1. PICK F : Mapped(F) /\ \A r \in players : /\ r \notin some => F[r] = r
                                               /\ r \in some => F[r].key = 0
                                               /\ F[r] \in players'
    BY ClearedMaps DEF PlayersInv
<1>2. PlayerTables /\ Owned /\ ActiveKept
    BY DEF PlayersInv
<1>3. \A p \in Players : /\ p \in ended => issued'[p].key = 0
                         /\ p \notin ended => issued'[p] = issued[p]
    BY DEF NoLogin
<1>4. SessionsStay
    BY <1>3 DEF SessionsStay, Seen
<1>5. SessionTables'
    <2>1. NoLogin \in [key : Nat, idle : Ages]
        BY PlayersAssumption DEF NoLogin, Ages
    <2>2. issued' \in [Players -> [key : Nat, idle : Ages]]
        BY <1>2, <2>1 DEF PlayerTables
    <2> QED BY <1>2, <2>2 DEF PlayerTables, SessionTables, Ages
<1>6. \A r \in players' : \E s \in players : r = F[s]
    BY <1>1 DEF Mapped
<1>7. ActiveKept'
    <2> SUFFICES ASSUME NEW r \in players', r.key \notin {0} \cup touches' \cup neglected'
                 PROVE  /\ \A a \in active' : a.key = r.key => r.age + a.left <= ActiveTicks
                        /\ r.key \in marks' => r.age = 0
        BY DEF ActiveKept
    <2>1. PICK s \in players : r = F[s]
        BY <1>6
    <2>2. r = s
        BY <1>1, <2>1
    <2> QED BY <1>2, <2>2 DEF ActiveKept
<1>8. ASSUME NEW p \in Players, ~PlayerInDoubt(p)' PROVE Fresh(p)'
    <2>1. Fresh(p) /\ One(p)
        BY <1>8 DEF LoginsStay, PlayersInv, PlayerOK
    <2>2. CASE p \in ended
        BY <1>3, <2>2 DEF Fresh
    <2>3. CASE p \notin ended
        <3> SUFFICES ASSUME NEW k, k = issued[p].key, k # 0, k \notin neglected
                     PROVE  \/ \E r \in players' : r.of = p /\ r.key = k /\ (k \in touches \/ r.age <= issued[p].idle + ActiveTicks)
                            \/ (\A r \in players' : r.key # k) /\ issued[p].idle + ActiveTicks > SessionTtl
            BY <1>3, <2>3 DEF Fresh
        <3>1. CASE \E r \in players : r.of = p /\ r.key = k /\ (k \in touches \/ r.age <= issued[p].idle + ActiveTicks)
            <4>1. PICK r \in players : r.of = p /\ r.key = k /\ (k \in touches \/ r.age <= issued[p].idle + ActiveTicks)
                BY <3>1
            <4>2. r \notin some
                BY <2>3, <4>1
            <4> QED BY <1>1, <4>1, <4>2
        <3>2. CASE (\A r \in players : r.key # k) /\ issued[p].idle + ActiveTicks > SessionTtl
            <4>1. \A s \in players : F[s].key # k
                BY <1>1, <3>2
            <4> QED BY <1>6, <3>2, <4>1
        <3>3. \/ \E r \in players : r.of = p /\ r.key = k /\ (k \in touches \/ r.age <= issued[p].idle + ActiveTicks)
              \/ (\A r \in players : r.key # k) /\ issued[p].idle + ActiveTicks > SessionTtl
            BY <2>1 DEF Fresh
        <3> QED BY <3>1, <3>2, <3>3
    <2> QED BY <2>2, <2>3
<1>9. ASSUME NEW p \in Players, ~PlayerInDoubt(p)'
      PROVE  issued'[p].key = issued[p].key \/ \A r \in players' : r.of = p => r.key = 0
    <2>1. CASE p \notin ended
        BY <1>3, <2>1
    <2>2. CASE p \in ended
        <3> SUFFICES ASSUME NEW r \in players', r.of = p PROVE r.key = 0
            OBVIOUS
        <3>1. PICK s \in players : r = F[s]
            BY <1>6
        <3>2. s.of = p /\ F[s].key \in {0, s.key}
            BY <1>1, <3>1 DEF Mapped
        <3> QED BY <1>1, <1>9, <2>2, <3>1, <3>2
    <2> QED BY <2>1, <2>2
<1> QED BY <1>1, <1>4, <1>5, <1>7, <1>8, <1>9, PlayersKeep

\* A use of a key that a row has starts the idle time of its session anew.
MayBeUsed(key) ==
    /\ issued' \in [Players -> [key : Nat, idle : Ages]]
    /\ \A p \in Players :
        /\ issued'[p].key = issued[p].key
        /\ \/ issued'[p].idle = issued[p].idle
           \/ issued'[p].idle = 0 /\ issued[p].key = key /\ \E r \in players : r.key = key

\* What may be used at worst covers a use of the key, and no use of it.
LEMMA UsedIs ==
    ASSUME PlayersInv, NEW key
    PROVE  /\ Used(key) => MayBeUsed(key)
           /\ UNCHANGED issued => MayBeUsed(key)
<1>1. issued \in [Players -> [key : Nat, idle : Ages]]
    BY DEF PlayersInv, PlayerTables
<1>2. ASSUME Used(key) PROVE MayBeUsed(key)
    <2>1. ASSUME NEW p \in Players
          PROVE  /\ issued'[p] \in [key : Nat, idle : Ages]
                 /\ issued'[p].key = issued[p].key
                 /\ \/ issued'[p].idle = issued[p].idle
                    \/ issued'[p].idle = 0 /\ issued[p].key = key /\ \E r \in players : r.key = key
        <3>1. issued[p] \in [key : Nat, idle : Ages] /\ 0 \in Ages
            BY <1>1, PlayersAssumption DEF Ages
        <3>2. /\ [issued[p] EXCEPT !.idle = 0] \in [key : Nat, idle : Ages]
              /\ [issued[p] EXCEPT !.idle = 0].key = issued[p].key /\ [issued[p] EXCEPT !.idle = 0].idle = 0
            BY <3>1
        <3>3. issued'[p] = IF issued[p].key = key /\ RowsWith(key) # {} THEN [issued[p] EXCEPT !.idle = 0] ELSE issued[p]
            BY <1>2 DEF Used
        <3>4. RowsWith(key) # {} => \E r \in players : r.key = key
            BY DEF RowsWith
        <3> QED BY <3>1, <3>2, <3>3, <3>4
    <2>2. issued' = [p \in Players |-> issued'[p]]
        BY <1>2 DEF Used
    <2> QED BY <2>1, <2>2 DEF MayBeUsed
<1>3. ASSUME UNCHANGED issued PROVE MayBeUsed(key)
    BY <1>1, <1>3 DEF MayBeUsed, Ages
<1> QED BY <1>2, <1>3

\* The rows with a key are touched, for a use or after one.
LEMMA TouchKeeps ==
    ASSUME PlayersInv, LoginsStay, PlayerRequests', NEW key, players' = Touched(RowsWith(key)), MayBeUsed(key),
           touches' \subseteq touches, touches \ {key} \subseteq touches', UNCHANGED <<active, marks, neglected>>
    PROVE  PlayersInv'
<1>1. PICK F : Mapped(F) /\ \A r \in players : /\ F[r].key = r.key
                                               /\ r \notin RowsWith(key) => F[r] = r
                                               /\ r \in RowsWith(key) => F[r].age = 0
                                               /\ F[r] \in players'
    BY TouchedMaps DEF PlayersInv, RowsWith
<1>2. PlayerTables /\ Owned /\ ActiveKept
    BY DEF PlayersInv
<1>3. \A r \in players : r \in RowsWith(key) <=> r.key = key
    BY DEF RowsWith
<1>4. SessionsStay
    BY DEF SessionsStay, Seen, MayBeUsed
<1>5. SessionTables'
    BY <1>2 DEF PlayerTables, SessionTables, MayBeUsed, Ages
<1>6. \A r \in players' : \E s \in players : r = F[s]
    BY <1>1 DEF Mapped
<1>7. \A a \in active : 0 + a.left <= ActiveTicks
    BY <1>2, PlayersAssumption DEF PlayerTables
<1>8. ActiveKept'
    <2> SUFFICES ASSUME NEW r \in players', r.key \notin {0} \cup touches' \cup neglected'
                 PROVE  /\ \A a \in active' : a.key = r.key => r.age + a.left <= ActiveTicks
                        /\ r.key \in marks' => r.age = 0
        BY DEF ActiveKept
    <2>1. PICK s \in players : r = F[s]
        BY <1>6
    <2>2. CASE s.key = key
        <3>1. r.age = 0
            BY <1>1, <1>3, <2>1, <2>2
        <3> QED BY <1>7, <3>1
    <2>3. CASE s.key # key
        <3>1. r = s
            BY <1>1, <1>3, <2>1, <2>3
        <3>2. r.key \notin touches
            BY <2>3, <3>1
        <3> QED BY <1>2, <3>1, <3>2 DEF ActiveKept
    <2> QED BY <2>2, <2>3
<1>9. ASSUME NEW p \in Players, ~PlayerInDoubt(p)' PROVE Fresh(p)'
    <2>1. Fresh(p)
        BY <1>9 DEF LoginsStay, PlayersInv, PlayerOK
    <2>2. issued'[p].key = issued[p].key /\ issued'[p].idle \in Nat /\ ActiveTicks \in Nat
        BY <1>2, PlayersAssumption DEF MayBeUsed, PlayerTables, Ages
    <2> SUFFICES ASSUME NEW k, k = issued[p].key, k # 0, k \notin neglected
                 PROVE  \/ \E r \in players' : r.of = p /\ r.key = k /\ (k \in touches' \/ r.age <= issued'[p].idle + ActiveTicks)
                        \/ (\A r \in players' : r.key # k) /\ issued'[p].idle + ActiveTicks > SessionTtl
        BY <2>2 DEF Fresh
    <2>3. CASE \E r \in players : r.of = p /\ r.key = k /\ (k \in touches \/ r.age <= issued[p].idle + ActiveTicks)
        <3>1. PICK r \in players : r.of = p /\ r.key = k /\ (k \in touches \/ r.age <= issued[p].idle + ActiveTicks)
            BY <2>3
        <3>2. F[r] \in players' /\ F[r].of = p /\ F[r].key = k
            BY <1>1, <3>1 DEF Mapped
        <3>3. CASE k = key
            <4>1. F[r].age = 0
                BY <1>1, <1>3, <3>1, <3>3
            <4>2. F[r].age <= issued'[p].idle + ActiveTicks
                BY <2>2, <4>1
            <4> QED BY <3>2, <4>2
        <3>4. CASE k # key
            <4>1. F[r] = r /\ issued'[p].idle = issued[p].idle
                BY <1>1, <1>3, <3>1, <3>4 DEF MayBeUsed
            <4> QED BY <3>1, <3>2, <3>4, <4>1
        <3> QED BY <3>3, <3>4
    <2>4. CASE (\A r \in players : r.key # k) /\ issued[p].idle + ActiveTicks > SessionTtl
        <3>1. \A s \in players : F[s].key # k
            BY <1>1, <2>4
        <3>2. issued'[p].idle = issued[p].idle
            BY <2>4 DEF MayBeUsed
        <3> QED BY <1>6, <2>4, <3>1, <3>2
    <2>5. \/ \E r \in players : r.of = p /\ r.key = k /\ (k \in touches \/ r.age <= issued[p].idle + ActiveTicks)
          \/ (\A r \in players : r.key # k) /\ issued[p].idle + ActiveTicks > SessionTtl
        BY <2>1 DEF Fresh
    <2> QED BY <2>3, <2>4, <2>5
<1>10. \A p \in Players : issued'[p].key = issued[p].key
    BY DEF MayBeUsed
<1> QED BY <1>1, <1>4, <1>5, <1>8, <1>9, <1>10, PlayersKeep

\* A use through an endpoint: the key is in Redis, or it and the touch of its row are on their way.
LEMMA ActiveUseKeeps ==
    ASSUME PlayersInv, LoginsStay, PlayerRequests', NEW key, key \in Nat, Seen(key), Used(key),
           IF \E a \in active : a.key = key THEN UNCHANGED <<touches, marks>>
           ELSE touches' = touches \cup {key} /\ marks' = marks \cup {key},
           UNCHANGED <<players, active, neglected>>
    PROVE  PlayersInv'
<1>1. PICK F : Mapped(F)
    BY SameMaps DEF PlayersInv
<1>2. PlayerTables /\ Owned /\ ActiveKept
    BY DEF PlayersInv
<1>3. MayBeUsed(key)
    BY UsedIs
<1>4. touches \subseteq touches' /\ touches' \subseteq touches \cup {key}
    OBVIOUS
<1>5. marks \subseteq marks' /\ marks' \subseteq marks \cup {key} /\ (key \in marks' => key \in marks \/ key \in touches')
    OBVIOUS
<1>6. SessionsStay
    BY <1>3, <1>4, <1>5 DEF SessionsStay, Seen, MayBeUsed
<1>7. SessionTables'
    BY <1>2, <1>3, <1>4, <1>5 DEF PlayerTables, SessionTables, MayBeUsed, Ages
<1>8. ActiveKept'
    <2> SUFFICES ASSUME NEW r \in players, r.key \notin {0} \cup touches' \cup neglected
                 PROVE  /\ \A a \in active : a.key = r.key => r.age + a.left <= ActiveTicks
                        /\ r.key \in marks' => r.age = 0
        BY DEF ActiveKept
    <2>1. r.key \in marks' => r.key \in marks
        BY <1>5
    <2>2. r.key \notin {0} \cup touches \cup neglected
        BY <1>4
    <2> QED BY <1>2, <2>1, <2>2 DEF ActiveKept
<1>9. ASSUME NEW p \in Players, ~PlayerInDoubt(p)' PROVE Fresh(p)'
    <2>1. Fresh(p)
        BY <1>9 DEF LoginsStay, PlayersInv, PlayerOK
    <2>2. issued'[p].key = issued[p].key
        BY <1>3 DEF MayBeUsed
    <2> SUFFICES ASSUME NEW k, k = issued[p].key, k # 0, k \notin neglected
                 PROVE  \/ \E r \in players : r.of = p /\ r.key = k /\ (k \in touches' \/ r.age <= issued'[p].idle + ActiveTicks)
                        \/ (\A r \in players : r.key # k) /\ issued'[p].idle + ActiveTicks > SessionTtl
        BY <2>2 DEF Fresh
    <2>3. \/ \E r \in players : r.of = p /\ r.key = k /\ (k \in touches \/ r.age <= issued[p].idle + ActiveTicks)
          \/ (\A r \in players : r.key # k) /\ issued[p].idle + ActiveTicks > SessionTtl
        BY <2>1 DEF Fresh
    <2>4. CASE issued'[p].idle = issued[p].idle
        BY <1>4, <2>3, <2>4
    <2>5. CASE issued'[p].idle = 0 /\ k = key /\ \E r \in players : r.key = key
        <3>1. PICK r \in players : r.key = k
            BY <2>5
        <3>2. r.of = p
            BY <1>2, <3>1 DEF Owned
        <3>3. CASE k \in touches'
            BY <3>1, <3>2, <3>3
        <3>4. CASE k \notin touches'
            <4>1. PICK a \in active : a.key = k
                BY <2>5, <3>4
            <4>2. k \notin {0} \cup touches \cup neglected
                BY <1>4, <3>4
            <4>3. r.age + a.left <= ActiveTicks
                BY <1>2, <3>1, <4>1, <4>2 DEF ActiveKept
            <4>4. r.age \in Nat /\ a.left \in Nat /\ ActiveTicks \in Nat
                BY <1>2, PlayersAssumption DEF PlayerTables, PlayerRow, Ages
            <4>5. r.age <= 0 + ActiveTicks
                BY <4>3, <4>4
            <4> QED BY <2>5, <3>1, <3>2, <4>5
        <3> QED BY <3>3, <3>4
    <2> QED BY <1>3, <2>4, <2>5 DEF MayBeUsed
<1>10. \A p \in Players : issued'[p].key = issued[p].key
    BY <1>3 DEF MayBeUsed
<1> QED BY <1>1, <1>6, <1>7, <1>8, <1>9, <1>10, PlayersKeep

\* The rows stay, and a touch is not forgotten without being counted as lost.
LEMMA KeysKeep ==
    ASSUME PlayersInv, LoginsStay, PlayerRequests', UNCHANGED <<players, issued>>, SessionTables', ActiveKept',
           touches \cup neglected \subseteq touches' \cup neglected', neglected \subseteq neglected',
           touches' \cup marks' \cup neglected' \subseteq touches \cup marks \cup neglected,
           \A a \in active' : Seen(a.key)
    PROVE  PlayersInv'
<1>1. PICK F : Mapped(F)
    BY SameMaps DEF PlayersInv
<1>2. SessionsStay
    BY DEF SessionsStay, Seen
<1>3. ASSUME NEW p \in Players, ~PlayerInDoubt(p)' PROVE Fresh(p)'
    <2>1. Fresh(p)
        BY <1>3 DEF LoginsStay, PlayersInv, PlayerOK
    <2>2. \A k : k \in touches => k \in touches' \/ k \in neglected'
        OBVIOUS
    <2> QED BY <2>1, <2>2 DEF Fresh
<1> QED BY <1>1, <1>2, <1>3, PlayersKeep

\* A step that leaves the requests alone.
LEMMA IdleStay ==
    ASSUME PlayersInv, UNCHANGED <<req, doubt>>, calls' \in Nat, calls' <= calls
    PROVE  LoginsStay /\ PlayerRequests'
<1>1. TypedRequests(PlayerWork, PlayerObjects)'
    BY DEF PlayersInv, PlayerRequests, TypedRequests, RequestsOf, Ours
<1>2. \A w \in Workers : Stays(PlayerWork, w)
    BY SameStays
<1> QED BY <1>1, <1>2, PlayersStay DEF PlayerInDoubt

\* The update and the key that an endpoint has sent.
LEMMA TouchArrives ==
    ASSUME PlayersInv, NEW key, TouchLater(key)
    PROVE  PlayersInv'
<1>1. LoginsStay /\ PlayerRequests'
    <2>1. UNCHANGED <<req, doubt, calls>> /\ calls \in Nat
        BY DEF TouchLater, PlayersInv, PlayerRequests, TypedRequests, RequestsOf
    <2> QED BY <2>1, IdleStay
<1>2. CASE players' = Touched(RowsWith(key)) /\ UNCHANGED neglected
    <2>1. MayBeUsed(key)
        BY UsedIs DEF TouchLater
    <2> QED BY <1>1, <1>2, <2>1, TouchKeeps DEF TouchLater
<1>3. CASE neglected' = neglected \cup {key} /\ UNCHANGED players
    <2>1. key \in touches /\ touches' = touches \ {key} /\ UNCHANGED <<active, marks, issued>>
        BY DEF TouchLater
    <2>2. SessionTables'
        BY <1>3, <2>1 DEF PlayersInv, PlayerTables, SessionTables, Ages
    <2>3. ActiveKept'
        BY <1>3, <2>1 DEF PlayersInv, ActiveKept
    <2>4. \A a \in active' : Seen(a.key)
        BY <2>1 DEF Seen
    <2> QED BY <1>1, <1>3, <2>1, <2>2, <2>3, <2>4, KeysKeep
<1> QED BY <1>2, <1>3 DEF TouchLater

\* A mark of activity that arrives late puts the key among the active ones for a while,
\* which says no more than that it was issued.
LEMMA MarkArrives ==
    ASSUME PlayersInv, NEW key, MarkLater(key)
    PROVE  PlayersInv'
<1>1. LoginsStay /\ PlayerRequests'
    <2>1. UNCHANGED <<req, doubt, calls>> /\ calls \in Nat
        BY DEF MarkLater, PlayersInv, PlayerRequests, TypedRequests, RequestsOf
    <2> QED BY <2>1, IdleStay
<1>2. key \in marks /\ marks' = marks \ {key} /\ UNCHANGED <<players, touches, issued, neglected>>
    BY DEF MarkLater
<1>3. PlayerTables /\ ActiveKept /\ ActiveTicks \in Nat \ {0}
    BY PlayersAssumption DEF PlayersInv
<1>4. CASE active' = {a \in active : a.key # key} \cup {[key |-> key, left |-> ActiveTicks]}
    <2>1. PICK new : new = [key |-> key, left |-> ActiveTicks]
        OBVIOUS
    <2>2. new \in [key : Nat, left : 1 .. ActiveTicks] /\ new.key = key /\ new.left = ActiveTicks
        BY <1>2, <1>3, <2>1 DEF PlayerTables
    <2>3. active' = {a \in active : a.key # key} \cup {new}
        BY <1>4, <2>1
    <2>4. SessionTables'
        <3>1. active' \subseteq [key : Nat, left : 1 .. ActiveTicks]
            BY <1>3, <2>2, <2>3 DEF PlayerTables
        <3>2. \A a \in active', b \in active' : a.key = b.key => a = b
            BY <1>3, <2>2, <2>3 DEF PlayerTables
        <3> QED BY <1>2, <1>3, <3>1, <3>2 DEF PlayerTables, SessionTables, Ages
    <2>5. ActiveKept'
        <3> SUFFICES ASSUME NEW r \in players, r.key \notin {0} \cup touches \cup neglected
                     PROVE  /\ \A a \in active' : a.key = r.key => r.age + a.left <= ActiveTicks
                            /\ r.key \in marks' => r.age = 0
            BY <1>2 DEF ActiveKept
        <3>1. /\ \A a \in active : a.key = r.key => r.age + a.left <= ActiveTicks
              /\ r.key \in marks => r.age = 0
            BY <1>3 DEF ActiveKept
        <3>2. key = r.key => r.age + new.left <= ActiveTicks
            BY <1>2, <1>3, <2>2, <3>1
        <3> QED BY <1>2, <2>2, <2>3, <3>1, <3>2
    <2>6. \A a \in active' : Seen(a.key)
        BY <1>2, <2>2, <2>3 DEF Seen
    <2> QED BY <1>1, <1>2, <2>4, <2>5, <2>6, KeysKeep
<1>5. CASE UNCHANGED active
    <2>1. SessionTables' /\ ActiveKept'
        BY <1>2, <1>3, <1>5 DEF PlayerTables, SessionTables, ActiveKept, Ages
    <2>2. \A a \in active' : Seen(a.key)
        BY <1>5 DEF Seen
    <2> QED BY <1>1, <1>2, <2>1, <2>2, KeysKeep
<1> QED BY <1>4, <1>5 DEF MarkLater

\* A stop of the worker ends the touches, a loss of Redis' memory its keys.
LEMMA PlayersRestart ==
    ASSUME PlayersInv, Restart
    PROVE  PlayersInv'
<1>1. TypedRequests(PlayerWork, PlayerObjects)
    BY DEF PlayersInv, PlayerRequests
<1>2. /\ TypedRequests(PlayerWork, PlayerObjects)' /\ doubt' = (doubt \cup Cut) \ MonObjects /\ calls' = calls
      /\ \A w \in Workers : ~Ours(PlayerWork, w)'
    <2>1. TokenObjects \cap PlayerObjects = {} /\ MonObjects \cap PlayerObjects = {}
        BY DEF TokenObjects, TokenObject, MonObjects, MonObject, PlayerObjects, PlayerObject
    <2> QED BY <1>1, <2>1, RestartStays DEF Ours, PlayerWork
<1>3. ASSUME NEW p \in Players, PlayerInDoubt(p) PROVE PlayerInDoubt(p)'
    BY <1>2, <1>3 DEF PlayerInDoubt, PlayerObject, MonObjects, MonObject
<1>4. calls' <= calls
    BY <1>1, <1>2 DEF TypedRequests, RequestsOf
<1>5. LoginsStay /\ PlayerRequests'
    <2>1. \A w \in Workers, p \in Players : ~LogsIn(w, p)'
        BY <1>2 DEF LogsIn, Ours, PlayerWork
    <2> QED BY <1>2, <1>3, <1>4, <2>1, PlayersStay
<1>6. /\ UNCHANGED <<players, active, issued>> /\ touches' = {} /\ marks' = {}
      /\ neglected' = neglected \cup touches
    BY DEF Restart, TouchesEnd
<1>7. SessionTables' /\ ActiveKept' /\ \A a \in active' : Seen(a.key)
    BY <1>6 DEF PlayersInv, PlayerTables, SessionTables, ActiveKept, Seen, Ages
<1> QED BY <1>5, <1>6, <1>7, KeysKeep

\* Redis comes back empty: no key counts as active any more, and no row has changed.
LEMMA PlayersLost ==
    ASSUME PlayersInv, RedisLost
    PROVE  PlayersInv'
<1>1. TypedRequests(PlayerWork, PlayerObjects)
    BY DEF PlayersInv, PlayerRequests
<1>2. /\ TypedRequests(PlayerWork, PlayerObjects)'
      /\ \A w \in Workers : /\ Stays(PlayerWork, w)
                            /\ req[w] # NoReq => req'[w].sure = req[w].sure \ (TokenObjects \cup {SwitchObject})
      /\ \A o \in doubt : o \in doubt'
    BY <1>1, LostStays
<1>3. calls' <= calls
    <2>1. calls' = calls /\ calls \in Nat
        BY <1>1 DEF RedisLost, TypedRequests, RequestsOf
    <2> QED BY <2>1
<1>4. \A w \in Workers, p \in Players : (LogsIn(w, p)' /\ PlayerObject(p) \in req'[w].sure) => PlayerObject(p) \in req[w].sure
    <2> SUFFICES ASSUME NEW w \in Workers, NEW p \in Players, LogsIn(w, p)', PlayerObject(p) \in req'[w].sure
                 PROVE  PlayerObject(p) \in req[w].sure
        OBVIOUS
    <2>1. req[w] # NoReq
        BY <1>2, PlayerStays DEF LogsIn
    <2> QED BY <1>2, <2>1
<1>5. LoginsStay /\ PlayerRequests'
    BY <1>2, <1>3, <1>4, PlayersStay DEF PlayerInDoubt
<1>6. UNCHANGED <<players, touches, marks, issued, neglected>> /\ active' = {}
    BY DEF RedisLost, ActiveLost
<1>7. SessionTables' /\ ActiveKept' /\ \A a \in active' : Seen(a.key)
    BY <1>6 DEF PlayersInv, PlayerTables, SessionTables, ActiveKept, Ages
<1> QED BY <1>5, <1>6, <1>7, KeysKeep

\* Older by a tick, up to one more than a session lives.
LEMMA OlderIs ==
    ASSUME NEW n \in Ages
    PROVE  /\ Older(n) \in Ages /\ n <= Older(n) /\ Older(n) <= n + 1
           /\ \A m \in Ages, d \in Nat : n <= m + d => Older(n) <= Older(m) + d
BY PlayersAssumption DEF Older, Ages

\* Time passes.
LEMMA TickKeeps ==
    ASSUME PlayersInv, PlayerTick
    PROVE  PlayersInv'
<1>1. PlayerTables /\ ActiveKept /\ ActiveTicks \in Nat
    BY PlayersAssumption DEF PlayersInv
<1>2. LoginsStay /\ PlayerRequests'
    <2>1. UNCHANGED <<req, doubt, calls>> /\ calls \in Nat
        BY DEF PlayerTick, PlayersInv, PlayerRequests, TypedRequests, RequestsOf
    <2> QED BY <2>1, IdleStay
<1> DEFINE F == [r \in players |-> [r EXCEPT !.age = Older(@)]]
<1>3. ASSUME NEW r \in players
      PROVE  F[r] \in PlayerRow /\ F[r].of = r.of /\ F[r].key = r.key /\ F[r].age = Older(r.age) /\ F[r] \in players'
    <2>1. r \in PlayerRow
        BY <1>1 DEF PlayerTables
    <2>2. F[r] = [r EXCEPT !.age = Older(r.age)]
        OBVIOUS
    <2>3. Older(r.age) \in Ages
        BY <2>1, OlderIs DEF PlayerRow
    <2>4. F[r] \in players'
        BY DEF PlayerTick
    <2> QED BY <2>1, <2>2, <2>3, <2>4 DEF PlayerRow
<1>4. players' = {F[r] : r \in players} /\ F \in [players -> PlayerRow]
    BY <1>3 DEF PlayerTick
<1> HIDE DEF F
<1>5. Mapped(F) /\ \A r \in players' : \E s \in players : r = F[s]
    BY <1>3, <1>4 DEF Mapped
<1>6. ASSUME NEW p \in Players
      PROVE  /\ issued'[p] \in [key : Nat, idle : Ages] /\ issued'[p].key = issued[p].key
             /\ issued[p].key # 0 => issued'[p].idle = Older(issued[p].idle)
    <2>1. issued[p] \in [key : Nat, idle : Ages]
        BY <1>1 DEF PlayerTables
    <2>2. Older(issued[p].idle) \in Ages
        BY <2>1, OlderIs
    <2>3. issued'[p] = IF issued[p].key = 0 THEN issued[p] ELSE [issued[p] EXCEPT !.idle = Older(issued[p].idle)]
        BY DEF PlayerTick
    <2> QED BY <2>1, <2>2, <2>3
<1>7. ASSUME NEW a \in active'
      PROVE  \E b \in active : a.key = b.key /\ a.left = b.left - 1 /\ b.left > 1 /\ a = [b EXCEPT !.left = b.left - 1]
    <2>1. PICK b \in {b \in active : b.left > 1} : a = [b EXCEPT !.left = @ - 1]
        BY DEF PlayerTick
    <2>2. b \in [key : Nat, left : 1 .. ActiveTicks]
        BY <1>1 DEF PlayerTables
    <2> QED BY <2>1, <2>2
<1>8. touches = {} /\ marks = {} /\ touches' = {} /\ marks' = {} /\ neglected' = neglected
    BY DEF PlayerTick
<1>9. SessionTables'
    <2>1. ASSUME NEW a \in active' PROVE a \in [key : Nat, left : 1 .. ActiveTicks]
        <3>1. PICK b \in active : a.left = b.left - 1 /\ b.left > 1 /\ a = [b EXCEPT !.left = b.left - 1]
            BY <1>7
        <3>2. b \in [key : Nat, left : 1 .. ActiveTicks]
            BY <1>1 DEF PlayerTables
        <3>3. b.left - 1 \in 1 .. ActiveTicks
            BY <1>1, <3>1, <3>2
        <3> QED BY <3>1, <3>2, <3>3
    <2>2. ASSUME NEW a \in active', NEW b \in active', a.key = b.key PROVE a = b
        <3>1. PICK c \in active : a.key = c.key /\ a = [c EXCEPT !.left = c.left - 1]
            BY <1>7
        <3>2. PICK d \in active : b.key = d.key /\ b = [d EXCEPT !.left = d.left - 1]
            BY <1>7
        <3>3. c = d
            BY <1>1, <2>2, <3>1, <3>2 DEF PlayerTables
        <3> QED BY <3>1, <3>2, <3>3
    <2>3. issued' \in [Players -> [key : Nat, idle : Ages]]
        <3>1. issued' = [p \in Players |-> issued'[p]]
            BY DEF PlayerTick
        <3> QED BY <1>6, <3>1
    <2> QED BY <1>1, <1>8, <2>1, <2>2, <2>3 DEF SessionTables, PlayerTables, Ages
<1>10. SessionsStay
    <2>1. ASSUME NEW a \in active' PROVE Seen(a.key)
        <3>1. PICK b \in active : a.key = b.key
            BY <1>7
        <3> QED BY <3>1 DEF Seen
    <2> QED BY <1>6, <1>8, <2>1 DEF SessionsStay, Seen
<1>11. ActiveKept'
    <2> SUFFICES ASSUME NEW r \in players', r.key \notin {0} \cup touches \cup neglected, NEW a \in active', a.key = r.key
                 PROVE  r.age + a.left <= ActiveTicks
        BY <1>8 DEF ActiveKept
    <2>1. PICK s \in players : r = F[s]
        BY <1>5
    <2>2. PICK b \in active : a.key = b.key /\ a.left = b.left - 1
        BY <1>7
    <2>3. s \in PlayerRow /\ b \in [key : Nat, left : 1 .. ActiveTicks]
        BY <1>1 DEF PlayerTables
    <2>4. s.key = r.key /\ r.age = Older(s.age)
        BY <1>3, <2>1
    <2>5. s.age + b.left <= ActiveTicks
        BY <1>1, <2>2, <2>4 DEF ActiveKept
    <2>6. s.age \in Ages /\ Older(s.age) <= s.age + 1 /\ Older(s.age) \in Ages
        BY <2>3, OlderIs DEF PlayerRow
    <2> QED BY <1>1, <2>2, <2>3, <2>4, <2>5, <2>6 DEF Ages
<1>12. ASSUME NEW p \in Players, ~PlayerInDoubt(p)' PROVE Fresh(p)'
    <2>1. Fresh(p)
        BY <1>2, <1>12 DEF LoginsStay, PlayersInv, PlayerOK
    <2> SUFFICES ASSUME NEW k, k = issued[p].key, k # 0, k \notin neglected
                 PROVE  \/ \E r \in players' : r.of = p /\ r.key = k /\ (k \in touches' \/ r.age <= issued'[p].idle + ActiveTicks)
                        \/ (\A r \in players' : r.key # k) /\ issued'[p].idle + ActiveTicks > SessionTtl
        BY <1>6, <1>8 DEF Fresh
    <2>2. issued[p].idle \in Ages /\ issued'[p].idle = Older(issued[p].idle) /\ SessionTtl \in Nat
        BY <1>1, <1>6, PlayersAssumption DEF PlayerTables
    <2>3. CASE \E r \in players : r.of = p /\ r.key = k /\ r.age <= issued[p].idle + ActiveTicks
        <3>1. PICK r \in players : r.of = p /\ r.key = k /\ r.age <= issued[p].idle + ActiveTicks
            BY <2>3
        <3>2. r.age \in Ages
            BY <1>1 DEF PlayerTables, PlayerRow
        <3>3. Older(r.age) <= Older(issued[p].idle) + ActiveTicks
            BY <1>1, <2>2, <3>1, <3>2, OlderIs
        <3> QED BY <1>3, <2>2, <3>1, <3>3
    <2>4. CASE (\A r \in players : r.key # k) /\ issued[p].idle + ActiveTicks > SessionTtl
        <3>1. \A r \in players' : r.key # k
            BY <1>3, <1>5, <2>4
        <3>2. issued[p].idle <= Older(issued[p].idle) /\ Older(issued[p].idle) \in Ages
            BY <2>2, OlderIs
        <3>3. issued'[p].idle + ActiveTicks > SessionTtl
            BY <1>1, <2>2, <2>4, <3>2 DEF Ages
        <3> QED BY <3>1, <3>3
    <2>5. \/ \E r \in players : r.of = p /\ r.key = k /\ r.age <= issued[p].idle + ActiveTicks
          \/ (\A r \in players : r.key # k) /\ issued[p].idle + ActiveTicks > SessionTtl
        BY <1>8, <2>1 DEF Fresh
    <2> QED BY <2>3, <2>4, <2>5
<1> QED BY <1>2, <1>5, <1>6, <1>9, <1>10, <1>11, <1>12, PlayersKeep

\* A statement of the panel or of a logout: the keys of some rows go with their sessions,
LEMMA ClearStays ==
    ASSUME PlayersInv, NEW op, NEW some, NEW ended, Clear(op, some, ended)
    PROVE  /\ LoginsStay /\ PlayerRequests' /\ players' = Cleared(some)
           /\ issued' = [p \in Players |-> IF p \in ended THEN NoLogin ELSE issued[p]]
           /\ UNCHANGED <<active, touches, marks>>
<1>1. UNCHANGED <<req, doubt>> /\ calls' = calls - 1 /\ calls > 0 /\ calls \in Nat
    BY DEF Clear, PlayersInv, PlayerRequests, TypedRequests, RequestsOf
<1>2. calls' \in Nat /\ calls' <= calls
    BY <1>1
<1> QED BY <1>1, <1>2, IdleStay DEF Clear

\* Each request that clears keys, of one row or of many, takes the logins it ends off the
\* record.
LEMMA ClearKeeps ==
    ASSUME PlayersInv, LogOut \/ RevokeSession \/ RevokeAllSessions \/ CleanExpiredSessions
    PROVE  PlayersInv'
<1>1. PlayerTables
    BY DEF PlayersInv
<1>2. CASE LogOut
    <2>1. PICK r \in players : r.key # 0 /\ Clear("log out", RowsWith(r.key), {s.of : s \in RowsWith(r.key)}) /\ UNCHANGED neglected
        BY <1>2 DEF LogOut
    <2>2. PICK op, some, ended : op = "log out" /\ some = RowsWith(r.key) /\ ended = {s.of : s \in RowsWith(r.key)}
        OBVIOUS
    <2>3. /\ LoginsStay /\ PlayerRequests' /\ players' = Cleared(some)
          /\ issued' = [p \in Players |-> IF p \in ended THEN NoLogin ELSE issued[p]]
          /\ UNCHANGED <<active, touches, marks>>
        <3>1. Clear(op, some, ended)
            BY <2>1, <2>2
        <3> QED BY ONLY PlayersInv, <3>1, ClearStays
    <2>4. some \subseteq players /\ ended \subseteq Players /\ \A s \in players : s \in some => s.of \in ended
        BY <1>1, <2>2 DEF RowsWith, PlayerTables, PlayerRow
    <2>5. ASSUME NEW p \in ended, ~PlayerInDoubt(p)', NEW s \in players, s.of = p PROVE s \in some
        <3>1. PICK t \in players : t \in some /\ t.of = p
            BY <2>2 DEF RowsWith
        <3>2. One(p)
            BY <2>3, <2>4, <2>5 DEF LoginsStay, PlayersInv, PlayerOK
        <3> QED BY <2>5, <3>1, <3>2 DEF One
    <2> QED BY <2>1, <2>3, <2>4, <2>5, EndKeeps
<1>3. CASE RevokeSession
    <2>1. PICK p \in Players : Clear("revoke session", RowsOf(p), {p}) /\ UNCHANGED neglected
        BY <1>3 DEF RevokeSession
    <2>2. PICK op, some, ended : op = "revoke session" /\ some = RowsOf(p) /\ ended = {p}
        OBVIOUS
    <2>3. /\ LoginsStay /\ PlayerRequests' /\ players' = Cleared(some)
          /\ issued' = [q \in Players |-> IF q \in ended THEN NoLogin ELSE issued[q]]
          /\ UNCHANGED <<active, touches, marks>>
        <3>1. Clear(op, some, ended)
            BY <2>1, <2>2
        <3> QED BY ONLY PlayersInv, <3>1, ClearStays
    <2>4. /\ some \subseteq players /\ ended \subseteq Players /\ \A s \in players : s \in some => s.of \in ended
          /\ \A q \in ended, s \in players : s.of = q => s \in some
        BY <2>2 DEF RowsOf
    <2> QED BY <2>1, <2>3, <2>4, EndKeeps
<1>4. CASE RevokeAllSessions
    <2>1. Clear("revoke all", players, Players) /\ UNCHANGED neglected
        BY <1>4 DEF RevokeAllSessions
    <2>2. PICK op, some, ended : op = "revoke all" /\ some = players /\ ended = Players
        OBVIOUS
    <2>3. /\ LoginsStay /\ PlayerRequests' /\ players' = Cleared(some)
          /\ issued' = [q \in Players |-> IF q \in ended THEN NoLogin ELSE issued[q]]
          /\ UNCHANGED <<active, touches, marks>>
        <3>1. Clear(op, some, ended)
            BY <2>1, <2>2
        <3> QED BY ONLY PlayersInv, <3>1, ClearStays
    <2>4. /\ some \subseteq players /\ ended \subseteq Players /\ \A s \in players : s \in some => s.of \in ended
          /\ \A q \in ended, s \in players : s.of = q => s \in some
        BY <1>1, <2>2 DEF PlayerTables, PlayerRow
    <2> QED BY <2>1, <2>3, <2>4, EndKeeps
<1>5. CASE CleanExpiredSessions
    <2>1. PICK some : some = {r \in players : r.key # 0 /\ Stale(r)}
        OBVIOUS
    <2>2. Clear("clean sessions", some, {}) /\ neglected' = neglected \cup Overtaken(some) /\ some \subseteq players
        BY <1>5, <2>1 DEF CleanExpiredSessions
    <2>3. PICK op, ended : op = "clean sessions" /\ ended = {}
        OBVIOUS
    <2>4. /\ LoginsStay /\ PlayerRequests' /\ players' = Cleared(some)
          /\ issued' = [q \in Players |-> IF q \in ended THEN NoLogin ELSE issued[q]]
          /\ UNCHANGED <<active, touches, marks>>
        <3>1. Clear(op, some, ended)
            BY <2>2, <2>3
        <3> QED BY ONLY PlayersInv, <3>1, ClearStays
    <2>5. issued' = issued
        BY <1>1, <2>3, <2>4 DEF PlayerTables
    <2> QED BY <2>2, <2>4, <2>5, ExpiryKeeps
<1> QED BY <1>2, <1>3, <1>4, <1>5

\* The schema goes, with the table of the players.
LEMMA PlayersGoneKeeps ==
    ASSUME PlayersInv, Aside(PlayerWork, PlayerObjects), PlayersGone
    PROVE  PlayersInv'
<1>1. LoginsStay /\ PlayerRequests'
    BY PlayersAsideStay
<1>2. PICK F : Mapped(F)
    BY SameMaps DEF PlayersInv, PlayersGone
<1>3. players' = {} /\ UNCHANGED <<active, touches, marks, neglected>> /\ \A p \in Players : issued'[p].key = 0
    BY DEF PlayersGone, NoLogins, NoLogin
<1>4. SessionsStay
    BY <1>3 DEF SessionsStay, Seen
<1>5. SessionTables'
    <2>1. NoLogin \in [key : Nat, idle : Ages]
        BY PlayersAssumption DEF NoLogin, Ages
    <2>2. issued' \in [Players -> [key : Nat, idle : Ages]]
        BY <2>1 DEF PlayersGone, NoLogins
    <2> QED BY <1>3, <2>2 DEF PlayersInv, PlayerTables, SessionTables, Ages
<1>6. ActiveKept' /\ \A p \in Players : Fresh(p)'
    BY <1>3 DEF ActiveKept, Fresh
<1> QED BY <1>1, <1>2, <1>3, <1>4, <1>5, <1>6, PlayersKeep

\* A login arrives, with a key that nobody has seen; logins of the player that it meets put
\* the player in doubt.
LEMMA LoginArrives ==
    ASSUME PlayersInv, NEW h \in Workers, Login(h)
    PROVE  PlayersInv'
<1>1. TypedRequests(PlayerWork, PlayerObjects) /\ RequestsOf(PlayerWork, PlayerObjects) /\ calls \in Nat
    BY DEF PlayersInv, PlayerRequests, TypedRequests, RequestsOf
<1>2. PICK p \in Players : Called(h, "login", {PlayerObject(p)}, "find", [p |-> p, key |-> calls]) /\ UNCHANGED playerVars
    BY DEF Login, Begin
<1>3. PICK op, on, at, data : op = "login" /\ on = {PlayerObject(p)} /\ at = "find" /\ data = [p |-> p, key |-> calls]
    OBVIOUS
<1>4. op \in PlayerWork /\ op \in Operations /\ on \subseteq Objects /\ at \in Awaits
    <2>1. PlayerObject(p) \in Objects
        BY DEF Objects, PlayerObjects
    <2> QED BY <1>3, <2>1 DEF PlayerWork, Operations, Awaits
<1>5. data \in [p : Players, key : Nat] /\ data.p = p /\ data.key = calls
    BY <1>1, <1>3
<1>6. data \in RequestData
    BY <1>5 DEF RequestData
<1>7. Arrived(h, op, on, at, data)
    BY <1>1, <1>2, <1>3, CalledArrives
<1>8. /\ TypedRequests(PlayerWork, PlayerObjects)'
      /\ ~Ours(PlayerWork, h) /\ Ours(PlayerWork, h)'
      /\ req'[h].op = op /\ req'[h].on = on /\ req'[h].at = at /\ req'[h].data = data
      /\ req'[h].sure = on \ Hit(op, on)
      /\ \A w \in Workers \ {h} : Stays(PlayerWork, w) /\ SureOf(w, op, on)
    BY ONLY <1>1, h \in Workers, <1>4, <1>6, <1>7, ArrivedStays
<1>9. UNCHANGED <<players, active, touches, marks, issued, neglected>> /\ calls' = calls - 1 /\ calls > 0
      /\ doubt' = doubt \cup Hit(op, on)
    BY <1>2, <1>7 DEF playerVars, Arrived
<1>10. PlayerRequest(req'[h]) /\ ~Uses(h)' /\ ~Uses(h) /\ LogsIn(h, p)' /\ (\A q : LogsIn(h, q)' => q = p) /\ \A q : ~LogsIn(h, q)
    <2>1. PlayerRequest(req'[h])
        BY <1>3, <1>5, <1>8 DEF PlayerRequest
    <2>2. req'[h] # NoReq
        BY <1>8 DEF Ours
    <2>3. ~Uses(h)' /\ LogsIn(h, p)' /\ \A q : LogsIn(h, q)' => q = p
        BY <1>3, <1>5, <1>8, <2>2 DEF Uses, LogsIn
    <2>4. req[h] = NoReq
        BY <1>7 DEF Arrived
    <2> QED BY <2>1, <2>3, <2>4 DEF Uses, LogsIn
<1>11. ASSUME NEW w \in Workers, w # h
       PROVE  /\ \A q : LogsIn(w, q)' <=> LogsIn(w, q)
              /\ Uses(w)' <=> Uses(w)
              /\ Ours(PlayerWork, w)' <=> Ours(PlayerWork, w)
              /\ Ours(PlayerWork, w) => req'[w].at = req[w].at /\ req'[w].data = req[w].data /\ PlayerRequest(req'[w])
              /\ Uses(w) \/ (\E q : LogsIn(w, q)) => Ours(PlayerWork, w)
    BY <1>8, <1>11, PlayerStays DEF PlayersInv, PlayerRequests, LogsIn, Uses, Ours, PlayerWork
<1>12. PlayerRequests'
    BY <1>8, <1>10, <1>11 DEF PlayerRequests
<1>13. PlayerTables' /\ Owned' /\ ActiveKept'
    BY <1>9 DEF PlayersInv, PlayerTables, Owned, ActiveKept, PlayerRow, Ages
<1>14. ASSUME NEW k, Seen(k)' PROVE Seen(k)
    <2>1. ASSUME NEW w \in Workers, Uses(w)', req'[w].data.key = k PROVE Seen(k)
        BY <1>10, <1>11, <2>1 DEF Seen
    <2> QED BY <1>9, <1>14, <2>1 DEF Seen
<1>15. ASSUME NEW k, Seen(k) PROVE k \in Nat /\ (k = 0 \/ k > calls') /\ k # calls
    <2>1. k \in Nat /\ (k = 0 \/ k > calls)
        BY <1>15 DEF PlayersInv, KeysSeen
    <2> QED BY <1>1, <1>9, <2>1
<1>16. ASSUME NEW w \in Workers \ {h}, NEW q \in Players, LogsIn(w, q)'
       PROVE  /\ req'[w].data.key = req[w].data.key /\ LogsIn(w, q)
              /\ req[w].data.key \in Nat /\ req[w].data.key > calls /\ ~Seen(req[w].data.key)
              /\ req[w].data.key > calls' /\ req[w].data.key # calls
    <2>1. req'[w].data.key = req[w].data.key /\ LogsIn(w, q)
        BY <1>11, <1>16
    <2>2. req[w].data.key \in Nat /\ req[w].data.key > calls /\ ~Seen(req[w].data.key)
        BY <2>1 DEF PlayersInv, KeysSeen
    <2> QED BY <1>1, <1>9, <2>1, <2>2
<1>17. KeysSeen'
    <2>1. \A k : Seen(k)' => k \in Nat /\ (k = 0 \/ k > calls')
        BY <1>14, <1>15
    <2>2. ASSUME NEW w \in Workers, NEW q \in Players, LogsIn(w, q)', NEW k, k = req'[w].data.key
          PROVE  k \in Nat /\ k > calls' /\ ~Seen(k)'
        <3>1. CASE w = h
            BY <1>1, <1>5, <1>8, <1>9, <1>14, <1>15, <2>2, <3>1
        <3>2. CASE w # h
            BY <1>14, <1>16, <2>2, <3>2
        <3> QED BY <3>1, <3>2
    <2>3. ASSUME NEW w \in Workers, NEW q \in Players, LogsIn(w, q)',
                 NEW v \in Workers, NEW s \in Players, LogsIn(v, s)', v # w
          PROVE  req'[v].data.key # req'[w].data.key
        <3>1. CASE w = h
            BY <1>5, <1>8, <1>16, <2>3, <3>1
        <3>2. CASE v = h
            BY <1>5, <1>8, <1>16, <2>3, <3>2
        <3>3. CASE w # h /\ v # h
            BY <1>16, <2>3, <3>3 DEF PlayersInv, KeysSeen
        <3> QED BY <3>1, <3>2, <3>3
    <2> QED BY <2>1, <2>2, <2>3 DEF KeysSeen
<1>18. ASSUME NEW w \in Workers \ {h}, LogsIn(w, p)
       PROVE  PlayerObject(p) \in Hit(op, on) /\ PlayerObject(p) \notin req'[w].sure
    <2>1. Ours(PlayerWork, w) /\ req[w].op = "login" /\ req[w] # NoReq /\ req[w].data.p = p
        BY <1>18 DEF LogsIn, Ours, PlayerWork
    <2>2. PlayerObject(p) \in req[w].on
        BY <2>1 DEF PlayersInv, PlayerRequests, PlayerRequest
    <2>3. {req[w].op, op} \in Conflicts
        <3>1. {req[w].op, op} = {"login"}
            BY <1>3, <2>1
        <3> QED BY <3>1 DEF Conflicts
    <2>4. PlayerObject(p) \in Hit(op, on)
        BY <1>3, <2>1, <2>2, <2>3 DEF Hit, Disturbed, Busy
    <2>5. req'[w].sure = req[w].sure \ on
        BY <1>8, <2>1, <2>3 DEF SureOf
    <2> QED BY <1>3, <2>4, <2>5
<1>19. \A q \in Players : PlayerInDoubt(q) => PlayerInDoubt(q)'
    BY <1>9 DEF PlayerInDoubt
<1>20. LoginsOK'
    <2> SUFFICES ASSUME NEW w \in Workers, NEW q \in Players, LogsIn(w, q)' PROVE LoginOK(w, q)'
        BY DEF LoginsOK, LoginOK
    <2>1. CASE w = h
        <3>1. q = p /\ req'[w].sure = on \ Hit(op, on) /\ req'[w].at = "find"
            BY <1>3, <1>8, <1>10, <2>1
        <3>2. ASSUME NEW v \in Workers, LogsIn(v, q)', v # w PROVE PlayerInDoubt(q)' /\ PlayerObject(q) \notin req'[w].sure
            <4>1. PlayerObject(p) \in Hit(op, on)
                BY <1>11, <1>18, <2>1, <3>1, <3>2
            <4> QED BY <1>9, <3>1, <4>1 DEF PlayerInDoubt
        <3> QED BY <3>1, <3>2 DEF LoginOK
    <2>2. CASE w # h
        <3>1. LogsIn(w, q) /\ LoginOK(w, q) /\ req'[w].at = req[w].at /\ req'[w].sure \subseteq req[w].sure
            <4>1. LogsIn(w, q) /\ req'[w].at = req[w].at
                BY <1>11, <2>2
            <4>2. req'[w].sure \subseteq req[w].sure
                BY <1>8, <2>2 DEF SureOf
            <4> QED BY <4>1, <4>2 DEF PlayersInv, LoginsOK
        <3>2. ASSUME NEW v \in Workers, LogsIn(v, q)', v # w PROVE PlayerInDoubt(q)' /\ PlayerObject(q) \notin req'[w].sure
            <4>1. CASE v = h
                <5>1. q = p
                    BY <1>10, <3>2, <4>1
                <5> QED BY <1>9, <1>18, <2>2, <3>1, <5>1 DEF PlayerInDoubt
            <4>2. CASE v # h
                <5>1. LogsIn(v, q)
                    BY <1>11, <3>2, <4>2
                <5> QED BY <1>19, <3>1, <3>2, <5>1 DEF LoginOK
            <4> QED BY <4>1, <4>2
        <3>3. (req'[w].at = "insert" /\ ~PlayerInDoubt(q)') => \A r \in players' : r.of # q
            BY <1>9, <1>19, <3>1 DEF LoginOK
        <3> QED BY <3>2, <3>3 DEF LoginOK
    <2> QED BY <2>1, <2>2
<1>21. \A q \in Players : PlayerOK(q)'
    BY <1>9, <1>19 DEF PlayersInv, PlayerOK, One, Fresh
<1> QED BY <1>12, <1>13, <1>17, <1>20, <1>21 DEF PlayersInv

\* A login has written: its player's rows are as they were or have the new key, which no
\* other row, session or request has; the other players' rows are as they were.
RowWritten(h, p) ==
    /\ IsFiniteSet(players')
    /\ \A r \in players' : r \in players \/ (r \in PlayerRow /\ r.of = p /\ r.key = req[h].data.key /\ r.age = 0)
    /\ \A r \in players : r.of # p => r \in players'
    /\ \A q \in Players : issued'[q] = issued[q] \/ (q = p /\ issued'[q] = [key |-> req[h].data.key, idle |-> 0])
    /\ issued' = [q \in Players |-> issued'[q]]
    /\ UNCHANGED <<active, touches, marks, neglected>>

\* A login writes its row: no other row of the player is left, or the player is in doubt.
LEMMA RowWrittenKeeps ==
    ASSUME PlayersInv, NEW h \in Workers, NEW p \in Players, LogsIn(h, p), RowWritten(h, p),
           Put(h, NoReq), calls' = calls,
           \A q \in Players : q # p => (PlayerInDoubt(q)' <=> PlayerInDoubt(q)),
           \A v \in Workers \ {h} : LogsIn(v, p) => PlayerInDoubt(p)',
           ~PlayerInDoubt(p)' => One(p)' /\ Fresh(p)'
    PROVE  PlayersInv'
<1>1. PICK k : k = req[h].data.key
    OBVIOUS
<1>2. k \in Nat /\ k > calls /\ k # 0 /\ ~Seen(k) /\ calls \in Nat
    BY <1>1 DEF PlayersInv, KeysSeen, PlayerRequests, TypedRequests, RequestsOf
<1>3. /\ \A r \in players' : r \in players \/ (r \in PlayerRow /\ r.of = p /\ r.key = k /\ r.age = 0)
      /\ \A r \in players : r.of # p => r \in players'
      /\ UNCHANGED <<active, touches, marks, neglected>>
    BY <1>1 DEF RowWritten
<1>4. ASSUME NEW q \in Players
      PROVE  /\ issued'[q] \in [key : Nat, idle : Ages]
             /\ issued'[q] = issued[q] \/ (q = p /\ issued'[q].key = k /\ issued'[q].idle = 0)
    <2>1. issued[q] \in [key : Nat, idle : Ages] /\ 0 \in Ages
        BY PlayersAssumption DEF PlayersInv, PlayerTables, Ages
    <2>2. CASE issued'[q] = issued[q]
        BY <2>1, <2>2
    <2>3. CASE q = p /\ issued'[q] = [key |-> k, idle |-> 0]
        BY <1>2, <2>1, <2>3
    <2> QED BY <1>1, <2>2, <2>3 DEF RowWritten
<1>5. TypedRequests(PlayerWork, PlayerObjects)' /\ req'[h] = NoReq /\ \A w \in Workers \ {h} : req'[w] = req[w]
    BY EndedStays DEF PlayersInv, PlayerRequests
<1>6. \A w \in Workers : /\ \A q : LogsIn(w, q)' => w # h /\ LogsIn(w, q) /\ req'[w] = req[w]
                         /\ Uses(w)' => Uses(w) /\ req'[w] = req[w]
                         /\ Ours(PlayerWork, w)' => Ours(PlayerWork, w) /\ req'[w] = req[w]
    BY <1>5 DEF LogsIn, Uses, Ours
<1>7. PlayerRequests'
    BY <1>5, <1>6 DEF PlayersInv, PlayerRequests
<1>8. PlayerTables'
    <2>1. players' \subseteq PlayerRow
        BY <1>3 DEF PlayersInv, PlayerTables
    <2>2. issued' \in [Players -> [key : Nat, idle : Ages]]
        BY <1>4 DEF RowWritten
    <2>3. IsFiniteSet(players')
        BY DEF RowWritten
    <2> QED BY <1>3, <2>1, <2>2, <2>3 DEF PlayersInv, PlayerTables, PlayerRow, Ages
<1>9. ASSUME NEW x, Seen(x)' PROVE x = k \/ Seen(x)
    <2>1. ASSUME NEW r \in players', r.key = x PROVE x = k \/ Seen(x)
        BY <1>3, <2>1 DEF Seen
    <2>2. ASSUME NEW q \in Players, issued'[q].key = x PROVE x = k \/ Seen(x)
        BY <1>4, <2>2 DEF Seen
    <2>3. ASSUME NEW w \in Workers, Uses(w)', req'[w].data.key = x PROVE Seen(x)
        BY <1>6, <2>3 DEF Seen
    <2> QED BY <1>3, <1>9, <2>1, <2>2, <2>3 DEF Seen
<1>10. ASSUME NEW w \in Workers, NEW q \in Players, LogsIn(w, q)'
       PROVE  /\ LogsIn(w, q) /\ req'[w] = req[w] /\ w # h
              /\ req[w].data.key \in Nat /\ req[w].data.key > calls /\ ~Seen(req[w].data.key) /\ req[w].data.key # k
    <2>1. LogsIn(w, q) /\ req'[w] = req[w] /\ w # h
        BY <1>6, <1>10
    <2> QED BY <1>1, <2>1 DEF PlayersInv, KeysSeen
<1>11. KeysSeen'
    <2>1. \A x : Seen(x)' => x \in Nat /\ (x = 0 \/ x > calls')
        BY <1>2, <1>9 DEF PlayersInv, KeysSeen
    <2>2. ASSUME NEW w \in Workers, NEW q \in Players, LogsIn(w, q)', NEW x, x = req'[w].data.key
          PROVE  x \in Nat /\ x > calls' /\ ~Seen(x)'
        BY <1>9, <1>10, <2>2
    <2>3. ASSUME NEW w \in Workers, NEW q \in Players, LogsIn(w, q)',
                 NEW v \in Workers, NEW s \in Players, LogsIn(v, s)', v # w
          PROVE  req'[v].data.key # req'[w].data.key
        BY <1>10, <2>3 DEF PlayersInv, KeysSeen
    <2> QED BY <2>1, <2>2, <2>3 DEF KeysSeen
<1>12. \A q \in Players : issued[q].key # k
    BY <1>2 DEF Seen
<1>13. \A r \in players : r.key # k
    BY <1>2 DEF Seen
<1>14. Owned'
    <2> SUFFICES ASSUME NEW r \in players', NEW q \in Players, r.key # 0, r.key = issued'[q].key PROVE r.of = q
        BY DEF Owned
    <2>1. CASE issued'[q] = issued[q]
        <3>1. r \in players
            BY <1>3, <1>12, <2>1
        <3> QED BY <2>1, <3>1 DEF PlayersInv, Owned
    <2>2. CASE q = p /\ issued'[q].key = k
        BY <1>3, <1>13, <2>2
    <2> QED BY <1>4, <2>1, <2>2
<1>15. ActiveKept'
    <2> SUFFICES ASSUME NEW r \in players', r.key \notin {0} \cup touches \cup neglected
                 PROVE  /\ \A a \in active : a.key = r.key => r.age + a.left <= ActiveTicks
                        /\ r.key \in marks => r.age = 0
        BY <1>3 DEF ActiveKept
    <2>1. CASE r \in players
        BY <2>1 DEF PlayersInv, ActiveKept
    <2>2. CASE r.key = k
        BY <1>2, <2>2 DEF Seen
    <2> QED BY <1>3, <2>1, <2>2
<1>16. LoginsOK'
    <2> SUFFICES ASSUME NEW w \in Workers, NEW q \in Players, LogsIn(w, q)' PROVE LoginOK(w, q)'
        BY DEF LoginsOK, LoginOK
    <2>1. LogsIn(w, q) /\ w # h /\ req'[w] = req[w] /\ LoginOK(w, q)
        BY <1>10 DEF PlayersInv, LoginsOK
    <2>2. CASE q = p
        <3>1. PlayerInDoubt(q)' /\ PlayerObject(q) \notin req[w].sure
            BY <2>1, <2>2 DEF LoginOK
        <3> QED BY <2>1, <3>1 DEF LoginOK
    <2>3. CASE q # p
        <3>1. PlayerInDoubt(q)' <=> PlayerInDoubt(q)
            BY <2>3
        <3>2. \A v \in Workers : LogsIn(v, q)' => LogsIn(v, q)
            BY <1>6
        <3>3. (\A r \in players : r.of # q) => \A r \in players' : r.of # q
            BY <1>3, <2>3
        <3> QED BY <2>1, <3>1, <3>2, <3>3 DEF LoginOK
    <2> QED BY <2>2, <2>3
<1>17. ASSUME NEW q \in Players PROVE PlayerOK(q)'
    <2>1. CASE q = p
        BY <2>1 DEF PlayerOK
    <2>2. CASE q # p
        <3> SUFFICES ASSUME ~PlayerInDoubt(q)' PROVE One(q)' /\ Fresh(q)'
            BY DEF PlayerOK
        <3>1. One(q) /\ Fresh(q)
            BY <2>2 DEF PlayersInv, PlayerOK
        <3>2. issued'[q] = issued[q] /\ issued[q].key # k
            BY <1>4, <1>12, <2>2
        <3>3. \A r : (r \in players' /\ r.of = q) <=> (r \in players /\ r.of = q)
            BY <1>3, <2>2
        <3>4. One(q)'
            BY <3>1, <3>2, <3>3 DEF One
        <3>5. (\A r \in players : r.key # issued[q].key) => \A r \in players' : r.key # issued[q].key
            BY <1>3, <3>2
        <3>6. Fresh(q)'
            BY <1>3, <3>1, <3>2, <3>3, <3>5 DEF Fresh
        <3> QED BY <3>4, <3>6
    <2> QED BY <2>1, <2>2
<1> QED BY <1>7, <1>8, <1>11, <1>14, <1>15, <1>16, <1>17 DEF PlayersInv

\* The history of a login whose row has been written.
Recorded(p, k) == issued' \in {issued, [issued EXCEPT ![p] = [key |-> k, idle |-> 0]]}

\* What the two statements of a login write.
LEMMA StatementsWrite ==
    ASSUME PlayersInv, NEW h \in Workers, NEW p \in Players, LogsIn(h, p), NEW k, k = req[h].data.key,
           UNCHANGED <<active, touches, marks, neglected>>,
           Recorded(p, k)
    PROVE  /\ players' = LoggedIn(p, k) => RowWritten(h, p) /\ \A r \in players' : r.of = p => r.key = k /\ r.age = 0
           /\ players' = Inserted(p, k) => RowWritten(h, p)
<1>1. k \in Nat /\ 0 \in Ages /\ players \subseteq PlayerRow /\ IsFiniteSet(players) /\ issued = [q \in Players |-> issued[q]]
    BY PlayersAssumption DEF PlayersInv, KeysSeen, PlayerTables, Ages
<1>2. /\ \A q \in Players : issued'[q] = issued[q] \/ (q = p /\ issued'[q] = [key |-> k, idle |-> 0])
      /\ issued' = [q \in Players |-> issued'[q]]
    BY <1>1 DEF Recorded
<1>3. ASSUME players' = LoggedIn(p, k)
      PROVE  RowWritten(h, p) /\ \A r \in players' : r.of = p => r.key = k /\ r.age = 0
    <2> DEFINE New == {[r EXCEPT !.key = k, !.age = 0] : r \in RowsOf(p)}
    <2>1. players' = (players \ RowsOf(p)) \cup New
        BY <1>3 DEF LoggedIn
    <2>2. ASSUME NEW s \in New PROVE s \in PlayerRow /\ s.of = p /\ s.key = k /\ s.age = 0
        <3>1. PICK r \in RowsOf(p) : s = [r EXCEPT !.key = k, !.age = 0]
            OBVIOUS
        <3>2. r \in PlayerRow /\ r.of = p
            BY <1>1 DEF RowsOf
        <3> QED BY <1>1, <3>1, <3>2 DEF PlayerRow
    <2>3. IsFiniteSet(New)
        <3> DEFINE F == [r \in RowsOf(p) |-> [r EXCEPT !.key = k, !.age = 0]]
        <3>1. F \in [RowsOf(p) -> New] /\ \A s \in New : \E r \in RowsOf(p) : F[r] = s
            OBVIOUS
        <3>2. F \in Surjection(RowsOf(p), New)
            BY <3>1 DEF Surjection
        <3>3. IsFiniteSet(RowsOf(p))
            <4>1. RowsOf(p) \subseteq players
                BY DEF RowsOf
            <4> QED BY <1>1, <4>1, FS_Subset
        <3> HIDE DEF F, New
        <3> QED BY ONLY <3>2, <3>3, ImageIsFinite
    <2>4. IsFiniteSet(players \ RowsOf(p))
        <3>1. players \ RowsOf(p) \subseteq players
            OBVIOUS
        <3> QED BY <1>1, <3>1, FS_Subset
    <2> HIDE DEF New
    <2>5. IsFiniteSet(players')
        BY ONLY <2>1, <2>3, <2>4, FS_Union
    <2>6. \A r \in players : r.of # p => r \in players'
        BY <2>1 DEF RowsOf
    <2>7. \A r \in players' : r \in players \/ (r \in PlayerRow /\ r.of = p /\ r.key = k /\ r.age = 0)
        BY <2>1, <2>2
    <2>8. \A r \in players' : r.of = p => r.key = k /\ r.age = 0
        BY <2>1, <2>2 DEF RowsOf
    <2> QED BY <1>2, <2>5, <2>6, <2>7, <2>8 DEF RowWritten
<1>4. ASSUME players' = Inserted(p, k) PROVE RowWritten(h, p)
    <2>1. PICK new : new = [id |-> k, of |-> p, key |-> k, age |-> 0]
        OBVIOUS
    <2>2. new \in PlayerRow /\ new.of = p /\ new.key = k /\ new.age = 0
        BY <1>1, <2>1 DEF PlayerRow
    <2>3. players' = players \cup {new}
        BY <1>4, <2>1 DEF Inserted
    <2>4. IsFiniteSet(players')
        BY ONLY <1>1, <2>3, FS_AddElement
    <2> QED BY <1>2, <2>2, <2>3, <2>4 DEF RowWritten
<1> QED BY <1>3, <1>4

\* What a login leaves of the doubt about its player and the others.
LEMMA LoginDoubts ==
    ASSUME NEW p \in Players, NEW s, s \subseteq {PlayerObject(p)},
           \E t : doubt' = doubt \cup s \/ doubt' = doubt \ (s \cap t)
    PROVE  \A q \in Players : q # p => (PlayerInDoubt(q)' <=> PlayerInDoubt(q))
<1>1. \A q \in Players : PlayerObject(q) = PlayerObject(p) => q = p
    BY DEF PlayerObject
<1> QED BY <1>1 DEF PlayerInDoubt

\* A login that meets others of its player is not sure of it.
LEMMA LoginIsAlone ==
    ASSUME PlayersInv, NEW h \in Workers, NEW p \in Players, LogsIn(h, p),
           ~PlayerInDoubt(p) \/ PlayerObject(p) \in req[h].sure
    PROVE  \A v \in Workers \ {h} : ~LogsIn(v, p)
BY DEF PlayersInv, LoginsOK, LoginOK

\* The update of a login.
LEMMA UpdateKeeps ==
    ASSUME PlayersInv, NEW h \in Workers, UpdatePlayer(h)
    PROVE  PlayersInv'
<1>1. RequestsOf(PlayerWork, PlayerObjects) /\ Ours(PlayerWork, h) /\ req[h] # NoReq /\ req[h].op = "login"
    BY DEF UpdatePlayer, At, PlayersInv, PlayerRequests, TypedRequests, Ours, PlayerWork
<1>2. PICK p, k : p \in Players /\ LogsIn(h, p) /\ p = req[h].data.p /\ k = req[h].data.key
    BY <1>1 DEF PlayersInv, PlayerRequests, PlayerRequest, LogsIn
<1>3. /\ players' = LoggedIn(p, k) /\ issued' = [issued EXCEPT ![p] = [key |-> k, idle |-> 0]]
      /\ UNCHANGED <<active, touches, marks, neglected>>
      /\ IF Cardinality(RowsOf(p)) = 0 THEN Leave(h, {PlayerObject(p)})
         ELSE Finish(h, IF Cardinality(RowsOf(p)) = 1 THEN {PlayerObject(p)} ELSE {})
    BY <1>2 DEF UpdatePlayer
<1>4. RowWritten(h, p) /\ \A r \in players' : r.of = p => r.key = k /\ r.age = 0
    <2>1. players' = LoggedIn(p, k) /\ issued' = [issued EXCEPT ![p] = [key |-> k, idle |-> 0]]
          /\ UNCHANGED <<active, touches, marks, neglected>> /\ p \in Players /\ LogsIn(h, p) /\ k = req[h].data.key
        BY <1>2, <1>3
    <2>2. Recorded(p, k)
        BY <2>1 DEF Recorded
    <2>3. players' = LoggedIn(p, k) => RowWritten(h, p) /\ \A r \in players' : r.of = p => r.key = k /\ r.age = 0
        BY ONLY PlayersInv, h \in Workers, <2>1, <2>2, StatementsWrite
    <2> QED BY ONLY <2>1, <2>3
<1>5. PICK s : /\ s \subseteq {PlayerObject(p)} /\ Put(h, NoReq) /\ UNCHANGED <<calls, menu>>
               /\ \/ PlayerObject(p) \in s /\ doubt' = doubt \cup s /\ Cardinality(RowsOf(p)) = 0
                  \/ /\ doubt' = doubt \ (s \cap req[h].sure) /\ Cardinality(RowsOf(p)) # 0
                     /\ PlayerObject(p) \in s => Cardinality(RowsOf(p)) = 1
    <2>1. CASE Cardinality(RowsOf(p)) = 0
        <3>1. Put(h, NoReq) /\ doubt' = doubt \cup {PlayerObject(p)} /\ UNCHANGED <<calls, menu>>
            BY <1>1, <1>3, <2>1, LeavePuts
        <3> QED BY <2>1, <3>1
    <2>2. CASE Cardinality(RowsOf(p)) # 0
        <3>1. PICK s : s = IF Cardinality(RowsOf(p)) = 1 THEN {PlayerObject(p)} ELSE {}
            OBVIOUS
        <3>2. Put(h, NoReq) /\ doubt' = doubt \ (s \cap req[h].sure) /\ UNCHANGED <<calls, menu>>
            BY <1>1, <1>3, <2>2, <3>1, EndPuts
        <3>3. s \subseteq {PlayerObject(p)} /\ (PlayerObject(p) \in s => Cardinality(RowsOf(p)) = 1)
            BY <3>1
        <3> QED BY <2>2, <3>2, <3>3
    <2> QED BY <2>1, <2>2
<1>6. \A q \in Players : q # p => (PlayerInDoubt(q)' <=> PlayerInDoubt(q))
    <2>1. \E t : doubt' = doubt \cup s \/ doubt' = doubt \ (s \cap t)
        BY <1>5
    <2> QED BY ONLY <1>2, <1>5, <2>1, LoginDoubts
<1>7. \A v \in Workers \ {h} : LogsIn(v, p) => PlayerInDoubt(p)'
    <2> SUFFICES ASSUME NEW v \in Workers \ {h}, LogsIn(v, p) PROVE PlayerInDoubt(p)'
        OBVIOUS
    <2>1. PlayerInDoubt(p) /\ PlayerObject(p) \notin req[h].sure
        BY <1>2, LoginIsAlone
    <2> QED BY <1>5, <2>1 DEF PlayerInDoubt
<1>8. ASSUME ~PlayerInDoubt(p)' PROVE One(p)' /\ Fresh(p)'
    <2>1. IsFiniteSet(RowsOf(p))
        <3>1. RowsOf(p) \subseteq players /\ IsFiniteSet(players)
            BY DEF RowsOf, PlayersInv, PlayerTables
        <3> QED BY <3>1, FS_Subset
    <2>2. \E r : RowsOf(p) = {r}
        <3>1. Cardinality(RowsOf(p)) # 0
            BY <1>5, <1>8 DEF PlayerInDoubt
        <3>2. CASE PlayerInDoubt(p)
            <4>1. Cardinality(RowsOf(p)) = 1
                BY <1>5, <1>8, <3>2 DEF PlayerInDoubt
            <4> QED BY ONLY <2>1, <4>1, FS_Singleton
        <3>3. CASE ~PlayerInDoubt(p)
            <4>1. One(p)
                BY <1>2, <3>3 DEF PlayersInv, PlayerOK
            <4>2. RowsOf(p) # {}
                BY <3>1, FS_EmptySet
            <4>3. \A r \in RowsOf(p), t \in RowsOf(p) : r = t
                BY <4>1 DEF One, RowsOf
            <4> QED BY <4>2, <4>3
        <3> QED BY <3>2, <3>3
    <2>3. PICK r : RowsOf(p) = {r}
        BY <2>2
    <2>4. PICK new : new = [r EXCEPT !.key = k, !.age = 0]
        OBVIOUS
    <2>5. players' = (players \ {r}) \cup {new} /\ r \in players /\ r.of = p
        BY <1>3, <2>3, <2>4 DEF LoggedIn, RowsOf
    <2>6. new.of = p /\ new.key = k /\ new.age = 0
        <3>1. r \in PlayerRow
            BY <2>5 DEF PlayersInv, PlayerTables
        <3> QED BY <2>4, <2>5, <3>1 DEF PlayerRow
    <2>7. \A t \in players' : t.of = p => t = new
        BY <2>3, <2>5 DEF RowsOf
    <2>8. issued'[p].key = k /\ issued'[p].idle = 0
        BY <1>2, <1>3 DEF PlayersInv, PlayerTables
    <2>9. One(p)'
        BY <2>6, <2>7, <2>8 DEF One
    <2>10. Fresh(p)'
        <3>1. new.age <= issued'[p].idle + ActiveTicks
            BY <2>6, <2>8, PlayersAssumption
        <3> QED BY <2>5, <2>6, <2>8, <3>1 DEF Fresh
    <2> QED BY <2>9, <2>10
<1> QED BY <1>2, <1>4, <1>5, <1>6, <1>7, <1>8, RowWrittenKeeps

\* The insertion of one.
LEMMA InsertKeeps ==
    ASSUME PlayersInv, NEW h \in Workers, InsertPlayer(h)
    PROVE  PlayersInv'
<1>1. RequestsOf(PlayerWork, PlayerObjects) /\ Ours(PlayerWork, h) /\ req[h] # NoReq /\ req[h].op = "login" /\ req[h].at = "insert"
    BY DEF InsertPlayer, At, PlayersInv, PlayerRequests, TypedRequests, Ours, PlayerWork
<1>2. PICK p, k : p \in Players /\ LogsIn(h, p) /\ p = req[h].data.p /\ k = req[h].data.key
    BY <1>1 DEF PlayersInv, PlayerRequests, PlayerRequest, LogsIn
<1>3. /\ players' = Inserted(p, k) /\ issued' = [issued EXCEPT ![p] = [key |-> k, idle |-> 0]]
      /\ UNCHANGED <<active, touches, marks, neglected>> /\ Finish(h, {})
    BY <1>2 DEF InsertPlayer
<1>4. RowWritten(h, p)
    <2>1. Recorded(p, k)
        BY <1>3 DEF Recorded
    <2> QED BY <1>2, <1>3, <2>1, StatementsWrite
<1>5. Put(h, NoReq) /\ doubt' = doubt /\ UNCHANGED <<calls, menu>>
    <2>1. Put(h, NoReq) /\ doubt' = doubt \ ({} \cap req[h].sure) /\ UNCHANGED <<calls, menu>>
        BY <1>1, <1>3, EndPuts
    <2> QED BY <2>1
<1>6. \A v \in Workers \ {h} : LogsIn(v, p) => PlayerInDoubt(p)'
    BY <1>2, <1>5, LoginIsAlone DEF PlayerInDoubt
<1>7. ASSUME ~PlayerInDoubt(p)' PROVE One(p)' /\ Fresh(p)'
    <2>1. \A r \in players : r.of # p
        BY <1>1, <1>2, <1>5, <1>7 DEF PlayersInv, LoginsOK, LoginOK, PlayerInDoubt
    <2>2. PICK new : new = [id |-> k, of |-> p, key |-> k, age |-> 0]
        OBVIOUS
    <2>3. players' = players \cup {new} /\ new.of = p /\ new.key = k /\ new.age = 0
        BY <1>3, <2>2 DEF Inserted
    <2>4. issued'[p].key = k /\ issued'[p].idle = 0
        BY <1>2, <1>3 DEF PlayersInv, PlayerTables
    <2>5. One(p)'
        BY <2>1, <2>3, <2>4 DEF One
    <2>6. Fresh(p)'
        <3>1. new.age <= issued'[p].idle + ActiveTicks
            BY <2>3, <2>4, PlayersAssumption
        <3> QED BY <2>3, <2>4, <3>1 DEF Fresh
    <2> QED BY <2>5, <2>6
<1> QED BY <1>2, <1>4, <1>5, <1>6, <1>7, RowWrittenKeeps DEF PlayerInDoubt

\* A request that ends and settles nothing, or fails and leaves its player in doubt.
LEMMA PlayerFinishes ==
    ASSUME PlayersInv, NEW h \in Workers, Finish(h, {}) \/ \E more : Fail(h, more)
    PROVE  LoginsStay /\ PlayerRequests'
<1>1. RequestsOf(PlayerWork, PlayerObjects)
    BY DEF PlayersInv, PlayerRequests, TypedRequests
<1>2. CASE Finish(h, {})
    <2>1. Put(h, NoReq) /\ doubt' = doubt \ ({} \cap req[h].sure) /\ UNCHANGED <<calls, menu>>
        BY <1>1, <1>2, EndPuts
    <2>2. doubt' = doubt
        BY <2>1
    <2> QED BY <2>1, <2>2, PlayerEnds DEF PlayerInDoubt
<1>3. ASSUME NEW more, Fail(h, more) PROVE LoginsStay /\ PlayerRequests'
    <2>1. Put(h, NoReq) /\ doubt' = doubt \cup more /\ UNCHANGED <<calls, menu>>
        BY <1>1, <1>3, EndPuts
    <2> QED BY <2>1, PlayerEnds DEF PlayerInDoubt
<1> QED BY <1>2, <1>3

\* The other steps of a login.
LEMMA LoginKeeps ==
    ASSUME PlayersInv, NEW h \in Workers, FindPlayer(h) \/ LoginRefused(h) \/ LoginFails(h)
    PROVE  PlayersInv'
<1>1. req[h] # NoReq /\ req[h].op = "login" /\ Ours(PlayerWork, h)
    BY DEF FindPlayer, LoginRefused, LoginFails, At, Ours, PlayerWork
<1>2. RequestsOf(PlayerWork, PlayerObjects) /\ PlayerRequest(req[h])
    BY <1>1 DEF PlayersInv, PlayerRequests, TypedRequests
<1>3. PICK p, k : p \in Players /\ LogsIn(h, p) /\ p = req[h].data.p /\ k = req[h].data.key
    BY <1>1, <1>2 DEF PlayerRequest, LogsIn
<1>4. CASE FindPlayer(h)
    <2>1. UNCHANGED playerVars
        BY <1>4 DEF FindPlayer
    <2>2. CASE Finish(h, {})
        BY <2>1, <2>2, PlayerFinishes, PlayersSame
    <2>3. CASE GoOn(h, IF RowsOf(p) = {} THEN "insert" ELSE "update")
        <3>1. PICK at : at = IF RowsOf(p) = {} THEN "insert" ELSE "update"
            OBVIOUS
        <3>2. at \in Awaits /\ at \in {"find", "update", "insert"} /\ (at = "insert" => RowsOf(p) = {}) /\ Go(h, at, req[h].data)
            BY <2>3, <3>1 DEF Awaits, GoOn
        <3>3. \A q \in Players : (LogsIn(h, q) /\ at = "insert") => \A r \in players : r.of # q
            BY <1>3, <3>2 DEF LogsIn, RowsOf
        <3> QED BY ONLY PlayersInv, h \in Workers, <1>1, <2>1, <3>2, <3>3, PlayerMoves, PlayersSame
    <2> QED BY <1>3, <1>4, <2>2, <2>3 DEF FindPlayer
<1>5. CASE LoginRefused(h)
    BY <1>5, PlayerFinishes, PlayersSame DEF LoginRefused
<1>6. CASE LoginFails(h)
    <2>1. /\ UNCHANGED <<active, touches, marks, issued, neglected>>
          /\ \/ UNCHANGED players
             \/ req[h].at = "update" /\ players' = LoggedIn(p, k)
             \/ req[h].at = "insert" /\ players' = Inserted(p, k)
          /\ \E more : Fail(h, more)
          /\ req[h].at # "find" => Fail(h, {PlayerObject(p)})
        BY <1>3, <1>6 DEF LoginFails
    <2>2. CASE UNCHANGED players
        BY <2>1, <2>2, PlayerFinishes, PlayersSame DEF playerVars
    <2>3. CASE /\ players' = LoggedIn(p, k) \/ players' = Inserted(p, k)
               /\ req[h].at \in {"update", "insert"}
        <3>1. RowWritten(h, p)
            <4>1. Recorded(p, k)
                BY <2>1 DEF Recorded
            <4> QED BY <1>3, <2>1, <2>3, <4>1, StatementsWrite
        <3>2. Put(h, NoReq) /\ doubt' = doubt \cup {PlayerObject(p)} /\ calls' = calls
            <4>1. Fail(h, {PlayerObject(p)})
                BY <2>1, <2>3
            <4> QED BY <1>2, <4>1, EndPuts
        <3>3. PlayerInDoubt(p)' /\ \A q \in Players : q # p => (PlayerInDoubt(q)' <=> PlayerInDoubt(q))
            BY <3>2, LoginDoubts, <1>3 DEF PlayerInDoubt
        <3> QED BY <1>3, <3>1, <3>2, <3>3, RowWrittenKeeps
    <2> QED BY <2>1, <2>2, <2>3
<1> QED BY <1>4, <1>5, <1>6

\* The steps of a use.
LEMMA UseKeeps ==
    ASSUME PlayersInv, NEW h \in Workers,
           FindSession(h) \/ EndSession(h) \/ TouchSession(h) \/ LookActive(h) \/ UseFails(h)
    PROVE  PlayersInv'
<1>1. Uses(h) /\ Ours(PlayerWork, h) /\ req[h] # NoReq /\ req[h].op # "login"
    BY DEF FindSession, EndSession, TouchSession, LookActive, UseFails, OfUse, UseOps, At, Ours, Uses, PlayerWork
<1>2. PICK key : key = req[h].data.key
    OBVIOUS
<1>3. key \in Nat /\ Seen(key) /\ RowsWith(key) \subseteq players
    <2>1. Seen(key)
        BY <1>1, <1>2 DEF Seen
    <2> QED BY <2>1 DEF PlayersInv, KeysSeen, RowsWith
<1>4. \A p : ~LogsIn(h, p)
    BY <1>1 DEF LogsIn
<1>5. CASE FindSession(h)
    <2>1. UNCHANGED playerVars
        BY <1>5 DEF FindSession
    <2>2. CASE Finish(h, {})
        BY <2>1, <2>2, PlayerFinishes, PlayersSame
    <2>3. ASSUME NEW at, at \in {"expire", "touch", "active"}, GoOn(h, at) PROVE PlayersInv'
        <3>1. at \in Awaits /\ Go(h, at, req[h].data)
            BY <2>3 DEF Awaits, GoOn
        <3> QED BY <1>1, <1>4, <2>1, <3>1, PlayerMoves, PlayersSame
    <2> QED BY <1>5, <2>2, <2>3 DEF FindSession
<1>6. CASE EndSession(h)
    <2>1. PICK some : some = RowsWith(key)
        OBVIOUS
    <2>2. /\ players' = Cleared(some) /\ neglected' = neglected \cup Overtaken(some)
          /\ Finish(h, {}) /\ UNCHANGED <<active, touches, marks, issued>> /\ some \subseteq players
        BY <1>2, <1>3, <1>6, <2>1 DEF EndSession
    <2> QED BY <2>2, PlayerFinishes, ExpiryKeeps
<1>7. CASE TouchSession(h)
    <2>1. /\ players' = Touched(RowsWith(key)) /\ Used(key) /\ Finish(h, {})
          /\ UNCHANGED <<active, touches, marks, neglected>>
        BY <1>2, <1>7 DEF TouchSession
    <2> QED BY <2>1, PlayerFinishes, UsedIs, TouchKeeps
<1>8. CASE LookActive(h)
    <2>1. /\ IF \E a \in active : a.key = key THEN UNCHANGED <<touches, marks>>
             ELSE touches' = touches \cup {key} /\ marks' = marks \cup {key}
          /\ Used(key) /\ Finish(h, {}) /\ UNCHANGED <<players, active, neglected>>
        BY <1>2, <1>8 DEF LookActive
    <2> QED BY <1>3, <2>1, PlayerFinishes, ActiveUseKeeps
<1>9. CASE UseFails(h)
    <2>1. PICK some : some = RowsWith(key)
        OBVIOUS
    <2>2. /\ \/ UNCHANGED <<players, neglected>>
             \/ players' = Cleared(some) /\ neglected' = neglected \cup Overtaken(some)
             \/ players' = Touched(RowsWith(key)) /\ UNCHANGED neglected
          /\ Fail(h, {}) /\ UNCHANGED <<active, touches, marks, issued>> /\ some \subseteq players
        BY <1>2, <1>3, <1>9, <2>1 DEF UseFails
    <2>3. LoginsStay /\ PlayerRequests'
        BY <2>2, PlayerFinishes
    <2>4. CASE UNCHANGED <<players, neglected>>
        BY <2>2, <2>3, <2>4, PlayersSame DEF playerVars
    <2>5. CASE players' = Cleared(some) /\ neglected' = neglected \cup Overtaken(some)
        BY <2>2, <2>3, <2>5, ExpiryKeeps
    <2>6. CASE players' = Touched(RowsWith(key)) /\ UNCHANGED neglected
        <3>1. MayBeUsed(key)
            BY <2>2, UsedIs
        <3> QED BY <2>2, <2>3, <2>6, <3>1, TouchKeeps
    <2> QED BY <2>2, <2>4, <2>5, <2>6
<1> QED BY <1>5, <1>6, <1>7, <1>8, <1>9

\* Every step of a request of the players'.
LEMMA PlayerStepKeeps ==
    ASSUME PlayersInv, NEW h \in Workers, PlayerStep(h)
    PROVE  PlayersInv'
<1>1. ASSUME UseSession(h) PROVE PlayersInv'
    <2>1. PICK key \in {r.key : r \in players} \ {0} :
            /\ \/ project.row /\ Begin(h, "check session", {}, "find", [key |-> key])
               \/ BeginIn("slugs", h, "use session", {}, "find", [key |-> key])
            /\ UNCHANGED playerVars
        BY <1>1 DEF UseSession
    <2>2. PICK r \in players : key = r.key
        BY <2>1
    <2>3. PICK op : op \in {"check session", "use session"} /\ Called(h, op, {}, "find", [key |-> r.key])
        BY <2>1, <2>2 DEF Begin, BeginIn
    <2>4. LoginsStay /\ PlayerRequests'
        BY <2>3, UseArrives
    <2> QED BY <2>1, <2>4, PlayersSame
<1>2. Login(h) \/ UpdatePlayer(h) \/ InsertPlayer(h) => PlayersInv'
    BY LoginArrives, UpdateKeeps, InsertKeeps
<1>3. FindPlayer(h) \/ LoginRefused(h) \/ LoginFails(h) => PlayersInv'
    BY LoginKeeps
<1>4. FindSession(h) \/ EndSession(h) \/ TouchSession(h) \/ LookActive(h) \/ UseFails(h) => PlayersInv'
    BY UseKeeps
<1> QED BY <1>1, <1>2, <1>3, <1>4 DEF PlayerStep

\* Every step keeps the invariant.
LEMMA PlayersNext ==
    ASSUME PlayersInv, [Next]_vars
    PROVE  PlayersInv'
<1>1. RequestsOf(PlayerWork, PlayerObjects)
    BY DEF PlayersInv, PlayerRequests, TypedRequests
<1>2. CASE UNCHANGED vars
    <2>1. UNCHANGED <<req, doubt, calls, playerVars>> /\ calls \in Nat
        BY <1>1, <1>2 DEF vars, baseVars, RequestsOf
    <2> QED BY <2>1, IdleStay, PlayersSame
<1>3. /\ \A x : TokenObject(x) \notin PlayerObjects /\ PluginObject \notin PlayerObjects /\ LayoutObject \notin PlayerObjects
      /\ \A x : SessionObject(x) \notin PlayerObjects /\ MonObject(x) \notin PlayerObjects /\ FileObject(x) \notin PlayerObjects
      /\ FileObjects \cap PlayerObjects = {} /\ TokenObjects \cap PlayerObjects = {}
      /\ ProjectObject \notin PlayerObjects /\ SwitchObject \notin PlayerObjects /\ Deleted \cap PlayerObjects = {}
    BY DEF FileObjects, FileObject, TokenObject, TokenObjects, PluginObject, LayoutObject, ProjectObject, SwitchObject,
           SessionObject, SessionObjects, PlayerObject, PlayerObjects, MonObject, Deleted
<1>4. ASSUME NEW w \in Workers, UNCHANGED playerVars,
             TokenStep(w) \/ HookStep(w) \/ MonitorStep(w) \/ StudioStep(w) \/ QuotaStep(w) \/ FileStep(w) \/ ProjectStep(w)
      PROVE  PlayersInv'
    <2>1. PlayerWork \cap TokenOps = {} /\ PlayerWork \cap HookRequests = {} /\ PlayerWork \cap (MonOps \cup {"start monitors"}) = {}
        BY DEF PlayerWork, TokenOps, HookRequests, HookOps, MonOps
    <2>2. PlayerWork \cap StudioOps = {} /\ PlayerWork \cap QuotaOps = {} /\ PlayerWork \cap ProjectOps = {} /\ PlayerWork \cap FileOps = {}
        BY DEF PlayerWork, StudioOps, PluginOps, QuotaOps, ProjectOps, FileOps
    <2>3. Aside(PlayerWork, PlayerObjects)
        BY <1>1, <1>3, <1>4, <2>1, <2>2, TokenStepAside, HookStepAside, MonitorStepAside, StudioStepAside, QuotaStepAside,
           ProjectStepAside, FileStepAside
    <2> QED BY <1>4, <2>3, PlayersAside
<1>5. ASSUME NEW w \in Workers, Deletion(w) PROVE PlayersInv'
    <2>1. "delete project" \notin PlayerWork
        BY DEF PlayerWork
    <2>2. Aside(PlayerWork, PlayerObjects)
        BY <1>1, <1>3, <1>5, <2>1, DeletionAside
    <2>3. CASE DropSchema(w)
        BY <2>2, <2>3, PlayersGoneKeeps DEF DropSchema
    <2>4. CASE UNCHANGED playerVars
        BY <2>2, <2>4, PlayersAside
    <2> QED BY <1>5, <2>3, <2>4 DEF Deletion
<1>6. ASSUME UNCHANGED playerVars,
             \/ TokenTime \/ Delivery \/ MonitorTimers \/ Counting \/ QuotaTime \/ ForgetProject
             \/ StudioStatement
      PROVE  PlayersInv'
    <2>1. Aside(PlayerWork, PlayerObjects)
        BY <1>1, <1>3, <1>6, OthersAside, StatementAside
    <2> QED BY <1>6, <2>1, PlayersAside
<1>7. ASSUME PlayerTime PROVE PlayersInv'
    BY <1>7, TouchArrives, MarkArrives, ClearKeeps, TickKeeps DEF PlayerTime
<1> QED BY <1>2, <1>4, <1>5, <1>6, <1>7, PlayerStepKeeps, PlayersRestart, PlayersLost DEF Next

\* It holds when the worker starts.
LEMMA PlayersStart ==
    ASSUME Init
    PROVE  PlayersInv
<1>1. /\ TypedRequests(PlayerWork, PlayerObjects) /\ \A w \in Workers : ~Ours(PlayerWork, w) /\ req[w] = NoReq
    BY NoneOurs
<1>2. players = {} /\ active = {} /\ touches = {} /\ marks = {} /\ neglected = {} /\ issued = NoLogins
    BY DEF Init, PlayersInit
<1>3. NoLogin \in [key : Nat, idle : Ages] /\ NoLogin.key = 0
    BY PlayersAssumption DEF NoLogin, Ages
<1>4. issued \in [Players -> [key : Nat, idle : Ages]] /\ \A p \in Players : issued[p].key = 0
    BY <1>2, <1>3 DEF NoLogins
<1>5. PlayerTables
    BY <1>2, <1>4, FS_EmptySet DEF PlayerTables
<1>6. \A w \in Workers : ~Uses(w) /\ \A p : ~LogsIn(w, p)
    BY <1>1 DEF Uses, LogsIn
<1>7. KeysSeen
    <2>1. \A k : Seen(k) => k = 0
        BY <1>2, <1>4, <1>6 DEF Seen
    <2> QED BY <1>6, <2>1 DEF KeysSeen
<1>8. Owned /\ ActiveKept /\ LoginsOK
    BY <1>2, <1>6 DEF Owned, ActiveKept, LoginsOK, LoginOK
<1>9. \A p \in Players : PlayerOK(p)
    BY <1>2, <1>4 DEF PlayerOK, One, Fresh
<1> QED BY <1>1, <1>5, <1>7, <1>8, <1>9 DEF PlayersInv, PlayerRequests

\* A player whose logins have neither overlapped nor failed has one row, of the last login, and
\* is let in until the session has been idle for its time.
THEOREM PlayersStaySignedIn == Spec => []PlayersKept
<1>1. PlayersInv => PlayersKept
    <2> SUFFICES ASSUME PlayersInv, NEW p \in Players, PlayerObject(p) \notin doubt
                 PROVE  /\ Cardinality(RowsOf(p)) <= 1
                        /\ \A r \in RowsOf(p) : r.key \in {0, issued[p].key}
                        /\ (/\ issued[p].key \notin {0} \cup neglected \cup touches
                            /\ issued[p].idle + ActiveTicks <= SessionTtl) =>
                            \E r \in RowsOf(p) : r.key = issued[p].key /\ ~Stale(r)
        BY DEF PlayersKept
    <2>1. One(p) /\ Fresh(p)
        BY DEF PlayersInv, PlayerOK, PlayerInDoubt
    <2>2. Cardinality(RowsOf(p)) <= 1
        <3>1. CASE RowsOf(p) = {}
            BY <3>1, FS_EmptySet
        <3>2. CASE RowsOf(p) # {}
            <4>1. PICK r \in RowsOf(p) : TRUE
                BY <3>2
            <4>2. RowsOf(p) = {r}
                BY <2>1, <4>1 DEF One, RowsOf
            <4>3. Cardinality(RowsOf(p)) = 1
                BY ONLY <4>2, FS_Singleton
            <4> QED BY <4>3
        <3> QED BY <3>1, <3>2
    <2>3. \A r \in RowsOf(p) : r.key \in {0, issued[p].key}
        BY <2>1 DEF One, RowsOf
    <2>4. ASSUME issued[p].key \notin {0} \cup neglected \cup touches, issued[p].idle + ActiveTicks <= SessionTtl
          PROVE  \E r \in RowsOf(p) : r.key = issued[p].key /\ ~Stale(r)
        <3>1. PlayerTables /\ SessionTtl \in Nat /\ ActiveTicks \in Nat /\ issued[p].idle \in Nat
            BY PlayersAssumption DEF PlayersInv, PlayerTables, Ages
        <3>2. ~(issued[p].idle + ActiveTicks > SessionTtl)
            BY <2>4, <3>1
        <3>3. PICK r \in players : r.of = p /\ r.key = issued[p].key /\ r.age <= issued[p].idle + ActiveTicks
            BY <2>1, <2>4, <3>2 DEF Fresh
        <3>4. r.age \in Nat
            BY <3>1 DEF PlayerTables, PlayerRow, Ages
        <3>5. ~Stale(r)
            BY <2>4, <3>1, <3>3, <3>4 DEF Stale
        <3> QED BY <3>3, <3>5 DEF RowsOf
    <2> QED BY <2>2, <2>3, <2>4
<1> QED BY <1>1, PlayersStart, PlayersNext, PTL DEF Spec

----------------------------------------------------------------------------
\* The AI conversations, the tables of the studio plugin and the sessions of players are
\* all three as the handlers that answered left them, for any number of handlers, sessions
\* and players (control-plane routes, AI gateway, sbox-auth).
THEOREM SessionsAreExplained == Spec => []SessionsExplained
BY StudioIsAsLeft, PlayersStaySignedIn, PTL DEF SessionsExplained
====
