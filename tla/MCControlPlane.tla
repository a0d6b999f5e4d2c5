---- MODULE MCControlPlane ----
EXTENDS ControlPlane, TLC

Alive == [row |-> TRUE, schema |-> TRUE]
Hook(named) == [there |-> TRUE, gone |-> FALSE, active |-> TRUE, named |-> named, retries |-> 1]
Plain(ops, n, f) ==
    [menu |-> ops, calls |-> n, faults |-> f, project |-> Alive, layout |-> "new", plugin |-> "off",
     hooks |-> [k \in Hooks |-> NoHook], files |-> {}, limit |-> 1]

MCHooks == {1, 2}
MCEvents == {1}
MCPaths == {"/a", "/long"}
MCRefused == {"/long"}
MCLimits == {1, 2}

TokenScenario == Plain({"create token", "revoke token", "restore tokens"}, 3, 2)
ProjectScenario ==
    Plain({"create project", "delete project", "switch project", "create token", "restore tokens"}, 3, 1)
MonitorScenario ==
    Plain({"add monitor", "change monitor", "remove monitor", "start monitors", "delete project"}, 3, 1)
\* The table of webhooks before its first use.
LayoutScenario ==
    [Plain({"add hook", "change hook", "remove hook", "list hooks", "restore hooks"}, 3, 1)
        EXCEPT !.layout = "old", !.hooks = [k \in Hooks |-> IF k = 1 THEN Hook(FALSE) ELSE NoHook]]
DeliveryScenario ==
    [Plain({"announce", "change hook", "remove hook", "restore hooks", "delete project"}, 1, 2)
        EXCEPT !.hooks = [k \in Hooks |-> IF k = 1 THEN Hook(TRUE) ELSE NoHook]]
CountScenario == Plain({"respond", "delete project"}, 4, 1)
PluginScenario == Plain({"enable plugin", "disable plugin", "delete project", "create project"}, 3, 1)
TalkScenario ==
    [Plain({"talk", "forget session", "add endpoint", "remove endpoint", "disable plugin"}, 3, 1)
        EXCEPT !.plugin = "on"]

FileScenario ==
    [Plain({"upload file", "remove file", "delete project"}, 3, 1)
        EXCEPT !.files = {CHOOSE f \in Files : TRUE}]
QuotaScenario == Plain({"serve", "change quota"}, 4, 1)

PlayerScenario ==
    Plain({"login", "check session", "use session", "log out", "revoke session", "revoke all", "clean sessions"}, 4, 1)
\* The players' table goes with its project.
LeaveScenario == Plain({"login", "use session", "delete project"}, 3, 0)

MCScenarios == {TokenScenario, ProjectScenario, MonitorScenario, LayoutScenario, DeliveryScenario,
                CountScenario, PluginScenario, TalkScenario, FileScenario, QuotaScenario,
                PlayerScenario, LeaveScenario}

Symmetry == Permutations(Handlers) \cup Permutations(Flushes) \cup Permutations(Sessions)
====
