---- MODULE PlayerSessions ----
(***************************************************************************)
(* Sessions of players, kept by the sbox-auth plugin in a table of the     *)
(* project: a row per player with the key of the last login and the time   *)
(* of the last use.  A use through an endpoint refreshes that time at most *)
(* once in five minutes, with an update that nobody waits for, and         *)
(* remembers in Redis that it has.  Time goes in ticks.                    *)
(***************************************************************************)
EXTENDS ControlBase

CONSTANTS
    Players,     \* Steam IDs
    SessionTtl,  \* ticks of session_ttl_minutes
    ActiveTicks  \* ticks of the five minutes that a key sbox_active:<session key> lives

ASSUME PlayersAssumption == SessionTtl \in Nat /\ ActiveTicks \in Nat \ {0}

VARIABLES
    players,   \* the table: rows [id, of, key, age], a key of 0 is NULL
    active,    \* keys in Redis of sessions touched lately, with the ticks they have left
    touches,   \* sessions whose update of last_active_at has been sent by an endpoint
    marks,     \* sessions whose key in Redis has been sent by an endpoint
    issued,    \* history: the session of each player's last login, and the ticks since it was
               \* used with success; key 0 when it was ended
    neglected  \* history: sessions a touch of which was lost, or overtaken by their expiry

playerVars == <<players, active, touches, marks, issued, neglected>>

NoLogin == [key |-> 0, idle |-> 0]
NoLogins == [p \in Players |-> NoLogin]
PlayerObject(p) == <<"player", p>>
PlayerObjects == {PlayerObject(p) : p \in Players}

PlayersInit ==
    /\ players = {} /\ active = {} /\ touches = {} /\ marks = {}
    /\ issued = NoLogins
    /\ neglected = {}

RowsOf(p) == {r \in players : r.of = p}
RowsWith(key) == {r \in players : r.key = key}

\* What the statements make of the table.
Cleared(rows) == (players \ rows) \cup {[r EXCEPT !.key = 0] : r \in rows}
Touched(rows) == (players \ rows) \cup {[r EXCEPT !.age = 0] : r \in rows}
LoggedIn(p, key) == (players \ RowsOf(p)) \cup {[r EXCEPT !.key = key, !.age = 0] : r \in RowsOf(p)}
Inserted(p, key) == players \cup {[id |-> key, of |-> p, key |-> key, age |-> 0]}

Stale(r) == SessionTtl > 0 /\ r.age > SessionTtl

----------------------------------------------------------------------------
\* POST sbox_login, with a token that Facepunch vouches for.  A session is known by the
\* number of its call.
Login(h) ==
    \E p \in Players :
        /\ project.row
        /\ Begin(h, "login", {PlayerObject(p)}, "find", [p |-> p, key |-> calls])
        /\ UNCHANGED playerVars

FindPlayer(h) ==
    /\ At(h, "login", "find")
    /\ IF ~project.schema THEN Finish(h, {})
       ELSE GoOn(h, IF RowsOf(req[h].data.p) = {} THEN "insert" ELSE "update")
    /\ UNCHANGED playerVars

\* All rows of the player get the new key; two rows, of first logins that met, stay two.  A
\* row that went with the old schema does not come back, and the answer is a success too.
UpdatePlayer(h) ==
    /\ At(h, "login", "update") /\ project.schema
    /\ LET d == req[h].data  found == Cardinality(RowsOf(d.p)) IN
        /\ players' = LoggedIn(d.p, d.key)
        /\ issued' = [issued EXCEPT ![d.p] = [key |-> d.key, idle |-> 0]]
        /\ IF found = 0 THEN Leave(h, {PlayerObject(d.p)})
           ELSE Finish(h, IF found = 1 THEN {PlayerObject(d.p)} ELSE {})
    /\ UNCHANGED <<active, touches, marks, neglected>>

\* Nothing but a key of the project's own making would refuse a second row.
InsertPlayer(h) ==
    /\ At(h, "login", "insert") /\ project.schema
    /\ LET d == req[h].data IN
        /\ players' = Inserted(d.p, d.key)
        /\ issued' = [issued EXCEPT ![d.p] = [key |-> d.key, idle |-> 0]]
        /\ Finish(h, {})
    /\ UNCHANGED <<active, touches, marks, neglected>>

LoginRefused(h) ==
    /\ At(h, "login", "update") \/ At(h, "login", "insert")
    /\ ~project.schema
    /\ Finish(h, {})
    /\ UNCHANGED playerVars

\* The last statement may have been done, with a key that nobody was told.
LoginFails(h) ==
    /\ req[h] # NoReq /\ req[h].op = "login"
    /\ LET d == req[h].data IN
        /\ \/ UNCHANGED players
           \/ req[h].at = "update" /\ players' = LoggedIn(d.p, d.key)
           \/ req[h].at = "insert" /\ players' = Inserted(d.p, d.key)
        /\ Fail(h, IF req[h].at = "find" THEN {} ELSE {PlayerObject(d.p)})
    /\ UNCHANGED <<active, touches, marks, issued, neglected>>

----------------------------------------------------------------------------
\* POST sbox_session, and a request to an endpoint of auth_type sbox_session.
UseOps == {"check session", "use session"}
OfUse(h, at) == \E op \in UseOps : At(h, op, at)

UseSession(h) ==
    \E key \in {r.key : r \in players} \ {0} :
        /\ \/ project.row /\ Begin(h, "check session", {}, "find", [key |-> key])
           \/ BeginIn("slugs", h, "use session", {}, "find", [key |-> key])
        /\ UNCHANGED playerVars

FindSession(h) ==
    /\ OfUse(h, "find")
    /\ IF RowsWith(req[h].data.key) = {} THEN Finish(h, {})
       ELSE \E r \in RowsWith(req[h].data.key) :
            GoOn(h, IF Stale(r) THEN "expire" ELSE IF req[h].op = "check session" THEN "touch" ELSE "active")
    /\ UNCHANGED playerVars

\* A key that goes although the session has been used, or is about to have been.
Overtaken(rows) == {r.key : r \in {r \in rows : ~Stale(r) \/ r.key \in touches}}

\* UPDATE ... SET session_key = NULL, by the key alone.
EndSession(h) ==
    /\ OfUse(h, "expire")
    /\ LET rows == RowsWith(req[h].data.key) IN
        /\ players' = Cleared(rows)
        /\ neglected' = neglected \cup Overtaken(rows)
    /\ Finish(h, {})
    /\ UNCHANGED <<active, touches, marks, issued>>

\* The session is accepted, which counts as long as its row has the key.
Used(key) ==
    issued' = [p \in Players |->
        IF issued[p].key = key /\ RowsWith(key) # {} THEN [issued[p] EXCEPT !.idle = 0] ELSE issued[p]]

\* The plugin's own route waits for the update ...
TouchSession(h) ==
    /\ At(h, "check session", "touch")
    /\ LET key == req[h].data.key IN
        /\ players' = Touched(RowsWith(key))
        /\ Used(key)
    /\ Finish(h, {})
    /\ UNCHANGED <<active, touches, marks, neglected>>

\* ... an endpoint sends it when Redis does not have the key, and goes on.
\* Mutant: puts the key into Redis without the update.
MarkOnly(h) ==
    /\ At(h, "use session", "active")
    /\ LET key == req[h].data.key IN
        /\ IF \E a \in active : a.key = key THEN UNCHANGED marks ELSE marks' = marks \cup {key}
        /\ Used(key)
    /\ Finish(h, {})
    /\ UNCHANGED <<players, touches, active, neglected>>

LookActive(h) ==
    /\ At(h, "use session", "active")
    /\ LET key == req[h].data.key IN
        /\ IF \E a \in active : a.key = key THEN UNCHANGED <<touches, marks>>
           ELSE touches' = touches \cup {key} /\ marks' = marks \cup {key}
        /\ Used(key)
    /\ Finish(h, {})
    /\ UNCHANGED <<players, active, neglected>>

UseFails(h) ==
    /\ req[h] # NoReq /\ req[h].op \in UseOps
    /\ LET rows == RowsWith(req[h].data.key) IN
        \/ UNCHANGED <<players, neglected>>
        \/ /\ req[h].at = "expire"
           /\ players' = Cleared(rows)
           /\ neglected' = neglected \cup Overtaken(rows)
        \/ /\ req[h].at = "touch"
           /\ players' = Touched(rows)
           /\ UNCHANGED neglected
    /\ Fail(h, {})
    /\ UNCHANGED <<active, touches, marks, issued>>

\* The update and the key, which fail unnoticed.
TouchLater(key) ==
    /\ key \in touches /\ touches' = touches \ {key}
    /\ \/ /\ players' = Touched(RowsWith(key))
          /\ UNCHANGED <<faults, neglected>>
       \/ /\ Fault
          /\ neglected' = neglected \cup {key}
          /\ UNCHANGED players
    /\ UNCHANGED <<req, menu, calls, known, doubt, active, marks, issued>>

MarkLater(key) ==
    /\ key \in marks /\ marks' = marks \ {key}
    /\ \/ /\ active' = {a \in active : a.key # key} \cup {[key |-> key, left |-> ActiveTicks]}
          /\ UNCHANGED faults
       \/ Fault /\ UNCHANGED active
    /\ UNCHANGED <<req, menu, calls, known, doubt, players, touches, issued, neglected>>

----------------------------------------------------------------------------
\* One statement each: sbox_logout, the panel's revocations, its cleanup.
Clear(op, rows, ended) ==
    /\ op \in menu /\ calls > 0 /\ calls' = calls - 1
    /\ players' = Cleared(rows)
    /\ issued' = [p \in Players |-> IF p \in ended THEN NoLogin ELSE issued[p]]
    /\ UNCHANGED <<req, menu, faults, known, doubt, active, touches, marks>>

LogOut ==
    /\ \E r \in players : r.key # 0 /\ Clear("log out", RowsWith(r.key), {s.of : s \in RowsWith(r.key)})
    /\ UNCHANGED neglected

RevokeSession ==
    /\ \E p \in Players : Clear("revoke session", RowsOf(p), {p})
    /\ UNCHANGED neglected

RevokeAllSessions == Clear("revoke all", players, Players) /\ UNCHANGED neglected

CleanExpiredSessions ==
    LET stale == {r \in players : r.key # 0 /\ Stale(r)} IN
        Clear("clean sessions", stale, {}) /\ neglected' = neglected \cup Overtaken(stale)

\* A tick is longer than a command on its way, but not than a request.
Older(n) == IF n > SessionTtl THEN n ELSE n + 1
PlayerTick ==
    /\ players # {} /\ touches = {} /\ marks = {}
    /\ players' = {[r EXCEPT !.age = Older(@)] : r \in players}
    /\ issued' = [p \in Players |-> IF issued[p].key = 0 THEN issued[p] ELSE [issued[p] EXCEPT !.idle = Older(@)]]
    /\ active' = {[a EXCEPT !.left = @ - 1] : a \in {a \in active : a.left > 1}}
    /\ UNCHANGED <<req, menu, calls, faults, known, doubt, touches, marks, neglected>>

PlayerStep(h) ==
    \/ Login(h) \/ FindPlayer(h) \/ UpdatePlayer(h) \/ InsertPlayer(h) \/ LoginRefused(h) \/ LoginFails(h)
    \/ UseSession(h) \/ FindSession(h) \/ EndSession(h) \/ TouchSession(h) \/ LookActive(h) \/ UseFails(h)

PlayerTime ==
    \/ \E key \in touches : TouchLater(key)
    \/ \E key \in marks : MarkLater(key)
    \/ LogOut \/ RevokeSession \/ RevokeAllSessions \/ CleanExpiredSessions
    \/ PlayerTick

----------------------------------------------------------------------------
\* What a stop of the worker and a loss of Redis' memory do, and the end of the schema.
TouchesEnd ==
    /\ touches' = {} /\ marks' = {}
    /\ neglected' = neglected \cup touches
    /\ UNCHANGED <<players, active, issued>>

ActiveLost == active' = {} /\ UNCHANGED <<players, touches, marks, issued, neglected>>

PlayersGone == players' = {} /\ issued' = NoLogins /\ UNCHANGED <<active, touches, marks, neglected>>
====
