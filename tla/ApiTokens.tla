---- MODULE ApiTokens ----
(***************************************************************************)
(* The API tokens of a project: the control plane tells the worker of      *)
(* their creation and revocation (tokens/sync); requests are checked       *)
(* against Redis alone, and the table api_tokens_cache is there to fill    *)
(* Redis again when the worker starts or the control plane asks for it.    *)
(***************************************************************************)
EXTENDS ControlBase

CONSTANT Tokens

VARIABLES
    keys,    \* api_token:<hash> in Redis
    rows,    \* api_tokens_cache
    late,    \* whether the expiry of the expiring tokens has passed
    told,    \* history: the token as the last answered tokens/sync had it
    lost,    \* history: tokens whose key Redis may have lost since the last sync or restore
    rowless  \* history: tokens whose row is not what their last sync wrote

tokenVars == <<keys, rows, late, told, lost, rowless>>

NoToken == [rev |-> 0, dies |-> FALSE]
TokenRow == [rev : Nat, dies : BOOLEAN]
TokenObject(t) == <<"token", t>>
TokenObjects == {TokenObject(t) : t \in Tokens}
Expired(k) == k.dies /\ late

TokensInit ==
    /\ keys = [t \in Tokens |-> NoToken] /\ rows = keys /\ told = keys
    /\ late = FALSE /\ lost = {} /\ rowless = {}

----------------------------------------------------------------------------
\* tokens/sync.  The token of a call is told apart from older ones by the number of the
\* call; with an expiry in the past nothing is created.
SyncCreate(h) ==
    \E t \in Tokens, dies \in BOOLEAN :
        /\ ~(dies /\ late)
        /\ Begin(h, "create token", {TokenObject(t)}, "key", [t |-> t, new |-> [rev |-> calls, dies |-> dies]])
        /\ UNCHANGED tokenVars

SyncRevoke(h) ==
    \E t \in Tokens :
        /\ Begin(h, "revoke token", {TokenObject(t)}, "key", [t |-> t, new |-> NoToken])
        /\ UNCHANGED tokenVars

Syncing(h, at) == At(h, "create token", at) \/ At(h, "revoke token", at)

\* What stays lost when the request has gone through.
WholeAgain(h) == {t \in lost : TokenObject(t) \notin req[h].sure}

SyncKey(h) ==
    /\ Syncing(h, "key")
    /\ LET d == req[h].data IN
        /\ keys' = [keys EXCEPT ![d.t] = d.new]
        /\ Go(h, "row", d)
    /\ UNCHANGED <<rows, late, told, lost, rowless>>

\* Redis answers with an error, having done what it was asked or not.
SyncKeyFails(h) ==
    /\ Syncing(h, "key")
    /\ LET d == req[h].data IN
        /\ keys' \in {keys, [keys EXCEPT ![d.t] = d.new]}
        /\ Fail(h, {TokenObject(d.t)})
    /\ UNCHANGED <<rows, late, told, lost, rowless>>

SyncRow(h) ==
    /\ Syncing(h, "row")
    /\ LET d == req[h].data IN
        /\ rows' = [rows EXCEPT ![d.t] = d.new]
        /\ told' = [told EXCEPT ![d.t] = d.new]
        /\ lost' = WholeAgain(h) /\ rowless' = rowless \ {d.t}
        /\ Finish(h, {TokenObject(d.t)})
    /\ UNCHANGED <<keys, late>>

\* A failure of the table is swallowed: the answer is a success.
SyncRowFails(h) ==
    /\ Syncing(h, "row")
    /\ LET d == req[h].data IN
        /\ told' = [told EXCEPT ![d.t] = d.new]
        /\ lost' = WholeAgain(h) /\ rowless' = rowless \cup {d.t}
        /\ FinishAnyway(h, {TokenObject(d.t)})
    /\ UNCHANGED <<keys, rows, late>>

----------------------------------------------------------------------------
\* tokens/restore, and the same loop when the worker starts.
Restore(h) ==
    /\ Begin(h, "restore tokens", TokenObjects, "list", NoData)
    /\ UNCHANGED tokenVars

ListRows(h) ==
    /\ At(h, "restore tokens", "list")
    /\ Go(h, "next", [rows |-> rows, left |-> {t \in Tokens : rows[t] # NoToken}])
    /\ UNCHANGED tokenVars

\* The next row is one that has expired: delete the row of its hash.
DropExpired(h) ==
    /\ At(h, "restore tokens", "next")
    /\ LET d == req[h].data IN \E t \in d.left :
        /\ Expired(d.rows[t])
        /\ rows' = [rows EXCEPT ![t] = NoToken]
        /\ Go(h, "next", [d EXCEPT !.left = @ \ {t}])
    /\ UNCHANGED <<keys, late, told, lost, rowless>>

\* Mutant: restores over what Redis holds.
GetKeyNever(h) ==
    /\ At(h, "restore tokens", "next")
    /\ LET d == req[h].data IN \E t \in d.left :
        /\ ~Expired(d.rows[t])
        /\ Go(h, "set", [rows |-> d.rows, left |-> d.left \ {t}, t |-> t])
    /\ UNCHANGED tokenVars

GetKey(h) ==
    /\ At(h, "restore tokens", "next")
    /\ LET d == req[h].data IN \E t \in d.left :
        /\ ~Expired(d.rows[t])
        /\ IF keys[t] = NoToken
           THEN Go(h, "set", [rows |-> d.rows, left |-> d.left \ {t}, t |-> t])
           ELSE Go(h, "next", [d EXCEPT !.left = @ \ {t}])
    /\ UNCHANGED tokenVars

SetKey(h) ==
    /\ At(h, "restore tokens", "set")
    /\ LET d == req[h].data IN
        /\ keys' = [keys EXCEPT ![d.t] = d.rows[d.t]]
        /\ Go(h, "next", [rows |-> d.rows, left |-> d.left])
    /\ UNCHANGED <<rows, late, told, lost, rowless>>

\* What the restore has gone through is whole again, but for tokens that another request
\* changed or that have not their row.
RestoreEnds(h) ==
    /\ At(h, "restore tokens", "next") /\ req[h].data.left = {}
    /\ lost' = WholeAgain(h) \cup (lost \cap rowless)
    /\ Finish(h, {})
    /\ UNCHANGED <<keys, rows, late, told, rowless>>

RestoreFails(h) ==
    /\ At(h, "restore tokens", req[h].at)
    /\ Fail(h, {})
    /\ UNCHANGED tokenVars

----------------------------------------------------------------------------
\* The expiry passes; Redis removes the keys by itself, and the hourly cleanup the rows.
Expire ==
    /\ ~late
    /\ \E t \in Tokens : keys[t].dies \/ rows[t].dies
    /\ late' = TRUE
    /\ keys' = [t \in Tokens |-> IF keys[t].dies THEN NoToken ELSE keys[t]]
    /\ UNCHANGED <<rows, told, lost, rowless>>

\* A key restored after its expiry is given one second.
ExpireRestored ==
    /\ late /\ \E t \in Tokens : keys[t].dies
    /\ keys' = [t \in Tokens |-> IF keys[t].dies THEN NoToken ELSE keys[t]]
    /\ UNCHANGED <<rows, late, told, lost, rowless>>

CleanUp ==
    /\ \E t \in Tokens : Expired(rows[t])
    /\ rows' = [t \in Tokens |-> IF Expired(rows[t]) THEN NoToken ELSE rows[t]]
    /\ UNCHANGED <<keys, late, told, lost, rowless>>

TokenTime == (Expire \/ ExpireRestored \/ CleanUp) /\ UNCHANGED baseVars

TokenStep(h) ==
    \/ SyncCreate(h) \/ SyncRevoke(h) \/ SyncKey(h) \/ SyncKeyFails(h) \/ SyncRow(h) \/ SyncRowFails(h)
    \/ Restore(h) \/ ListRows(h) \/ DropExpired(h) \/ GetKey(h) \/ SetKey(h)
    \/ RestoreEnds(h) \/ RestoreFails(h)
====
