---- MODULE TxnManager ----
(***************************************************************************)
(* Transactions that stay open across calls of the AI gateway.  begin      *)
(* starts a knex transaction whose body waits for a signal; commit settles *)
(* the signal one way, rollback and the expiry timer the other, and only   *)
(* then does knex send COMMIT or ROLLBACK and give the connection back.    *)
(* Statements are calls of execute_sql_mutation: each looks the            *)
(* transaction up, validates its SQL through another connection of the     *)
(* pool and is then queued on the transaction's connection.                *)
(*                                                                         *)
(* PostgreSQL ends an open transaction by itself when the connection       *)
(* breaks, and does so after two minutes without a statement               *)
(* (config/database.ts:10), five times sooner than the default timer.      *)
(***************************************************************************)
EXTENDS FiniteSets, Naturals

CONSTANTS
    Txns,     \* transaction identifiers
    Calls,    \* calls of execute_sql_mutation
    PoolSize, \* connections in the pool
    Late,     \* bound: the transactions some client rolls back after their end
    NoTxn     \* a call that has not started

ASSUME TxnAssumption ==
    /\ IsFiniteSet(Txns)
    /\ PoolSize \in Nat \ {0}
    /\ NoTxn \notin Txns

VARIABLES
    entry,   \* none, acquiring, open (in the map, timer armed), ended, or refused
    signal,  \* the promise the transaction's body waits for
    held,    \* transactions that hold a connection of the pool
    pg,      \* the transaction as PostgreSQL sees it
    writes,  \* statements executed in each transaction
    table,   \* statements whose effect is visible
    call,    \* where each statement's handler is suspended
    target,  \* the transaction it was sent to
    answers  \* the answers commit_transaction and rollback_transaction gave to each

callVars == <<call, target>>
txnVars == <<entry, signal, held, pg, writes, table, callVars, answers>>

\* Statements handed to the transaction's connection, which runs them in order
\* and before the COMMIT or ROLLBACK that is queued behind them.
Queued(t) == {c \in Calls : call[c] = "sent" /\ target[c] = t}

FreeConnection == Cardinality(held) < PoolSize

----------------------------------------------------------------------------
TxnInit ==
    /\ entry = [t \in Txns |-> "none"]
    /\ signal = [t \in Txns |-> "pending"]
    /\ held = {}
    /\ pg = [t \in Txns |-> "none"]
    /\ writes = [t \in Txns |-> {}]
    /\ table = {}
    /\ call = [c \in Calls |-> "idle"]
    /\ target = [c \in Calls |-> NoTxn]
    /\ answers = [t \in Txns |-> {}]

BeginTxn(t) ==
    /\ entry[t] = "none"
    /\ entry' = [entry EXCEPT ![t] = "acquiring"]
    /\ UNCHANGED <<signal, held, pg, writes, table, callVars, answers>>

\* BEGIN and SET LOCAL succeeded: the entry is stored and its timer armed.
Open(t) ==
    /\ entry[t] = "acquiring"
    /\ FreeConnection
    /\ held' = held \cup {t}
    /\ pg' = [pg EXCEPT ![t] = "active"]
    /\ entry' = [entry EXCEPT ![t] = "open"]
    /\ UNCHANGED <<signal, writes, table, callVars, answers>>

\* No connection within fifteen seconds, or its first statement failed.
BeginFails(t) ==
    /\ entry[t] = "acquiring"
    /\ entry' = [entry EXCEPT ![t] = "refused"]
    /\ UNCHANGED <<signal, held, pg, writes, table, callVars, answers>>

\* getTrx: an identifier that is not in the map is answered 404.
GetTrx(c, t) ==
    /\ call[c] = "idle"
    /\ entry[t] = "open"
    /\ call' = [call EXCEPT ![c] = "validating"]
    /\ target' = [target EXCEPT ![c] = t]
    /\ UNCHANGED <<entry, signal, held, pg, writes, table, answers>>

\* The SQL was validated on a connection of its own; knex refuses a statement
\* for a transaction whose end it has already sent.
Send(c) ==
    /\ call[c] = "validating"
    /\ FreeConnection
    /\ call' = [call EXCEPT ![c] = IF signal[target[c]] = "pending" THEN "sent" ELSE "error"]
    /\ UNCHANGED <<entry, signal, held, pg, writes, table, target, answers>>

\* The SQL is refused, or validating it found no connection in time.
ValidationFails(c) ==
    /\ call[c] = "validating"
    /\ call' = [call EXCEPT ![c] = "error"]
    /\ UNCHANGED <<entry, signal, held, pg, writes, table, target, answers>>

\* Mutant of ExecuteInTxn: the statement runs on a connection of its own.
ExecuteOnPool(c) ==
    LET t == target[c] IN
    /\ call[c] = "sent"
    /\ pg[t] = "active"
    /\ writes' = [writes EXCEPT ![t] = @ \cup {c}]
    /\ table' = table \cup {c}
    /\ call' = [call EXCEPT ![c] = "ok"]
    /\ UNCHANGED <<entry, signal, held, pg, target, answers>>

ExecuteInTxn(c) ==
    LET t == target[c] IN
    /\ call[c] = "sent"
    /\ pg[t] = "active"
    /\ writes' = [writes EXCEPT ![t] = @ \cup {c}]
    /\ call' = [call EXCEPT ![c] = "ok"]
    /\ UNCHANGED <<entry, signal, held, pg, table, target, answers>>

\* A statement that fails puts the transaction in the state where every later
\* one fails too; on a broken connection they all fail.
StatementFails(c) ==
    LET t == target[c] IN
    /\ call[c] = "sent"
    /\ call' = [call EXCEPT ![c] = "error"]
    /\ pg' = [pg EXCEPT ![t] = IF @ = "active" THEN "failed" ELSE @]
    /\ UNCHANGED <<entry, signal, held, writes, table, target, answers>>

\* Mutant of EndEntry: the entry is dropped and its signal never settled.
EndEntryNoSignal(t, outcome) ==
    /\ entry[t] = "open"
    /\ entry' = [entry EXCEPT ![t] = "ended"]
    /\ UNCHANGED signal

\* The entry leaves the map and the signal is settled in one synchronous step.
EndEntry(t, outcome) ==
    /\ entry[t] = "open"
    /\ entry' = [entry EXCEPT ![t] = "ended"]
    /\ signal' = [signal EXCEPT ![t] = outcome]

Answer(t, a) == answers' = [answers EXCEPT ![t] = @ \cup {a}]

\* commit_transaction answers as soon as the signal is settled.
CommitCall(t) ==
    /\ EndEntry(t, "resolved")
    /\ Answer(t, "committed")
    /\ UNCHANGED <<held, pg, writes, table, callVars>>

\* Mutant of RollbackCall: the client is told the reason of the rejection.
RollbackCallReason(t) ==
    /\ EndEntry(t, "rejected")
    /\ Answer(t, "user")
    /\ UNCHANGED <<held, pg, writes, table, callVars>>

RollbackCall(t) ==
    /\ EndEntry(t, "rejected")
    /\ Answer(t, "rolled_back")
    /\ UNCHANGED <<held, pg, writes, table, callVars>>

\* A rollback of a transaction that is no longer in the map, committed ones
\* included, is answered rolled_back: true with the reason 'already-ended'.
\* A client holds no identifier before begin answers it.
RollbackEnded(t) ==
    /\ t \in Late
    /\ entry[t] = "ended"
    /\ Answer(t, "already_ended")
    /\ UNCHANGED <<entry, signal, held, pg, writes, table, callVars>>

\* Mutant of Timeout: a call that looks the transaction up clears its timer.
TimeoutIfUnused(t) ==
    /\ \A c \in Calls : target[c] # t
    /\ EndEntry(t, "rejected")
    /\ UNCHANGED <<held, pg, writes, table, callVars, answers>>

Timeout(t) ==
    /\ EndEntry(t, "rejected")
    /\ UNCHANGED <<held, pg, writes, table, callVars, answers>>

Release(t) == held' = held \ {t}

\* COMMIT of a failed transaction is a ROLLBACK that reports no error.
Commit(t) ==
    /\ signal[t] = "resolved"
    /\ pg[t] \in {"active", "failed"}
    /\ Queued(t) = {}
    /\ IF pg[t] = "active"
       THEN /\ pg' = [pg EXCEPT ![t] = "committed"]
            /\ table' = table \cup writes[t]
       ELSE /\ pg' = [pg EXCEPT ![t] = "rolled_back"]
            /\ UNCHANGED table
    /\ Release(t)
    /\ UNCHANGED <<entry, signal, writes, callVars, answers>>

\* ROLLBACK, or a COMMIT the database refuses (a deferred constraint): begin's
\* catch drops the error, since its caller was answered long ago.
Rollback(t) ==
    /\ signal[t] \in {"resolved", "rejected"}
    /\ pg[t] \in {"active", "failed"}
    /\ Queued(t) = {}
    /\ pg' = [pg EXCEPT ![t] = "rolled_back"]
    /\ Release(t)
    /\ UNCHANGED <<entry, signal, writes, table, callVars, answers>>

\* The server ends the session: the connection broke, or the transaction idled.
Disconnect(t) ==
    /\ pg[t] \in {"active", "failed"}
    /\ pg' = [pg EXCEPT ![t] = "gone"]
    /\ UNCHANGED <<entry, signal, held, writes, table, callVars, answers>>

\* The end of a transaction whose session is gone only frees its connection.
Discard(t) ==
    /\ signal[t] # "pending"
    /\ pg[t] = "gone"
    /\ t \in held
    /\ Queued(t) = {}
    /\ Release(t)
    /\ UNCHANGED <<entry, signal, pg, writes, table, callVars, answers>>

----------------------------------------------------------------------------
Finish(t) == Commit(t) \/ Rollback(t) \/ Discard(t)

Statement(c) == Send(c) \/ ValidationFails(c) \/ ExecuteInTxn(c) \/ StatementFails(c)

TxnNext ==
    \/ \E t \in Txns : BeginTxn(t) \/ Open(t) \/ BeginFails(t) \/ CommitCall(t) \/ RollbackCall(t)
                       \/ RollbackEnded(t) \/ Timeout(t) \/ Finish(t) \/ Disconnect(t)
    \/ \E c \in Calls : Statement(c) \/ \E t \in Txns : GetTrx(c, t)

\* Timers fire, the pool answers or times out, the database answers.
TxnFairness ==
    /\ \A t \in Txns : WF_txnVars(Timeout(t)) /\ WF_txnVars(Finish(t)) /\ WF_txnVars(Open(t) \/ BeginFails(t))
    /\ \A c \in Calls : WF_txnVars(Statement(c))

TxnSpec == TxnInit /\ [][TxnNext]_txnVars

TxnFairSpec == TxnSpec /\ TxnFairness

----------------------------------------------------------------------------
\* Type invariant of the entries, the signals, the pool and the calls.
TxnTypeOK ==
    /\ entry \in [Txns -> {"none", "acquiring", "open", "ended", "refused"}]
    /\ signal \in [Txns -> {"pending", "resolved", "rejected"}]
    /\ held \subseteq Txns
    /\ pg \in [Txns -> {"none", "active", "failed", "gone", "committed", "rolled_back"}]
    /\ writes \in [Txns -> SUBSET Calls]
    /\ table \subseteq Calls
    /\ call \in [Calls -> {"idle", "validating", "sent", "ok", "error"}]
    /\ target \in [Calls -> Txns \cup {NoTxn}]
    /\ answers \in [Txns -> SUBSET {"committed", "rolled_back", "already_ended"}]

\* The pool never hands out more connections than it has, and a transaction the
\* database still runs always has one: none is lost between the map, the timer
\* and knex.
ConnectionsAccounted ==
    /\ Cardinality(held) <= PoolSize
    /\ \A t \in Txns : pg[t] \in {"active", "failed"} => t \in held
    /\ \A t \in held : entry[t] = "open" \/ signal[t] # "pending"

\* What clients were told about the end of a transaction, over any number of
\* calls: "committed" exactly when its signal was settled that way, so that a
\* timer or a rollback that comes around a commit never undoes it; a rollback
\* with the reason of its caller only of a transaction rolled back; and the
\* reason 'already-ended', beside which rolled_back: true says nothing of the
\* outcome, only of one that can no longer be committed or rolled back.
AnswerIsTheSignal ==
    \A t \in Txns :
        /\ "committed" \in answers[t] <=> signal[t] = "resolved"
        /\ "rolled_back" \in answers[t] => signal[t] = "rejected"
        /\ "already_ended" \in answers[t] => entry[t] = "ended" /\ signal[t] # "pending"

\* A statement answered "ok" became visible if, and only if, its transaction
\* committed: none runs outside its transaction, however it races its end.
OkRunsInside ==
    \A c \in Calls : call[c] = "ok" => (c \in table <=> pg[target[c]] = "committed")

\* Status of a transaction as a batch: nothing it did before its end shows.
batchStatus == [t \in Txns |-> CASE pg[t] = "committed" -> "committed"
                                 [] pg[t] \in {"rolled_back", "gone"} -> "aborted"
                                 [] OTHER -> "open"]

Batch == INSTANCE AtomicBatches WITH
    Batches <- Txns, Writes <- Calls, status <- batchStatus, members <- writes, visible <- table

\* The transactions of the gateway are atomic batches.
ImplementsAtomicBatches == Batch!Spec

\* A transaction that was opened gives its connection back, whether its client
\* ever ends it or not.
ConnectionsReturn == \A t \in Txns : entry[t] = "open" ~> t \notin held
====
