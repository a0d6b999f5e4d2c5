---- MODULE ControlPlane_proofs ----
(***************************************************************************)
(* Proofs about the deliveries of webhooks, the timers of uptime monitors, *)
(* the counters of requests and the types of all that the control plane's  *)
(* handlers work on, for any number of handlers, webhooks, events, retries,*)
(* monitors, paths and flushes: DeliveryExplained, MonitorExplained,       *)
(* FlushExplained and ControlTypeOK, in every state.                       *)
(***************************************************************************)
EXTENDS Sessions_proofs, WellFoundedInduction

----------------------------------------------------------------------------
(***************************************************************************)
(* The strengthening.  A webhook that is neither there nor gone has never  *)
(* been, so that nothing was sent to it; an event has deliveries only once *)
(* its webhooks have been looked up; and of each delivery, what its stage  *)
(* says of the number of answers, which of them may have been final, and   *)
(* which of its attempts have been logged.                                 *)
(***************************************************************************)
Stages == {"none", "send", "log", "logError", "done", "rejected", "cut"}

HooksOK ==
    /\ hooks \in [Hooks -> HookRow]
    /\ \A k \in Hooks : hooks[k].active => hooks[k].there
SendRow == [at : Stages, attempt : Nat, retries : Nat]
SendsOK == sends \in [Events -> [Hooks -> SendRow]]
ReceivedOK == received \in [Events -> [Hooks -> Seq(Answered)]]

NotYet(k) == \A e \in Events : sends[e][k].at = "none"
NewHooksOK == \A k \in Hooks : (~hooks[k].there /\ ~hooks[k].gone) => NotYet(k)
EventsOK ==
    /\ lookups \subseteq announced
    /\ \A e \in Events : (e \in lookups \/ e \notin announced) => \A k \in Hooks : sends[e][k].at = "none"

Excused(e, k, i) ==
    hooks[k].gone \/ k \in cleared \/ [e |-> e, k |-> k, attempt |-> i, error |-> TRUE] \in hookLogs
Noted(e, k, i) == \E l \in hookLogs : l.e = e /\ l.k = k /\ l.attempt = i

StageOK(e, k) ==
    LET s == sends[e][k]  n == Len(received[e][k]) IN
    /\ s.at = "none" => n = 0
    /\ s.at = "send" => s.attempt = n + 1 /\ n <= s.retries
    /\ s.at \in {"log", "logError"} => s.attempt = n /\ 1 <= n /\ n <= s.retries + 1
    /\ s.at \in {"done", "rejected", "cut"} => n <= s.retries + 1
    /\ s.at = "done" => n = s.retries + 1 \/ \E i \in 1 .. n : Final(received[e][k][i])

RepeatOK(e, k) ==
    LET s == sends[e][k]  n == Len(received[e][k]) IN
    \A i \in 1 .. n : Final(received[e][k][i]) => Excused(e, k, i) \/ (i = n /\ s.at # "send")

NotedOK(e, k) ==
    LET s == sends[e][k]  n == Len(received[e][k]) IN
    (hooks[k].there /\ k \notin cleared) =>
        \A i \in 1 .. n :
            (s.at \in {"send", "done"} \/ (s.at \in {"log", "logError"} /\ i < n)) => Noted(e, k, i)

PairOK(e, k) == StageOK(e, k) /\ RepeatOK(e, k) /\ NotedOK(e, k)

DeliveryInv ==
    /\ HooksOK /\ SendsOK /\ ReceivedOK /\ NewHooksOK /\ EventsOK
    /\ \A e \in Events, k \in Hooks : PairOK(e, k)

\* What a step that changes webhooks or logs, but not the delivery, leaves as it is: a
\* webhook that has deliveries does not come back, and its logs stay unless it is gone, or
\* they have been cleared: a restore, which brings webhooks back, clears them.
HookKept(k) ==
    /\ hooks[k].gone => hooks'[k].gone
    /\ k \in cleared => k \in cleared'
    /\ NotYet(k) \/ k \in cleared' \/
        /\ hooks'[k].there => hooks[k].there
        /\ \/ hooks'[k].gone /\ ~hooks'[k].there
           \/ \A l \in hookLogs : l.k = k => l \in hookLogs'

\* Such a step keeps what the invariant says of the delivery.
LEMMA PairKept ==
    ASSUME NEW e \in Events, NEW k \in Hooks, SendsOK, ReceivedOK, PairOK(e, k), HookKept(k),
           sends'[e][k] = sends[e][k], received'[e][k] = received[e][k]
    PROVE  PairOK(e, k)'
<1>1. StageOK(e, k)'
    BY DEF PairOK, StageOK
<1>2. CASE NotYet(k)
    <2>1. sends[e][k].at = "none" /\ Len(received[e][k]) = 0
        BY <1>2 DEF NotYet, PairOK, StageOK
    <2> QED BY <1>1, <2>1 DEF PairOK, RepeatOK, NotedOK
<1>3. CASE ~NotYet(k)
    <2>1. \A i : Excused(e, k, i) => Excused(e, k, i)'
        BY <1>3 DEF HookKept, Excused
    <2>2. \A i : (hooks'[k].there /\ k \notin cleared' /\ Noted(e, k, i)) => Noted(e, k, i)'
        BY <1>3 DEF HookKept, Noted
    <2>3. (hooks'[k].there /\ k \notin cleared') => (hooks[k].there /\ k \notin cleared)
        BY <1>3 DEF HookKept
    <2>4. RepeatOK(e, k)'
        BY <2>1 DEF PairOK, RepeatOK
    <2>5. NotedOK(e, k)'
        BY <2>2, <2>3 DEF PairOK, NotedOK
    <2> QED BY <1>1, <2>4, <2>5 DEF PairOK
<1> QED BY <1>2, <1>3

\* A step of the webhooks' own table keeps the invariant.
LEMMA TableStepKeeps ==
    ASSUME DeliveryInv, HooksOK', NewHooksOK', \A k \in Hooks : HookKept(k),
           UNCHANGED <<sends, received, lookups, announced>>
    PROVE  DeliveryInv'
<1>1. SendsOK' /\ ReceivedOK' /\ EventsOK'
    BY DEF DeliveryInv, SendsOK, ReceivedOK, EventsOK
<1>2. ASSUME NEW e \in Events, NEW k \in Hooks PROVE PairOK(e, k)'
    BY PairKept DEF DeliveryInv
<1> QED BY <1>1, <1>2 DEF DeliveryInv

----------------------------------------------------------------------------
(***************************************************************************)
(* The steps.                                                              *)
(***************************************************************************)

\* What is there of a webhook whose row is removed.
LEMMA GoneHookIsGone ==
    ASSUME NEW hook \in HookRow
    PROVE  /\ GoneHook(hook) \in HookRow
           /\ ~GoneHook(hook).there /\ ~GoneHook(hook).active
           /\ GoneHook(hook).gone <=> (hook.there \/ hook.gone)
BY DEF GoneHook, NoHook, HookRow

\* Every request of the webhooks' routes keeps the invariant.
LEMMA HookRowsKeep ==
    ASSUME DeliveryInv, NEW h, HookStep(h)
    PROVE  DeliveryInv'
<1> USE DEF DeliveryInv, HooksOK, NewHooksOK, HookKept, NotYet
<1>1. CASE UNCHANGED hookVars
    BY <1>1, TableStepKeeps DEF hookVars
<1>2. CASE AddColumn(h) \/ DropColumn(h)
    BY <1>2, TableStepKeeps DEF AddColumn, DropColumn, Unlaid
<1>3. CASE FillColumn(h)
    <2>1. /\ hooks' = [k \in Hooks |-> [hooks[k] EXCEPT !.named = hooks[k].there]]
          /\ UNCHANGED <<hookLogs, cleared, sends, lookups, received, announced>>
        BY <1>3 DEF FillColumn
    <2>2. HooksOK'
        BY <2>1 DEF HookRow
    <2>3. \A k \in Hooks : hooks'[k].there = hooks[k].there /\ hooks'[k].gone = hooks[k].gone
        BY <2>1 DEF HookRow
    <2> QED BY <2>1, <2>2, <2>3, TableStepKeeps
<1>4. CASE InsertHook(h)
    <2>1. CASE UNCHANGED hooks
        BY <1>4, <2>1, TableStepKeeps DEF InsertHook
    <2>2. CASE hooks' # hooks
        <3>1. PICK k \in Hooks, on \in BOOLEAN, retries \in 0 .. MaxRetries :
                /\ hooks[k] = NoHook
                /\ hooks' = [hooks EXCEPT ![k] = [there |-> TRUE, gone |-> FALSE, active |-> on,
                                                  named |-> TRUE, retries |-> retries]]
            BY <1>4, <2>2 DEF InsertHook
        <3>2. UNCHANGED <<hookLogs, cleared, sends, lookups, received, announced>>
            BY <1>4 DEF InsertHook
        <3>3. retries \in Nat
            BY HooksAssumption
        <3>4. HooksOK'
            BY <3>1, <3>3 DEF HookRow
        <3>5. hooks'[k].there /\ NotYet(k) /\ ~hooks[k].gone
            BY <3>1 DEF NoHook
        <3>6. \A x \in Hooks \ {k} : hooks'[x] = hooks[x]
            BY <3>1
        <3>7. NewHooksOK' /\ \A x \in Hooks : HookKept(x)
            BY <3>2, <3>5, <3>6
        <3> QED BY <3>2, <3>4, <3>7, TableStepKeeps
    <2> QED BY <2>1, <2>2
<1>5. CASE UpdateHook(h)
    <2>1. PICK k \in Hooks, on \in BOOLEAN, retries \in 0 .. MaxRetries :
            hooks' = IF hooks[k].there
                     THEN [hooks EXCEPT ![k] = [@ EXCEPT !.active = on, !.retries = retries]]
                     ELSE hooks
        BY <1>5 DEF UpdateHook
    <2>2. UNCHANGED <<hookLogs, cleared, sends, lookups, received, announced>>
        BY <1>5 DEF UpdateHook
    <2>3. retries \in Nat
        BY HooksAssumption
    <2>4. HooksOK'
        BY <2>1, <2>3 DEF HookRow
    <2>5. \A x \in Hooks : hooks'[x].there = hooks[x].there /\ hooks'[x].gone = hooks[x].gone
        BY <2>1 DEF HookRow
    <2> QED BY <2>2, <2>4, <2>5, TableStepKeeps
<1>6. CASE DeleteLogs(h)
    <2>1. /\ hookLogs' = {l \in hookLogs : l.k # req[h].data.k}
          /\ cleared' = cleared \cup {req[h].data.k}
          /\ UNCHANGED <<hooks, sends, lookups, received, announced>>
        BY <1>6 DEF DeleteLogs
    <2> QED BY <2>1, TableStepKeeps
<1>7. CASE DeleteHook(h)
    <2> DEFINE removed == req[h].data.k
    <2>1. /\ hooks' = [hooks EXCEPT ![removed] = GoneHook(@)]
          /\ hookLogs' = {l \in hookLogs : l.k # removed}
          /\ UNCHANGED <<cleared, sends, lookups, received, announced>>
        BY <1>7 DEF DeleteHook
    <2>2. ASSUME NEW k \in Hooks
          PROVE  hooks'[k] = IF k = removed THEN GoneHook(hooks[k]) ELSE hooks[k]
        BY <2>1
    <2>3. HooksOK'
        BY <2>1, <2>2, GoneHookIsGone
    <2>4. NewHooksOK' /\ \A k \in Hooks : HookKept(k)
        BY <2>1, <2>2, GoneHookIsGone
    <2> QED BY <2>1, <2>3, <2>4, TableStepKeeps
<1>8. CASE ReplaceHooks(h)
    <2>1. CASE UNCHANGED <<hooks, hookLogs, cleared>>
        BY <1>8, <2>1, TableStepKeeps DEF ReplaceHooks
    <2>2. CASE ~UNCHANGED <<hooks, hookLogs, cleared>>
        <3>1. PICK saved \in [Hooks -> SavedHook] :
                hooks' = [k \in Hooks |-> IF saved[k].there THEN saved[k] ELSE GoneHook(hooks[k])]
            BY <1>8, <2>2 DEF ReplaceHooks
        <3>2. cleared' = Hooks /\ UNCHANGED <<sends, received, lookups, announced>>
            BY <1>8, <2>2 DEF ReplaceHooks
        <3>3. \A k \in Hooks : saved[k] \in HookRow /\ (saved[k].there => saved[k].gone) /\ (saved[k].active => saved[k].there)
            <4>1. ASSUME NEW k \in Hooks
                  PROVE  saved[k] \in HookRow /\ (saved[k].there => saved[k].gone) /\ (saved[k].active => saved[k].there)
                <5>1. saved[k] \in SavedHook
                    OBVIOUS
                <5>2. CASE saved[k] = NoHook
                    BY <5>2 DEF NoHook, HookRow
                <5>3. CASE saved[k] \in [there : {TRUE}, gone : {TRUE}, active : BOOLEAN, named : {TRUE}, retries : 0 .. MaxRetries]
                    <6>1. saved[k].there = TRUE /\ saved[k].gone = TRUE
                        BY <5>3
                    <6>2. 0 .. MaxRetries \subseteq Nat
                        BY HooksAssumption
                    <6>3. saved[k] \in HookRow
                        BY <5>3, <6>2 DEF HookRow
                    <6> QED BY <6>1, <6>3
                <5> QED BY <5>1, <5>2, <5>3 DEF SavedHook
            <4> QED BY <4>1
        <3>4. HooksOK'
            BY <3>1, <3>3, GoneHookIsGone
        <3>5. \A k \in Hooks : hooks[k].there \/ hooks[k].gone => hooks'[k].gone
            BY <3>1, <3>3, GoneHookIsGone
        <3>6. NewHooksOK'
            BY <3>2, <3>5
        <3> QED BY <3>2, <3>4, <3>5, <3>6, TableStepKeeps
    <2> QED BY <2>1, <2>2
<1> QED BY <1>1, <1>2, <1>3, <1>4, <1>5, <1>6, <1>7, <1>8
    DEF HookStep, AddHook, ChangeHook, ListHooks, RemoveHook, RestoreHooks, HasColumn, AddColumnRefused, ReadHooks, HookStepFails

\* The removal of all webhooks with their project keeps it.
LEMMA HooksGoneKeeps ==
    ASSUME DeliveryInv, HooksGone
    PROVE  DeliveryInv'
<1> USE DEF DeliveryInv, HooksOK, NewHooksOK, HookKept, NotYet
<1>1. /\ hooks' = [k \in Hooks |-> GoneHook(hooks[k])]
      /\ UNCHANGED <<cleared, sends, lookups, received, announced>>
    BY DEF HooksGone
<1>2. HooksOK'
    BY <1>1, GoneHookIsGone
<1>3. NewHooksOK' /\ \A k \in Hooks : HookKept(k)
    BY <1>1, GoneHookIsGone
<1> QED BY <1>1, <1>2, <1>3, TableStepKeeps

\* A step of one delivery leaves the others alone.
OtherPairsStay(e, k) ==
    \A f \in Events, j \in Hooks :
        (f # e \/ j # k) => sends'[f][j] = sends[f][j] /\ received'[f][j] = received[f][j]

\* It keeps the invariant when it keeps what it says of this delivery.
LEMMA OneDeliveryKeeps ==
    ASSUME DeliveryInv, NEW e \in Events, NEW k \in Hooks,
           sends[e][k].at # "none", SendsOK', ReceivedOK', OtherPairsStay(e, k),
           UNCHANGED <<hooks, cleared, lookups, announced>>, hookLogs \subseteq hookLogs',
           PairOK(e, k)'
    PROVE  DeliveryInv'
<1> USE DEF DeliveryInv
<1>1. HooksOK'
    BY DEF HooksOK
<1>2. NewHooksOK'
    BY DEF NewHooksOK, NotYet, OtherPairsStay
<1>3. EventsOK'
    BY DEF EventsOK, OtherPairsStay
<1>4. ASSUME NEW f \in Events, NEW j \in Hooks PROVE PairOK(f, j)'
    <2>1. HookKept(j)
        BY DEF HookKept
    <2>2. CASE f = e /\ j = k
        BY <2>2
    <2>3. CASE f # e \/ j # k
        BY <2>1, <2>3, PairKept DEF OtherPairsStay
    <2> QED BY <2>2, <2>3
<1> QED BY <1>1, <1>2, <1>3, <1>4

----------------------------------------------------------------------------
(***************************************************************************)
(* The steps of a delivery.                                                *)
(***************************************************************************)

\* One entry of a table of events and webhooks is replaced.
LEMMA PutOne ==
    ASSUME NEW S, NEW f \in [Events -> [Hooks -> S]], NEW e \in Events, NEW k \in Hooks, NEW v \in S,
           NEW g, g = [f EXCEPT ![e][k] = v]
    PROVE  /\ g \in [Events -> [Hooks -> S]] /\ g[e][k] = v
           /\ \A x \in Events, y \in Hooks : (x # e \/ y # k) => g[x][y] = f[x][y]
OBVIOUS

\* An answer is added at the end of the others.
LEMMA OneMore ==
    ASSUME NEW S, NEW q \in Seq(S), NEW a \in S
    PROVE  /\ Append(q, a) \in Seq(S)
           /\ Len(q) \in Nat /\ Len(Append(q, a)) = Len(q) + 1
           /\ \A i \in 1 .. Len(q) : Append(q, a)[i] = q[i]
           /\ Append(q, a)[Len(q) + 1] = a
BY AppendProperties, LenProperties

\* The two changes of a delivery's stage.
LEMMA StagedStages ==
    ASSUME NEW s \in SendRow, NEW at \in Stages
    PROVE  /\ Staged(s, at) \in SendRow /\ Staged(s, at).at = at
           /\ Staged(s, at).attempt = s.attempt /\ Staged(s, at).retries = s.retries
BY DEF Staged, SendRow

\* The next try of a delivery is one attempt more, of the same webhook.
LEMMA NextTryTries ==
    ASSUME NEW s \in SendRow
    PROVE  /\ NextTry(s) \in SendRow /\ NextTry(s).retries = s.retries
           /\ \/ s.attempt <= s.retries /\ NextTry(s).at = "send" /\ NextTry(s).attempt = s.attempt + 1
              \/ s.attempt > s.retries /\ NextTry(s).at = "done" /\ NextTry(s).attempt = s.attempt
<1>1. s.attempt \in Nat /\ s.retries \in Nat
    BY DEF SendRow
<1>2. CASE s.attempt <= s.retries
    <2>1. NextTry(s) = [at |-> "send", attempt |-> s.attempt + 1, retries |-> s.retries]
        BY <1>2 DEF NextTry
    <2>2. NextTry(s) \in SendRow
        BY <1>1, <2>1 DEF SendRow, Stages
    <2> QED BY <1>2, <2>1, <2>2
<1>3. CASE s.attempt > s.retries
    <2>1. NextTry(s) = Staged(s, "done")
        BY <1>1, <1>3 DEF NextTry
    <2>2. "done" \in Stages
        BY DEF Stages
    <2>3. /\ Staged(s, "done") \in SendRow /\ Staged(s, "done").at = "done"
          /\ Staged(s, "done").attempt = s.attempt /\ Staged(s, "done").retries = s.retries
        BY <2>2, StagedStages
    <2> QED BY <1>3, <2>1, <2>3
<1> QED BY <1>1, <1>2, <1>3

\* What is the case of the delivery from event e to webhook k before one of its steps.
Given(e, k, s, q, n) ==
    /\ s = sends[e][k] /\ q = received[e][k] /\ n = Len(q)
    /\ s \in SendRow /\ q \in Seq(Answered) /\ n \in Nat

\* Sending: an answer more, which is not logged yet.
LEMMA SendKeeps ==
    ASSUME DeliveryInv, NEW e \in Events, NEW k \in Hooks, Send(e, k)
    PROVE  DeliveryInv'
<1>1. SendsOK /\ ReceivedOK /\ PairOK(e, k)
    BY DEF DeliveryInv
<1>2. PICK s \in SendRow, q \in Seq(Answered), n \in Nat : Given(e, k, s, q, n)
    BY <1>1, LenProperties DEF SendsOK, ReceivedOK, Given
<1>3. PICK a \in Answered :
        /\ received' = [received EXCEPT ![e][k] = Append(@, a)]
        /\ Then(e, k, IF a = "none" THEN "logError" ELSE "log")
    BY DEF Send
<1>4. s.at = "send" /\ UNCHANGED <<hooks, cleared, lookups, announced, hookLogs>>
    BY <1>2 DEF Send, Sending, Given
<1>5. PICK at \in {"log", "logError"} : sends' = [sends EXCEPT ![e][k] = Staged(s, at)]
    BY <1>2, <1>3 DEF Then, Given
<1>6. received' = [received EXCEPT ![e][k] = Append(q, a)]
    BY <1>2, <1>3 DEF Given
<1>7. Append(q, a) \in Seq(Answered) /\ Len(Append(q, a)) = n + 1 /\ \A i \in 1 .. n : Append(q, a)[i] = q[i]
    <2>1. n = Len(q)
        BY <1>2 DEF Given
    <2> QED BY <2>1, OneMore
<1>8. /\ Staged(s, at) \in SendRow /\ Staged(s, at).at = at
      /\ Staged(s, at).attempt = s.attempt /\ Staged(s, at).retries = s.retries
    <2>1. at \in Stages
        BY DEF Stages
    <2> QED BY <2>1, StagedStages
<1>9. SendsOK' /\ sends'[e][k] = Staged(s, at)
    BY <1>1, <1>5, <1>8, PutOne DEF SendsOK
<1>10. ReceivedOK' /\ received'[e][k] = Append(q, a)
    BY <1>1, <1>6, <1>7, PutOne DEF ReceivedOK
<1>11. OtherPairsStay(e, k)
    <2>1. \A x \in Events, y \in Hooks : (x # e \/ y # k) => sends'[x][y] = sends[x][y]
        BY <1>1, <1>5, <1>8, PutOne DEF SendsOK
    <2>2. \A x \in Events, y \in Hooks : (x # e \/ y # k) => received'[x][y] = received[x][y]
        BY <1>1, <1>2, <1>6, <1>7, PutOne DEF ReceivedOK
    <2> QED BY <2>1, <2>2 DEF OtherPairsStay
<1>12. s.attempt = n + 1 /\ n <= s.retries /\ s.attempt \in Nat /\ s.retries \in Nat
    BY <1>1, <1>2, <1>4 DEF PairOK, StageOK, Given, SendRow
<1>13. StageOK(e, k)'
    <2>1. Len(received'[e][k]) = n + 1
        BY <1>7, <1>10
    <2>2. /\ sends'[e][k].at \in {"log", "logError"}
          /\ sends'[e][k].attempt = n + 1 /\ sends'[e][k].retries = s.retries
        BY <1>8, <1>9, <1>12
    <2> QED BY <1>12, <2>1, <2>2 DEF StageOK
<1>14. RepeatOK(e, k)'
    <2>1. \A i \in 1 .. n : Final(q[i]) => Excused(e, k, i)
        BY <1>1, <1>2, <1>4 DEF PairOK, RepeatOK, Given
    <2>2. \A i : Excused(e, k, i)' <=> Excused(e, k, i)
        BY <1>4 DEF Excused
    <2>3. ASSUME NEW i \in 1 .. n + 1, Final(Append(q, a)[i])
          PROVE  Excused(e, k, i)' \/ i = n + 1
        <3>1. CASE i \in 1 .. n
            BY <1>7, <2>1, <2>2, <2>3, <3>1
        <3> QED BY <3>1
    <2> QED BY <1>7, <1>8, <1>9, <1>10, <2>3 DEF RepeatOK, Final
<1>15. NotedOK(e, k)'
    <2>1. (hooks[k].there /\ k \notin cleared) => \A i \in 1 .. n : Noted(e, k, i)
        BY <1>1, <1>2, <1>4 DEF PairOK, NotedOK, Given
    <2>2. \A i : Noted(e, k, i)' <=> Noted(e, k, i)
        BY <1>4 DEF Noted
    <2>3. Len(received'[e][k]) = n + 1 /\ sends'[e][k].at \in {"log", "logError"}
        BY <1>7, <1>8, <1>9, <1>10
    <2>4. \A i \in 1 .. n + 1 : i < n + 1 => i \in 1 .. n
        OBVIOUS
    <2> QED BY <1>4, <2>1, <2>2, <2>3, <2>4 DEF NotedOK
<1> QED BY <1>2, <1>4, <1>9, <1>10, <1>11, <1>13, <1>14, <1>15, OneDeliveryKeeps DEF PairOK, Given

\* Logging: the delivery pauses and sends again, ends, or logs once more.
LEMMA LoggingKeeps ==
    ASSUME DeliveryInv, NEW e \in Events, NEW k \in Hooks,
           NEW s \in SendRow, s = sends[e][k], s.at \in {"log", "logError"},
           NEW new \in SendRow, sends' = [sends EXCEPT ![e][k] = new],
           new.at # "none", new.retries = s.retries,
           UNCHANGED <<hooks, cleared, lookups, announced, received>>, hookLogs \subseteq hookLogs',
           new.at \in {"send", "done"} => Noted(e, k, s.attempt)',
           new.at = "send" =>
               /\ new.attempt = s.attempt + 1 /\ s.attempt <= s.retries
               /\ Final(Answer(e, k)) => Excused(e, k, s.attempt)',
           new.at = "done" => s.attempt > s.retries \/ Final(Answer(e, k)),
           new.at \in {"log", "logError"} => new.attempt = s.attempt
    PROVE  DeliveryInv'
<1>1. SendsOK /\ ReceivedOK /\ PairOK(e, k)
    BY DEF DeliveryInv
<1>2. PICK q \in Seq(Answered), n \in Nat : Given(e, k, s, q, n)
    BY <1>1, LenProperties DEF SendsOK, ReceivedOK, Given
<1>3. received[e][k] = q /\ received'[e][k] = q /\ Len(q) = n
    BY <1>2 DEF Given
<1>4. s.attempt = n /\ n >= 1 /\ n <= s.retries + 1 /\ s.retries \in Nat
    BY <1>1, <1>2 DEF PairOK, StageOK, Given, SendRow
<1>5. SendsOK' /\ sends'[e][k] = new
    BY <1>1, PutOne DEF SendsOK
<1>6. ReceivedOK'
    BY <1>1 DEF ReceivedOK
<1>7. OtherPairsStay(e, k)
    BY <1>1, PutOne DEF SendsOK, OtherPairsStay
<1>8. Answer(e, k) = q[n]
    BY <1>3, <1>4 DEF Answer
<1>9. StageOK(e, k)'
    BY <1>3, <1>4, <1>5, <1>8 DEF StageOK
<1>10. RepeatOK(e, k)'
    <2>1. \A i \in 1 .. n : Final(q[i]) => Excused(e, k, i) \/ i = n
        BY <1>1, <1>3 DEF PairOK, RepeatOK
    <2>2. \A i : Excused(e, k, i) => Excused(e, k, i)'
        BY DEF Excused
    <2>3. \A i \in 1 .. n : Final(q[i]) => Excused(e, k, i)' \/ (i = n /\ new.at # "send")
        BY <1>4, <1>8, <2>1, <2>2
    <2> QED BY <1>3, <1>5, <2>3 DEF RepeatOK, Final
<1>11. NotedOK(e, k)'
    <2>1. (hooks[k].there /\ k \notin cleared) => \A i \in 1 .. n : i < n => Noted(e, k, i)
        BY <1>1, <1>3 DEF PairOK, NotedOK
    <2>2. \A i : Noted(e, k, i) => Noted(e, k, i)'
        BY DEF Noted
    <2>3. (new.at \in {"send", "done"}) => Noted(e, k, n)'
        BY <1>4
    <2> QED BY <1>3, <1>4, <1>5, <2>1, <2>2, <2>3 DEF NotedOK
<1> QED BY <1>5, <1>6, <1>7, <1>9, <1>10, <1>11, OneDeliveryKeeps DEF PairOK

\* What has been logged is there.
LEMMA LoggedNotes ==
    ASSUME NEW e \in Events, NEW k \in Hooks, NEW error, NEW n,
           n = sends[e][k].attempt, Logged(e, k, error)
    PROVE  /\ hookLogs \subseteq hookLogs'
           /\ Noted(e, k, n)'
           /\ error = TRUE => Excused(e, k, n)'
<1> DEFINE l == [e |-> e, k |-> k, attempt |-> n, error |-> error]
<1>1. hookLogs' = hookLogs \cup {l}
    BY DEF Logged
<1>2. l.e = e /\ l.k = k /\ l.attempt = n
    OBVIOUS
<1>3. error = TRUE => l = [e |-> e, k |-> k, attempt |-> n, error |-> TRUE]
    OBVIOUS
<1> HIDE DEF l
<1>4. l \in hookLogs' /\ hookLogs \subseteq hookLogs'
    BY <1>1
<1> QED BY <1>2, <1>3, <1>4 DEF Noted, Excused

\* Every step of a delivery keeps the invariant.
LEMMA DeliverKeeps ==
    ASSUME DeliveryInv, NEW e \in Events, NEW k \in Hooks, Deliver(e, k)
    PROVE  DeliveryInv'
<1>1. PICK s \in SendRow : s = sends[e][k]
    BY DEF DeliveryInv, SendsOK
<1>2. s.attempt \in Nat /\ s.retries \in Nat
    BY DEF SendRow
<1>3. CASE LogAttempt(e, k)
    <2>1. /\ s.at = "log" /\ Logged(e, k, FALSE)
          /\ UNCHANGED <<hooks, cleared, lookups, received, announced>>
        BY <1>1, <1>3 DEF LogAttempt, Sending
    <2>2. CASE Final(Answer(e, k))
        <3>1. sends' = [sends EXCEPT ![e][k] = Staged(s, "done")]
            BY <1>1, <1>3, <2>2 DEF LogAttempt, Then
        <3>2. "done" \in Stages
            BY DEF Stages
        <3> QED BY <1>1, <2>1, <2>2, <3>1, <3>2, StagedStages, LoggedNotes, LoggingKeeps
    <2>3. CASE ~Final(Answer(e, k))
        <3>1. sends' = [sends EXCEPT ![e][k] = NextTry(s)]
            BY <1>1, <1>3, <2>3 DEF LogAttempt, NextAttempt
        <3> QED BY <1>1, <1>2, <2>1, <2>3, <3>1, NextTryTries, LoggedNotes, LoggingKeeps
    <2> QED BY <2>2, <2>3
<1>4. CASE LogFails(e, k)
    <2>1. /\ s.at = "log" /\ sends' = [sends EXCEPT ![e][k] = Staged(s, "logError")]
          /\ UNCHANGED <<hooks, cleared, lookups, received, announced>>
        BY <1>1, <1>4 DEF LogFails, Sending, Then
    <2>2. hookLogs \subseteq hookLogs'
        BY <1>4 DEF LogFails, Logged
    <2>3. "logError" \in Stages
        BY DEF Stages
    <2> QED BY <1>1, <2>1, <2>2, <2>3, StagedStages, LoggingKeeps
<1>5. CASE LogError(e, k)
    <2>1. /\ s.at = "logError" /\ Logged(e, k, TRUE) /\ sends' = [sends EXCEPT ![e][k] = NextTry(s)]
          /\ UNCHANGED <<hooks, cleared, lookups, received, announced>>
        BY <1>1, <1>5 DEF LogError, Sending, NextAttempt
    <2> QED BY <1>1, <1>2, <2>1, NextTryTries, LoggedNotes, LoggingKeeps
<1>6. CASE LogErrorFails(e, k)
    <2>1. /\ s.at = "logError" /\ sends' = [sends EXCEPT ![e][k] = Staged(s, "rejected")]
          /\ UNCHANGED <<hooks, hookLogs, cleared, lookups, received, announced>>
        BY <1>1, <1>6 DEF LogErrorFails, Sending, Then
    <2>2. "rejected" \in Stages
        BY DEF Stages
    <2> QED BY <1>1, <2>1, <2>2, StagedStages, LoggingKeeps
<1> QED BY <1>3, <1>4, <1>5, <1>6, SendKeeps DEF Deliver

\* What is neither sent nor sending keeps the invariant: its delivery is new or stopped.
LEMMA AnnounceKeeps ==
    ASSUME DeliveryInv, NEW e \in Events, Announce(e)
    PROVE  DeliveryInv'
<1>1. /\ e \notin announced /\ announced' = announced \cup {e} /\ lookups' = lookups \cup {e}
      /\ UNCHANGED <<hooks, hookLogs, cleared, sends, received>>
    BY DEF Announce
<1>2. EventsOK'
    BY <1>1 DEF DeliveryInv, EventsOK
<1>3. HooksOK' /\ SendsOK' /\ ReceivedOK' /\ NewHooksOK'
    BY <1>1 DEF DeliveryInv, HooksOK, SendsOK, ReceivedOK, NewHooksOK, NotYet
<1>4. ASSUME NEW f \in Events, NEW k \in Hooks PROVE PairOK(f, k)'
    BY <1>1, PairKept DEF DeliveryInv, HookKept
<1> QED BY <1>2, <1>3, <1>4 DEF DeliveryInv

\* An event whose webhooks could not be read is sent to none.
LEMMA LookUpFailsKeeps ==
    ASSUME DeliveryInv, NEW e \in Events, LookUpFails(e)
    PROVE  DeliveryInv'
<1>1. lookups' = lookups \ {e} /\ UNCHANGED <<hooks, hookLogs, cleared, sends, received, announced>>
    BY DEF LookUpFails
<1>2. EventsOK'
    BY <1>1 DEF DeliveryInv, EventsOK
<1>3. HooksOK' /\ SendsOK' /\ ReceivedOK' /\ NewHooksOK'
    BY <1>1 DEF DeliveryInv, HooksOK, SendsOK, ReceivedOK, NewHooksOK, NotYet
<1>4. ASSUME NEW f \in Events, NEW k \in Hooks PROVE PairOK(f, k)'
    BY <1>1, PairKept DEF DeliveryInv, HookKept
<1> QED BY <1>2, <1>3, <1>4 DEF DeliveryInv

\* The deliveries of an event begin with its lookup, to webhooks that are there.
LEMMA LookUpKeeps ==
    ASSUME DeliveryInv, NEW e \in Events, LookUp(e)
    PROVE  DeliveryInv'
<1> DEFINE wanted(k) == layout # "old" /\ hooks[k].active /\ hooks[k].named
           begun(k) == IF wanted(k) THEN [at |-> "send", attempt |-> 1, retries |-> hooks[k].retries]
                       ELSE NoSend
<1>1. /\ e \in lookups /\ lookups' = lookups \ {e}
      /\ sends' = [sends EXCEPT ![e] = [k \in Hooks |-> begun(k)]]
      /\ UNCHANGED <<hooks, hookLogs, cleared, received, announced>>
    BY DEF LookUp
<1>2. HooksOK /\ SendsOK /\ ReceivedOK /\ NewHooksOK /\ EventsOK
    BY DEF DeliveryInv
<1>3. ASSUME NEW k \in Hooks
      PROVE  /\ begun(k) \in SendRow /\ begun(k).at \in {"none", "send"}
             /\ begun(k).at = "send" => hooks[k].there /\ begun(k).attempt = 1 /\ begun(k).retries \in Nat
    <2>1. hooks[k].retries \in Nat /\ (hooks[k].active => hooks[k].there)
        BY <1>2 DEF HooksOK, HookRow
    <2>2. CASE wanted(k)
        <3>1. begun(k) = [at |-> "send", attempt |-> 1, retries |-> hooks[k].retries]
            BY <2>2
        <3> QED BY <2>1, <2>2, <3>1 DEF SendRow, Stages
    <2>3. CASE ~wanted(k)
        <3>1. begun(k) = [at |-> "none", attempt |-> 0, retries |-> 0]
            BY <2>3 DEF NoSend
        <3> QED BY <3>1 DEF SendRow, Stages
    <2> QED BY <2>2, <2>3
<1> HIDE DEF begun
<1>4. /\ SendsOK' /\ \A k \in Hooks : sends'[e][k] = begun(k)
      /\ \A f \in Events, k \in Hooks : f # e => sends'[f][k] = sends[f][k]
    BY <1>1, <1>2, <1>3 DEF SendsOK
<1>5. HooksOK' /\ ReceivedOK'
    BY <1>1, <1>2 DEF HooksOK, ReceivedOK
<1>6. NewHooksOK'
    BY <1>1, <1>2, <1>3, <1>4 DEF NewHooksOK, NotYet
<1>7. EventsOK'
    BY <1>1, <1>2, <1>4 DEF EventsOK
<1>8. ASSUME NEW f \in Events, NEW k \in Hooks PROVE PairOK(f, k)'
    <2>1. CASE f # e
        BY <1>1, <1>2, <1>4, <2>1, PairKept DEF DeliveryInv, HookKept
    <2>2. CASE f = e
        <3>1. sends[e][k].at = "none" /\ PairOK(e, k)
            BY <1>1, <1>2 DEF EventsOK, DeliveryInv
        <3>2. Len(received[e][k]) = 0 /\ received' = received
            BY <1>1, <3>1 DEF PairOK, StageOK
        <3>3. StageOK(e, k)'
            BY <1>3, <1>4, <3>2 DEF StageOK
        <3>4. RepeatOK(e, k)' /\ NotedOK(e, k)'
            BY <3>2 DEF RepeatOK, NotedOK
        <3> QED BY <2>2, <3>3, <3>4 DEF PairOK
    <2> QED BY <2>1, <2>2
<1> QED BY <1>4, <1>5, <1>6, <1>7, <1>8 DEF DeliveryInv

\* When the worker stops, no delivery begins and none goes on.
LEMMA DeliveriesEndKeeps ==
    ASSUME DeliveryInv, DeliveriesEnd
    PROVE  DeliveryInv'
<1>1. /\ lookups' = {}
      /\ UNCHANGED <<hooks, hookLogs, cleared, received, announced>>
    BY DEF DeliveriesEnd
<1>2. HooksOK /\ SendsOK /\ ReceivedOK /\ NewHooksOK /\ EventsOK
    BY DEF DeliveryInv
<1>3. ASSUME NEW e \in Events, NEW k \in Hooks
      PROVE  /\ sends'[e][k] \in SendRow /\ sends'[e][k].retries = sends[e][k].retries
             /\ \/ sends'[e][k] = sends[e][k] /\ sends[e][k].at \in {"none", "done", "rejected"}
                \/ sends[e][k].at \in {"send", "log", "logError", "cut"} /\ sends'[e][k].at = "cut"
    <2>1. sends'[e][k] = IF sends[e][k].at \in {"none", "done", "rejected"} THEN sends[e][k]
                         ELSE Staged(sends[e][k], "cut")
        BY DEF DeliveriesEnd
    <2>2. sends[e][k] \in SendRow /\ "cut" \in Stages
        BY <1>2 DEF SendsOK, Stages
    <2>3. sends[e][k].at \in {"none", "done", "rejected", "send", "log", "logError", "cut"}
        BY <2>2 DEF SendRow, Stages
    <2> QED BY <2>1, <2>2, <2>3, StagedStages
<1>4. SendsOK'
    <2>1. sends' = [e \in Events |-> [k \in Hooks |-> sends'[e][k]]]
        BY DEF DeliveriesEnd
    <2> QED BY <1>3, <2>1 DEF SendsOK
<1>5. \A e \in Events, k \in Hooks : sends'[e][k].at = "none" <=> sends[e][k].at = "none"
    BY <1>3
<1>6. HooksOK' /\ ReceivedOK' /\ NewHooksOK' /\ EventsOK'
    BY <1>1, <1>2, <1>5 DEF HooksOK, ReceivedOK, NewHooksOK, NotYet, EventsOK
<1>7. ASSUME NEW e \in Events, NEW k \in Hooks PROVE PairOK(e, k)'
    <2>1. CASE sends'[e][k] = sends[e][k]
        BY <1>1, <1>2, <2>1, PairKept DEF DeliveryInv, HookKept
    <2>2. CASE sends[e][k].at \in {"send", "log", "logError", "cut"} /\ sends'[e][k].at = "cut"
        <3>1. PICK s \in SendRow, q \in Seq(Answered), n \in Nat : Given(e, k, s, q, n)
            BY <1>2, LenProperties DEF SendsOK, ReceivedOK, Given
        <3>2. s = sends[e][k] /\ q = received[e][k] /\ q = received'[e][k] /\ n = Len(q)
            BY <1>1, <3>1 DEF Given
        <3>3. n <= s.retries + 1 /\ sends'[e][k].retries = s.retries
            <4>1. s.attempt \in Nat /\ s.retries \in Nat /\ StageOK(e, k)
                BY <3>1 DEF SendRow, DeliveryInv, PairOK
            <4> QED BY <1>3, <2>2, <3>2, <4>1 DEF StageOK
        <3>4. StageOK(e, k)'
            BY <2>2, <3>2, <3>3 DEF StageOK
        <3>5. RepeatOK(e, k) /\ \A i : Excused(e, k, i)' <=> Excused(e, k, i)
            BY <1>1 DEF DeliveryInv, PairOK, Excused
        <3>6. RepeatOK(e, k)'
            BY <2>2, <3>2, <3>5 DEF RepeatOK
        <3>7. NotedOK(e, k)'
            BY <2>2 DEF NotedOK
        <3> QED BY <3>4, <3>6, <3>7 DEF PairOK
    <2> QED BY <1>3, <2>1, <2>2
<1> QED BY <1>4, <1>6, <1>7 DEF DeliveryInv

----------------------------------------------------------------------------
(***************************************************************************)
(* The theorem.                                                            *)
(***************************************************************************)

\* Nothing is announced at first.
LEMMA DeliveryInit == Init => DeliveryInv
<1> SUFFICES ASSUME Init PROVE DeliveryInv
    OBVIOUS
<1>1. PICK s \in Scenarios : HooksInit(s)
    BY DEF Init
<1>2. HooksOK
    BY <1>1, HooksAssumption DEF HooksInit, HooksOK
<1>3. \A e \in Events, k \in Hooks : sends[e][k] = NoSend /\ received[e][k] = <<>>
    BY <1>1 DEF HooksInit
<1>4. SendsOK
    <2>1. NoSend \in SendRow
        BY DEF NoSend, SendRow, Stages
    <2> QED BY <1>1, <2>1 DEF HooksInit, SendsOK
<1>5. ReceivedOK
    BY <1>1, EmptySeq DEF HooksInit, ReceivedOK
<1>6. NewHooksOK /\ EventsOK
    BY <1>1, <1>3 DEF HooksInit, NewHooksOK, NotYet, EventsOK, NoSend
<1>7. ASSUME NEW e \in Events, NEW k \in Hooks PROVE PairOK(e, k)
    <2>1. sends[e][k].at = "none" /\ Len(received[e][k]) = 0
        BY <1>3, EmptySeq DEF NoSend
    <2> QED BY <2>1 DEF PairOK, StageOK, RepeatOK, NotedOK
<1> QED BY <1>2, <1>4, <1>5, <1>6, <1>7 DEF DeliveryInv

\* Every step of the control plane keeps the invariant: a request of the webhooks' own routes,
\* a step of a delivery, the deletion of the project, a stop of the worker; the other
\* components leave webhooks and deliveries alone.
LEMMA DeliveryNext == DeliveryInv /\ [Next]_vars => DeliveryInv'
<1> SUFFICES ASSUME DeliveryInv, [Next]_vars PROVE DeliveryInv'
    OBVIOUS
<1>1. CASE UNCHANGED hookVars
    BY <1>1, TableStepKeeps DEF hookVars, DeliveryInv, HooksOK, NewHooksOK, NotYet, HookKept
<1>2. ASSUME NEW w \in Workers, HookStep(w) PROVE DeliveryInv'
    BY <1>2, HookRowsKeep
<1>3. ASSUME NEW w \in Workers, Deletion(w) PROVE DeliveryInv'
    <2>1. CASE DeleteHooks(w) \/ DeleteRow(w)
        BY <2>1, HooksGoneKeeps DEF DeleteHooks, DeleteRow
    <2>2. CASE ~(DeleteHooks(w) \/ DeleteRow(w))
        <3>1. UNCHANGED hookVars
            BY <1>3, <2>2 DEF Deletion, RowDeletion, DeleteProject, FindProject, DeletePlugins, DeleteRawLogs,
               DeleteTokenRows, PluckHashes, DeleteKey, DeleteStepFails, DeleteKeysFail, DeleteFails, DropSchema
        <3> QED BY <1>1, <3>1
    <2> QED BY <2>1, <2>2
<1>4. CASE Delivery
    BY <1>4, AnnounceKeeps, LookUpKeeps, LookUpFailsKeeps, DeliverKeeps DEF Delivery
<1>5. CASE Restart
    BY <1>5, DeliveriesEndKeeps DEF Restart
<1>6. CASE RedisLost
    BY <1>1, <1>6 DEF RedisLost
<1>7. CASE UNCHANGED vars
    BY <1>1, <1>7 DEF vars
<1> QED BY <1>1, <1>2, <1>3, <1>4, <1>5, <1>6, <1>7 DEF Next

\* What the invariant says of a delivery.
LEMMA DeliveryInvExplains == DeliveryInv => DeliveryExplained
<1> SUFFICES ASSUME DeliveryInv, NEW e \in Events, NEW k \in Hooks
             PROVE  LET s == sends[e][k]  answers == received[e][k] IN
                    /\ Len(answers) <= s.retries + 1
                    /\ \A i \in 1 .. Len(answers) - 1 : Final(answers[i]) => Excused(e, k, i)
                    /\ (s.at = "done" /\ ~\E i \in 1 .. Len(answers) : Final(answers[i])) =>
                          Len(answers) = s.retries + 1
                    /\ (s.at \in {"done", "send"} /\ hooks[k].there /\ k \notin cleared) =>
                          \A i \in 1 .. Len(answers) : Noted(e, k, i)
    BY DEF DeliveryExplained, SentAgainUnlogged, LogsRemoved, Excused, Noted
<1>1. SendsOK /\ ReceivedOK /\ PairOK(e, k)
    BY DEF DeliveryInv
<1>2. PICK s \in SendRow, q \in Seq(Answered), n \in Nat : Given(e, k, s, q, n)
    BY <1>1, LenProperties DEF SendsOK, ReceivedOK, Given
<1>3. s = sends[e][k] /\ q = received[e][k] /\ n = Len(q)
    BY <1>2 DEF Given
<1>4. s.at \in Stages /\ s.attempt \in Nat /\ s.retries \in Nat
    BY DEF SendRow
<1>5. n <= s.retries + 1
    BY <1>1, <1>3, <1>4 DEF PairOK, StageOK, Stages
<1>6. \A i \in 1 .. n - 1 : Final(q[i]) => Excused(e, k, i)
    <2>1. \A i \in 1 .. n - 1 : i \in 1 .. n /\ i # n
        OBVIOUS
    <2> QED BY <1>1, <1>3, <2>1 DEF PairOK, RepeatOK
<1>7. (s.at = "done" /\ ~\E i \in 1 .. n : Final(q[i])) => n = s.retries + 1
    BY <1>1, <1>3 DEF PairOK, StageOK
<1>8. (s.at \in {"done", "send"} /\ hooks[k].there /\ k \notin cleared) => \A i \in 1 .. n : Noted(e, k, i)
    BY <1>1, <1>3 DEF PairOK, NotedOK
<1> QED BY <1>3, <1>5, <1>6, <1>7, <1>8

\* A webhook is sent an event at most once and its retry_count times more, again after a
\* final answer only when the log said otherwise, gives up only after all attempts, and
\* logs each of them: whatever requests, deletions and stops come between, for any number of
\* webhooks, events and retries (dispatcher.ts).
THEOREM DeliveriesAreExplained == Spec => []DeliveryExplained
<1>1. Init => DeliveryInv
    BY DeliveryInit
<1>2. DeliveryInv /\ [Next]_vars => DeliveryInv'
    BY DeliveryNext
<1>3. DeliveryInv => DeliveryExplained
    BY DeliveryInvExplains
<1> QED BY <1>1, <1>2, <1>3, PTL DEF Spec

----------------------------------------------------------------------------
(***************************************************************************)
(* The strengthening.  A request is about one monitor, the start-up about  *)
(* all of them, anything else about none.  A request can be trusted with a *)
(* monitor when nothing has come across it, or the monitor is not in       *)
(* doubt; then no other is at work but those that do it no harm, and what  *)
(* it has done so far is as it left it.                                    *)
(***************************************************************************)
MonitorOps == MonOps \cup {"start monitors"}

RowOK(row) == row \in MonRow /\ (row.active => row.rev > 0)

AskOK(r) ==
    /\ r.op \in MonOps /\ r.at \in {"tables", "row", "timer"}
    /\ r.data \in [m : Monitors, new : MonRow] /\ RowOK(r.data.new)
    /\ r.on = {MonObject(r.data.m)} /\ r.sure \subseteq r.on
    /\ IF r.op = "remove monitor" THEN r.data.new = Removed /\ r.at # "timer"
       ELSE r.data.new.rev > 0 /\ ~r.data.new.gone
StartOK(r) ==
    /\ r.op = "start monitors" /\ r.on = MonObjects /\ r.sure \subseteq r.on
    /\ \/ r.at = "list" /\ r.data = NoData
       \/ /\ r.at = "timers" /\ r.data \in [found : [Monitors -> MonRow]]
          /\ \A m \in Monitors : RowOK(r.data.found[m])
Elsewhere(r) == Foreign(MonitorOps, MonObjects, r)

ReqOK(w, r) ==
    /\ Requested(r) /\ r.sure \subseteq r.on
    /\ AskOK(r) \/ (StartOK(r) /\ w = "monitors") \/ Elsewhere(r)
ReqsOK ==
    /\ req = [w \in Workers |-> req[w]] /\ calls \in Nat
    /\ \A w \in Workers : req[w] # NoReq => ReqOK(w, req[w])

On(w, m) == req[w] # NoReq /\ MonObject(m) \in req[w].on
AskedAt(w, m, op, at) == On(w, m) /\ req[w].op = op /\ req[w].at = at
Sure(w, m) == On(w, m) /\ MonObject(m) \in req[w].sure
InDoubt(m) == MonObject(m) \in doubt
Trusted(w, m) == Sure(w, m) \/ (On(w, m) /\ ~InDoubt(m))

\* What the timer should hold; checks of the last timer are of what the row says; or there
\* is nothing at work.
Due(m) == IF mons[m].active THEN mons[m] ELSE NoMonitor
Current(m) == {c \in checks : c.m = m /\ ~c.old}
ChecksDue(m) == \A c \in Current(m) : mons[m].active /\ c.rev = mons[m].rev
Halted(m) == timers[m] = NoMonitor /\ Current(m) = {}
OffElsewhere(m) == timers[m] = NoMonitor /\ m \in halted
Exact(m) == (timers[m] = Due(m) \/ OffElsewhere(m)) /\ ChecksDue(m)
Tame(m) == timers[m] \in {NoMonitor, Due(m)} /\ ChecksDue(m)

\* A monitor that has never been added has no timer, and nobody is about to set one.
Never(m) ==
    mons[m] = NoMonitor =>
        /\ Halted(m)
        /\ \A w \in Workers : On(w, m) =>
            /\ req[w].at # "timer"
            /\ req[w].at = "timers" => req[w].data.found[m] = NoMonitor

\* Those that may be at work on one monitor without harm.
Together(a, b) ==
    \/ a = b /\ a \in {"remove monitor", "start monitors", "add monitor"}
    \/ {a, b} = {"add monitor", "start monitors"}
Apart(m) ==
    \A w, x \in Workers : (w # x /\ On(w, m) /\ On(x, m)) =>
        /\ ~(req[w].op = "add monitor" /\ req[x].op = "add monitor")
        /\ Trusted(w, m) => Together(req[w].op, req[x].op)

FoundOK(w, m) == req[w].data.found[m] \in {NoMonitor, mons[m]}
Doing(m) ==
    \A w \in Workers : Trusted(w, m) =>
        /\ (req[w].op = "add monitor" /\ req[w].at # "timer") => mons[m] = NoMonitor
        /\ req[w].at = "timer" =>
            /\ mons[m] = req[w].data.new
            /\ \A x \in Workers : AskedAt(x, m, "start monitors", "timers") => FoundOK(x, m)
        /\ (req[w].op = "remove monitor" /\ req[w].at = "row") => Halted(m)

\* Without doubt the timer is exact unless somebody is about to make it so.
SetsTimer(m) == \E w \in Workers : On(w, m) /\ req[w].at = "timer"
Unsettled(m) ==
    \/ SetsTimer(m)
    \/ \E w \in Workers : On(w, m) /\ req[w].op = "start monitors"
    \/ \E w \in Workers : AskedAt(w, m, "remove monitor", "row")
Starting(w, m) ==
    /\ Tame(m)
    /\ req[w].at = "timers" =>
        /\ FoundOK(w, m)
        /\ req[w].data.found[m] = mons[m] \/ Exact(m) \/ SetsTimer(m)
Settled(m) ==
    ~InDoubt(m) =>
        /\ ~Unsettled(m) => Exact(m)
        /\ \A w \in Workers : (On(w, m) /\ req[w].op = "start monitors") => Starting(w, m)

Restartable ==
    \/ "start monitors" \in menu
    \/ /\ menu \cap MonOps = {}
       /\ \A m \in Monitors : mons[m] = NoMonitor
       /\ \A w \in Workers : req[w] # NoReq => req[w].op \notin MonOps

MonTypes ==
    /\ mons \in [Monitors -> MonRow] /\ timers \in [Monitors -> MonRow]
    /\ \A m \in Monitors : RowOK(mons[m]) /\ RowOK(timers[m])
    /\ checks \subseteq [m : Monitors, rev : Nat, old : BOOLEAN]

MonitorOK(m) == Never(m) /\ Apart(m) /\ Doing(m) /\ Settled(m)
MonInv ==
    /\ ReqsOK /\ MonTypes /\ Restartable
    /\ \A m \in Monitors : MonitorOK(m)

----------------------------------------------------------------------------
(***************************************************************************)
(* Steps that have nothing to do with a monitor, or with any.              *)
(***************************************************************************)
SameMonitor(m) ==
    /\ \A w \in Workers :
        /\ On(w, m)' <=> On(w, m)
        /\ On(w, m) =>
            /\ req'[w].op = req[w].op /\ req'[w].at = req[w].at /\ req'[w].data = req[w].data
            /\ Sure(w, m)' <=> Sure(w, m)
    /\ InDoubt(m)' <=> InDoubt(m)
    /\ mons'[m] = mons[m] /\ timers'[m] = timers[m] /\ (m \in halted' <=> m \in halted) /\ Current(m)' = Current(m)

\* Such a step keeps what the invariant says of the monitor.
LEMMA SameKeeps ==
    ASSUME NEW m \in Monitors, MonitorOK(m), SameMonitor(m)
    PROVE  MonitorOK(m)'
<1>1. ASSUME NEW w \in Workers
      PROVE  /\ On(w, m)' <=> On(w, m)
             /\ On(w, m) => req'[w].op = req[w].op /\ req'[w].at = req[w].at /\ req'[w].data = req[w].data
             /\ (Sure(w, m)' <=> Sure(w, m)) /\ (Trusted(w, m)' <=> Trusted(w, m))
    BY DEF SameMonitor, Sure, Trusted
<1>2. /\ mons'[m] = mons[m] /\ timers'[m] = timers[m] /\ (m \in halted' <=> m \in halted) /\ Current(m)' = Current(m)
      /\ InDoubt(m)' <=> InDoubt(m)
    BY DEF SameMonitor
<1>3. Halted(m)' <=> Halted(m)
    BY <1>2 DEF Halted
<1>4. (Exact(m)' <=> Exact(m)) /\ (Tame(m)' <=> Tame(m))
    BY <1>2 DEF Exact, OffElsewhere, Tame, Due, ChecksDue
<1>5. Never(m)'
    BY <1>1, <1>2, <1>3 DEF MonitorOK, Never
<1>6. Apart(m)'
    <2>1. ASSUME NEW w \in Workers, NEW x \in Workers, w # x, On(w, m)', On(x, m)'
          PROVE  /\ ~(req'[w].op = "add monitor" /\ req'[x].op = "add monitor")
                 /\ Trusted(w, m)' => Together(req'[w].op, req'[x].op)
        BY <1>1, <2>1 DEF MonitorOK, Apart
    <2> QED BY <2>1 DEF Apart
<1>7. ASSUME NEW w \in Workers, On(w, m) PROVE FoundOK(w, m)' <=> FoundOK(w, m)
    BY <1>1, <1>2, <1>7 DEF FoundOK
<1>8. ASSUME NEW w \in Workers, NEW op, NEW at PROVE AskedAt(w, m, op, at)' <=> AskedAt(w, m, op, at)
    BY <1>1 DEF AskedAt
<1>9. Doing(m)'
    <2>1. ASSUME NEW w \in Workers, Trusted(w, m)'
          PROVE  On(w, m) /\ Trusted(w, m)
        BY <1>1, <2>1 DEF Trusted, Sure
    <2>2. ASSUME NEW x \in Workers, AskedAt(x, m, "start monitors", "timers")'
          PROVE  AskedAt(x, m, "start monitors", "timers") /\ On(x, m)
        BY <1>8, <2>2 DEF AskedAt
    <2> QED BY <1>1, <1>2, <1>3, <1>7, <2>1, <2>2 DEF MonitorOK, Doing
<1>10. (SetsTimer(m)' <=> SetsTimer(m)) /\ (Unsettled(m)' <=> Unsettled(m))
    BY <1>1, <1>8 DEF SetsTimer, Unsettled
<1>11. Settled(m)'
    <2>1. ASSUME NEW w \in Workers, On(w, m) PROVE Starting(w, m)' <=> Starting(w, m)
        BY <1>1, <1>2, <1>4, <1>7, <1>10, <2>1 DEF Starting
    <2> QED BY <1>1, <1>2, <1>4, <1>10, <2>1 DEF MonitorOK, Settled
<1> QED BY <1>5, <1>6, <1>9, <1>11 DEF MonitorOK

\* A request about monitors is a request.
LEMMA MonitorRequest ==
    ASSUME NEW r, Requested(r), AskOK(r) \/ StartOK(r)
    PROVE  r # NoReq
<1>1. r \in [op : MonOps \cup {"start monitors"}, on : SUBSET MonObjects,
             at : {"tables", "row", "timer", "list", "timers"},
             data : {NoData} \cup [m : Monitors, new : MonRow] \cup [found : [Monitors -> MonRow]],
             sure : SUBSET MonObjects]
    <2>1. /\ r.op \in MonOps \cup {"start monitors"} /\ r.on \subseteq MonObjects /\ r.sure \subseteq MonObjects
          /\ r.at \in {"tables", "row", "timer", "list", "timers"}
          /\ r.data \in {NoData} \cup [m : Monitors, new : MonRow] \cup [found : [Monitors -> MonRow]]
        BY DEF AskOK, StartOK, MonObjects
    <2> QED BY <2>1 DEF Requested
<1> QED BY <1>1, MonitorsAssumption

\* Who is at work on a monitor, is so by a request about monitors.
LEMMA OnMonitors ==
    ASSUME ReqsOK, NEW w \in Workers, NEW m \in Monitors, On(w, m)
    PROVE  /\ Requested(req[w]) /\ req[w].op \in MonitorOps
           /\ (AskOK(req[w]) /\ req[w].data.m = m) \/ (StartOK(req[w]) /\ w = "monitors")
<1>1. ReqOK(w, req[w]) /\ MonObject(m) \in req[w].on
    BY DEF ReqsOK, On
<1>2. ~Elsewhere(req[w])
    BY <1>1 DEF Elsewhere, Foreign, MonObjects
<1>3. ASSUME AskOK(req[w]) PROVE req[w].data.m = m
    BY <1>1, <1>3 DEF AskOK, MonObject
<1> QED BY <1>1, <1>2, <1>3 DEF ReqOK, AskOK, StartOK, MonitorOps

\* It stays one when it becomes less sure of other objects.
LEMMA AlikeIsOne ==
    ASSUME ReqsOK, NEW w \in Workers, NEW m \in Monitors, On(w, m), Alike(MonObjects, req[w], req'[w])
    PROVE  req'[w] # NoReq
<1>1. AskOK(req[w]) \/ StartOK(req[w])
    BY OnMonitors
<1>2. Requested(req'[w]) /\ (AskOK(req'[w]) \/ StartOK(req'[w]))
    BY <1>1 DEF Alike, AskOK, StartOK
<1> QED BY <1>2, MonitorRequest

\* What a step of other requests leaves of the requests.
LEMMA MonitorsAlone ==
    ASSUME ReqsOK
    PROVE  RequestsOf(MonitorOps, MonObjects)
BY DEF ReqsOK, ReqOK, AskOK, StartOK, Elsewhere, Foreign, RequestsOf, MonitorOps

\* Such a step keeps the invariant.
LEMMA AsideKeeps ==
    ASSUME MonInv, Aside(MonitorOps, MonObjects), UNCHANGED monVars
    PROVE  MonInv'
<1>1. ASSUME NEW w \in Workers
      PROVE  \/ Alike(MonObjects, req[w], req'[w])
             \/ Free(MonitorOps, MonObjects, req[w]) /\ Free(MonitorOps, MonObjects, req'[w])
    BY DEF Aside
<1>2. ReqsOK'
    <2>1. ASSUME NEW w \in Workers, req'[w] # NoReq PROVE ReqOK(w, req'[w])
        <3>1. CASE Alike(MonObjects, req[w], req'[w])
            BY <3>1 DEF MonInv, ReqsOK, ReqOK, AskOK, StartOK, Elsewhere, Foreign, Alike
        <3>2. CASE Free(MonitorOps, MonObjects, req'[w])
            BY <2>1, <3>2 DEF Free, ReqOK, Elsewhere
        <3> QED BY <1>1, <3>1, <3>2
    <2> QED BY <2>1 DEF ReqsOK, Aside
<1>3. MonTypes'
    BY DEF MonInv, MonTypes, monVars
<1>4. Restartable'
    <2>1. \A w \in Workers : req'[w] # NoReq => (req'[w].op \in MonOps => req[w] # NoReq /\ req[w].op \in MonOps)
        BY <1>1 DEF Alike, Free, Elsewhere, Foreign, MonitorOps
    <2> QED BY <2>1 DEF MonInv, Restartable, Aside, monVars
<1>5. ASSUME NEW m \in Monitors PROVE MonitorOK(m)'
    <2>1. ASSUME NEW w \in Workers
          PROVE  /\ On(w, m)' <=> On(w, m)
                 /\ On(w, m) =>
                    /\ req'[w].op = req[w].op /\ req'[w].at = req[w].at /\ req'[w].data = req[w].data
                    /\ Sure(w, m)' <=> Sure(w, m)
        <3>1. CASE Alike(MonObjects, req[w], req'[w])
            <4>1. req'[w] # NoReq \/ ~On(w, m)
                <5>1. ASSUME On(w, m) PROVE req'[w] # NoReq
                    BY <3>1, <5>1, AlikeIsOne DEF MonInv
                <5> QED BY <5>1
            <4>2. req[w] # NoReq /\ req'[w].on = req[w].on /\ req'[w].sure \cap MonObjects = req[w].sure \cap MonObjects
                  /\ req'[w].op = req[w].op /\ req'[w].at = req[w].at /\ req'[w].data = req[w].data
                BY <3>1 DEF Alike
            <4> QED BY <4>1, <4>2 DEF On, Sure, MonObjects
        <3>2. CASE Free(MonitorOps, MonObjects, req[w]) /\ Free(MonitorOps, MonObjects, req'[w])
            BY <3>2 DEF On, Free, Elsewhere, Foreign, MonObjects
        <3> QED BY <1>1, <3>1, <3>2
    <2>2. InDoubt(m)' <=> InDoubt(m)
        BY DEF Aside, InDoubt, MonObjects
    <2>3. SameMonitor(m)
        BY <2>1, <2>2 DEF SameMonitor, Current, monVars
    <2> QED BY <2>3, SameKeeps DEF MonInv
<1> QED BY <1>2, <1>3, <1>4, <1>5 DEF MonInv

\* The objects of other requests are not monitors.
LEMMA OthersApart ==
    /\ \A x : /\ TokenObject(x) \notin MonObjects /\ SessionObject(x) \notin MonObjects
              /\ FileObject(x) \notin MonObjects /\ PlayerObject(x) \notin MonObjects
    /\ TokenObjects \cap MonObjects = {} /\ Deleted \cap MonObjects = {}
    /\ ProjectObject \notin MonObjects /\ SwitchObject \notin MonObjects
    /\ PluginObject \notin MonObjects /\ LayoutObject \notin MonObjects
BY DEF TokenObject, SessionObject, FileObject, PlayerObject, TokenObjects, SessionObjects, FileObjects, Deleted,
       ProjectObject, SwitchObject, PluginObject, LayoutObject, MonObjects, MonObject

----------------------------------------------------------------------------
(***************************************************************************)
(* Requests about one monitor.                                             *)
(***************************************************************************)

\* What does not conflict may be at work together.
LEMMA ConflictTable ==
    ASSUME NEW a \in MonitorOps, NEW b \in MonitorOps, {a, b} \notin Conflicts
    PROVE  Together(a, b)
<1>1. /\ {"change monitor"} \in Conflicts /\ {"change monitor", "remove monitor"} \in Conflicts
      /\ {"add monitor", "change monitor"} \in Conflicts /\ {"add monitor", "remove monitor"} \in Conflicts
      /\ {"start monitors", "change monitor"} \in Conflicts /\ {"start monitors", "remove monitor"} \in Conflicts
    BY DEF Conflicts
<1>2. \A x, y : {x, y} = {y, x} /\ {x, x} = {x}
    OBVIOUS
<1>3. a # "change monitor" /\ b # "change monitor"
    BY <1>1, <1>2 DEF MonitorOps, MonOps
<1>4. (a = "remove monitor") <=> (b = "remove monitor")
    BY <1>1, <1>2, <1>3 DEF MonitorOps, MonOps
<1> QED BY <1>2, <1>3, <1>4 DEF MonitorOps, MonOps, Together

\* Being at work together is mutual.
LEMMA TogetherSwaps ==
    ASSUME NEW a, NEW b, Together(a, b) PROVE Together(b, a)
BY DEF Together

\* A new request about a monitor that conflicts with none of those at work can be trusted,
\* and so can those; one that does, puts the monitor in doubt.
LEMMA ArriveKeeps ==
    ASSUME MonInv, NEW h \in Workers, NEW op \in MonOps, NEW m \in Monitors, NEW new,
           Called(h, op, {MonObject(m)}, "tables", [m |-> m, new |-> new]), UNCHANGED monVars,
           new \in MonRow, RowOK(new),
           IF op = "remove monitor" THEN new = Removed ELSE new.rev > 0 /\ ~new.gone,
           op = "add monitor" => mons[m] = NoMonitor /\ \A w \in Workers : req[w] # NoReq => req[w].op # "add monitor"
    PROVE  MonInv'
<1> DEFINE on == {MonObject(m)}
           hit == {o \in on : Disturbed(op, o) # {}}
           r == [op |-> op, on |-> on, at |-> "tables", data |-> [m |-> m, new |-> new], sure |-> on \ hit]
<1>1. /\ req[h] = NoReq /\ menu' = menu /\ calls' = calls - 1 /\ calls > 0 /\ op \in menu
      /\ req' = [w \in Workers |->
            IF w = h THEN r
            ELSE IF req[w] # NoReq /\ {req[w].op, op} \in Conflicts THEN [req[w] EXCEPT !.sure = @ \ on]
            ELSE req[w]]
      /\ doubt' = doubt \cup hit
    BY DEF Called, Arrive
<1>2. /\ r.op = op /\ r.on = on /\ r.at = "tables" /\ r.data = [m |-> m, new |-> new] /\ r.data.m = m
      /\ r.data.new = new /\ r.sure = on \ hit /\ Requested(r)
    BY DEF Requested
<1>3. AskOK(r)
    BY <1>2 DEF AskOK
<1> HIDE DEF r
<1>4. r # NoReq
    BY <1>2, <1>3, MonitorRequest
<1>5. ASSUME NEW w \in Workers, w # h
      PROVE  /\ req[w] = NoReq => req'[w] = NoReq
             /\ req[w] # NoReq =>
                /\ ReqOK(w, req[w]) /\ ReqOK(w, req'[w])
                /\ req'[w].op = req[w].op /\ req'[w].on = req[w].on /\ req'[w].at = req[w].at
                /\ req'[w].data = req[w].data
                /\ req'[w].sure = IF {req[w].op, op} \in Conflicts THEN req[w].sure \ on ELSE req[w].sure
                /\ req[w].op \in MonitorOps => req'[w] # NoReq
    <2>1. CASE req[w] # NoReq /\ {req[w].op, op} \in Conflicts
        <3>1. PICK x : x = [op |-> req[w].op, on |-> req[w].on, at |-> req[w].at, data |-> req[w].data,
                            sure |-> req[w].sure \ on]
            OBVIOUS
        <3>2. ReqOK(w, req[w]) /\ Requested(req[w])
            BY <2>1 DEF MonInv, ReqsOK, ReqOK
        <3>3. [req[w] EXCEPT !.sure = @ \ on] = x
            BY <3>1, <3>2, SureShrinks
        <3>4. req'[w] = x
            BY <1>1, <1>5, <2>1, <3>3
        <3>5. Requested(x) /\ x.op = req[w].op /\ x.on = req[w].on /\ x.at = req[w].at /\ x.data = req[w].data
              /\ x.sure = req[w].sure \ on
            BY <3>1 DEF Requested
        <3>6. ReqOK(w, x)
            BY <3>2, <3>5 DEF ReqOK, AskOK, StartOK, Elsewhere, Foreign
        <3>7. x.op \in MonitorOps => x # NoReq
            BY <3>5, <3>6, MonitorRequest DEF ReqOK, Elsewhere, Foreign
        <3> QED BY <2>1, <3>2, <3>4, <3>5, <3>6, <3>7
    <2>2. CASE ~(req[w] # NoReq /\ {req[w].op, op} \in Conflicts)
        BY <1>1, <1>5, <2>2 DEF MonInv, ReqsOK
    <2> QED BY <2>1, <2>2
<1>6. ReqsOK'
    <2>1. req' = [w \in Workers |-> req'[w]] /\ req'[h] = r
        BY <1>1
    <2>2. ASSUME NEW w \in Workers, req'[w] # NoReq PROVE ReqOK(w, req'[w])
        <3>1. CASE w = h
            BY <1>2, <1>3, <2>1, <3>1 DEF ReqOK
        <3>2. CASE w # h
            BY <1>5, <2>2, <3>2
        <3> QED BY <3>1, <3>2
    <2>3. calls' \in Nat
        <3>1. calls \in Nat /\ calls' = calls - 1 /\ calls > 0
            BY <1>1 DEF MonInv, ReqsOK
        <3> QED BY ONLY <3>1
    <2> QED BY <2>1, <2>2, <2>3 DEF ReqsOK
<1>7. MonTypes'
    BY DEF MonInv, MonTypes, monVars
<1>8. Restartable'
    BY <1>1 DEF MonInv, Restartable
<1>9. On(h, m)' /\ ~On(h, m) /\ req'[h] = r /\ \A x \in Monitors : On(h, x)' => x = m
    BY <1>1, <1>2, <1>4 DEF On, MonObject
<1>10. ASSUME NEW w \in Workers, w # h, NEW x \in Monitors
       PROVE  /\ On(w, x)' <=> On(w, x)
              /\ On(w, x) => /\ req'[w].op = req[w].op /\ req'[w].at = req[w].at /\ req'[w].data = req[w].data
                             /\ Sure(w, x)' <=> (Sure(w, x) /\ (x = m => {req[w].op, op} \notin Conflicts))
    <2>1. On(w, x)' <=> On(w, x)
        <3>1. On(w, x) => req[w].op \in MonitorOps
            BY OnMonitors DEF MonInv
        <3> QED BY <1>5, <1>10, <3>1 DEF On
    <2>2. MonObject(x) \in on <=> x = m
        BY DEF MonObject
    <2> QED BY <1>5, <1>10, <2>1, <2>2 DEF On, Sure
<1>11. ASSUME NEW x \in Monitors, x # m PROVE MonitorOK(x)'
    <2>1. InDoubt(x)' <=> InDoubt(x)
        BY <1>1, <1>11 DEF InDoubt, MonObject
    <2>2. \A w \in Workers : w = h => ~On(w, x) /\ ~On(w, x)'
        BY <1>1, <1>9, <1>11 DEF On
    <2>3. SameMonitor(x)
        BY <1>10, <1>11, <2>1, <2>2 DEF SameMonitor, monVars, Current
    <2> QED BY <2>3, SameKeeps DEF MonInv
<1>12. MonitorOK(m)'
    <2>1. MonitorOK(m) /\ mons' = mons /\ timers' = timers /\ checks' = checks /\ halted' = halted
        BY DEF MonInv, monVars
    <2>2. /\ InDoubt(m) => InDoubt(m)'
          /\ \A w \in Workers \ {h} : (On(w, m) /\ {req[w].op, op} \in Conflicts) => InDoubt(m)' /\ ~Sure(h, m)'
        <3>1. ASSUME NEW w \in Workers, On(w, m), {req[w].op, op} \in Conflicts
              PROVE  MonObject(m) \in hit
            BY <3>1 DEF On, Disturbed, Busy
        <3> QED BY <1>1, <1>2, <1>9, <3>1 DEF InDoubt, Sure
    <2>3. ASSUME NEW w \in Workers, w # h, On(w, m), Trusted(w, m)' \/ Trusted(h, m)'
          PROVE  Together(req[w].op, op) /\ Together(op, req[w].op)
        <3>1. {req[w].op, op} \notin Conflicts
            BY <1>10, <2>2, <2>3 DEF Trusted
        <3>2. req[w].op \in MonitorOps /\ op \in MonitorOps
            BY <2>3, OnMonitors DEF MonInv, MonitorOps
        <3> QED BY <3>1, <3>2, ConflictTable, TogetherSwaps
    <2>4. ASSUME NEW w \in Workers, w # h, Trusted(w, m)' PROVE Trusted(w, m)
        BY <1>10, <2>2, <2>4 DEF Trusted, Sure
    <2>5. (Halted(m)' <=> Halted(m)) /\ (Exact(m)' <=> Exact(m)) /\ (Tame(m)' <=> Tame(m))
        BY <2>1 DEF Halted, Exact, OffElsewhere, Tame, Due, ChecksDue, Current
    <2>6. Never(m)'
        BY <1>2, <1>9, <1>10, <2>1, <2>5 DEF MonitorOK, Never
    <2>7. Apart(m)'
        <3>1. ASSUME NEW w \in Workers, NEW x \in Workers, w # x, On(w, m)', On(x, m)'
              PROVE  /\ ~(req'[w].op = "add monitor" /\ req'[x].op = "add monitor")
                     /\ Trusted(w, m)' => Together(req'[w].op, req'[x].op)
            <4>1. CASE w = h
                BY <1>2, <1>9, <1>10, <2>3, <3>1, <4>1 DEF On
            <4>2. CASE x = h
                BY <1>2, <1>9, <1>10, <2>3, <3>1, <4>2 DEF On
            <4>3. CASE w # h /\ x # h
                BY <1>10, <2>1, <2>4, <3>1, <4>3 DEF MonitorOK, Apart
            <4> QED BY <4>1, <4>2, <4>3
        <3> QED BY <3>1 DEF Apart
    <2>8. ASSUME NEW w \in Workers, NEW a, NEW at, a = "start monitors" \/ at # "tables"
          PROVE  AskedAt(w, m, a, at)' <=> AskedAt(w, m, a, at)
        BY <1>2, <1>9, <1>10, <2>8 DEF AskedAt, MonOps
    <2>9. ASSUME NEW w \in Workers, On(w, m) PROVE FoundOK(w, m)' <=> FoundOK(w, m)
        BY <1>9, <1>10, <2>1, <2>9 DEF FoundOK
    <2>10. Doing(m)'
        <3>1. ASSUME NEW w \in Workers, Trusted(w, m)'
              PROVE  /\ (req'[w].op = "add monitor" /\ req'[w].at # "timer") => mons'[m] = NoMonitor
                     /\ req'[w].at = "timer" =>
                         /\ mons'[m] = req'[w].data.new
                         /\ \A x \in Workers : AskedAt(x, m, "start monitors", "timers")' => FoundOK(x, m)'
                     /\ (req'[w].op = "remove monitor" /\ req'[w].at = "row") => Halted(m)'
            <4>1. CASE w = h
                BY <1>2, <1>9, <2>1, <4>1
            <4>2. CASE w # h
                <5>1. On(w, m) /\ Trusted(w, m)
                    BY <2>4, <3>1, <4>2 DEF Trusted, Sure
                <5>2. ASSUME NEW x \in Workers, AskedAt(x, m, "start monitors", "timers")'
                      PROVE  AskedAt(x, m, "start monitors", "timers") /\ On(x, m)
                    <6>1. AskedAt(x, m, "start monitors", "timers")
                        BY <2>8, <5>2
                    <6> QED BY <6>1 DEF AskedAt
                <5> QED BY <1>10, <2>1, <2>5, <2>9, <4>2, <5>1, <5>2 DEF MonitorOK, Doing
            <4> QED BY <4>1, <4>2
        <3> QED BY <3>1 DEF Doing
    <2>11. (SetsTimer(m)' <=> SetsTimer(m)) /\ (Unsettled(m)' <=> Unsettled(m))
        BY <1>2, <1>9, <1>10, <2>8 DEF SetsTimer, Unsettled, MonOps
    <2>12. Settled(m)'
        <3>1. ASSUME NEW w \in Workers, On(w, m) PROVE Starting(w, m)' <=> Starting(w, m)
            BY <1>9, <1>10, <2>1, <2>5, <2>9, <2>11, <3>1 DEF Starting
        <3>2. ASSUME NEW w \in Workers, On(w, m)', req'[w].op = "start monitors"
              PROVE  On(w, m) /\ req[w].op = "start monitors"
            BY <1>2, <1>9, <1>10, <3>2 DEF MonOps
        <3> QED BY <2>1, <2>2, <2>5, <2>11, <3>1, <3>2 DEF MonitorOK, Settled
    <2> QED BY <2>6, <2>7, <2>10, <2>12 DEF MonitorOK
<1> QED BY <1>6, <1>7, <1>8, <1>11, <1>12 DEF MonInv

\* A request of a route moves on or ends, and nothing changes about other monitors: it
\* remains to see about its own.
OwnStep(h, m, r) ==
    /\ On(h, m) /\ AskOK(req[h]) /\ req[h].data.m = m
    /\ req' = [w \in Workers |-> IF w = h THEN r ELSE req[w]]
    /\ r = NoReq \/ (Requested(r) /\ AskOK(r) /\ r.op = req[h].op /\ r.data = req[h].data /\ r.sure = req[h].sure)
    /\ calls' = calls /\ menu' = menu
    /\ \A x \in Monitors \ {m} :
        /\ mons'[x] = mons[x] /\ timers'[x] = timers[x] /\ (x \in halted' <=> x \in halted) /\ Current(x)' = Current(x)
        /\ InDoubt(x)' <=> InDoubt(x)

\* Such a step keeps the invariant if it does so for its monitor.
LEMMA OwnKeeps ==
    ASSUME MonInv, NEW h \in Workers, NEW m \in Monitors, NEW r, OwnStep(h, m, r), MonTypes', MonitorOK(m)'
    PROVE  MonInv'
<1>1. ReqsOK'
    <2>1. ASSUME NEW w \in Workers, req'[w] # NoReq PROVE ReqOK(w, req'[w])
        BY <2>1 DEF MonInv, ReqsOK, OwnStep, ReqOK, AskOK
    <2>2. req' = [w \in Workers |-> req'[w]] /\ calls' \in Nat
        BY DEF MonInv, ReqsOK, OwnStep
    <2> QED BY <2>1, <2>2 DEF ReqsOK
<1>2. Restartable'
    BY DEF MonInv, Restartable, OwnStep, On, AskOK
<1>3. ASSUME NEW x \in Monitors, x # m PROVE MonitorOK(x)'
    <2>1. ~On(h, x) /\ ~On(h, x)'
        BY <1>3 DEF OwnStep, On, AskOK, MonObject
    <2>2. \A w \in Workers \ {h} : req'[w] = req[w]
        BY DEF OwnStep
    <2>3. SameMonitor(x)
        BY <1>3, <2>1, <2>2 DEF SameMonitor, OwnStep, On, Sure
    <2> QED BY <2>3, SameKeeps DEF MonInv
<1> QED BY <1>1, <1>2, <1>3 DEF MonInv

\* The others at work on the monitor do not see such a step; if one of the two can be
\* trusted they do each other no harm.
LEMMA OwnOthers ==
    ASSUME MonInv, NEW h \in Workers, NEW m \in Monitors, NEW r, OwnStep(h, m, r),
           NEW w \in Workers, w # h
    PROVE  /\ req'[w] = req[w] /\ (On(w, m)' <=> On(w, m)) /\ (Sure(w, m)' <=> Sure(w, m))
           /\ \A op, at : AskedAt(w, m, op, at)' <=> AskedAt(w, m, op, at)
           /\ On(w, m) => req[w].op \in MonitorOps
           /\ (On(w, m) /\ (Trusted(w, m) \/ Trusted(h, m))) =>
                \/ req[h].op = "remove monitor" /\ req[w].op = "remove monitor"
                \/ req[h].op = "add monitor" /\ req[w].op = "start monitors"
<1>1. req'[w] = req[w]
    BY DEF OwnStep
<1>2. On(w, m) => req[w].op \in MonitorOps
    BY OnMonitors DEF MonInv
<1>3. ASSUME On(w, m), Trusted(w, m) \/ Trusted(h, m)
      PROVE  \/ req[h].op = "remove monitor" /\ req[w].op = "remove monitor"
             \/ req[h].op = "add monitor" /\ req[w].op = "start monitors"
    <2>1. On(h, m) /\ req[h].op \in MonOps
        BY DEF OwnStep, AskOK
    <2>2. Apart(m)
        BY DEF MonInv, MonitorOK
    <2>3. Together(req[w].op, req[h].op) \/ Together(req[h].op, req[w].op)
        BY <1>3, <2>1, <2>2 DEF Apart
    <2>4. ~(req[w].op = "add monitor" /\ req[h].op = "add monitor")
        BY <1>3, <2>1, <2>2 DEF Apart
    <2> QED BY <2>1, <2>3, <2>4 DEF Together, MonOps
<1> QED BY <1>1, <1>2, <1>3 DEF On, Sure, AskedAt

\* A start-up sets no single timer and removes nothing.
LEMMA StartIsNone ==
    ASSUME ReqsOK, NEW w \in Workers, NEW m \in Monitors, On(w, m), req[w].op = "start monitors"
    PROVE  req[w].at # "timer" /\ req[w].at # "row" /\ w = "monitors"
BY OnMonitors DEF AskOK, StartOK, MonOps

\* The monitor's own request comes to a stage, or an end, that owes nothing, from one.
LEMMA OwnQuietKeeps ==
    ASSUME MonInv, NEW h \in Workers, NEW m \in Monitors, NEW r, OwnStep(h, m, r),
           UNCHANGED monVars, InDoubt(m)' <=> InDoubt(m),
           req[h].at \in {"tables", "row"}, req[h].op = "remove monitor" => req[h].at = "tables",
           r # NoReq => r.at = "row" /\ r.op # "remove monitor"
    PROVE  MonInv'
<1>1. MonTypes' /\ MonitorOK(m)
    BY DEF MonInv, MonTypes, monVars
<1>2. mons' = mons /\ (Halted(m)' <=> Halted(m)) /\ (Exact(m)' <=> Exact(m)) /\ (Tame(m)' <=> Tame(m))
    BY DEF monVars, Halted, Exact, OffElsewhere, Tame, Due, ChecksDue, Current
<1>3. \A w \in Workers \ {h} : FoundOK(w, m)' <=> FoundOK(w, m)
    BY <1>2, OwnOthers DEF FoundOK
<1>4. req'[h] = r /\ req[h].op \in MonOps /\ On(h, m) /\ (On(h, m)' => r # NoReq)
    BY DEF OwnStep, AskOK, On
<1>5. On(h, m)' =>
        /\ r.op = req[h].op /\ r.data = req[h].data /\ r.at = "row" /\ r.op # "remove monitor"
        /\ Sure(h, m)' <=> Sure(h, m)
    BY <1>4 DEF OwnStep, Sure
<1>6. \A w \in Workers : On(w, m)' => /\ On(w, m) /\ req'[w].op = req[w].op
                                      /\ Trusted(w, m)' => Trusted(w, m)
    BY <1>4, <1>5, OwnOthers DEF Trusted, Sure
<1>7. Never(m)'
    <2>1. ASSUME mons[m] = NoMonitor, NEW w \in Workers, On(w, m)'
          PROVE  req'[w].at # "timer" /\ (req'[w].at = "timers" => req'[w].data.found[m] = NoMonitor)
        <3>1. CASE w = h
            BY <1>4, <1>5, <2>1, <3>1
        <3>2. CASE w # h
            <4>1. req'[w] = req[w] /\ On(w, m)
                BY <2>1, <3>2, OwnOthers
            <4> QED BY <1>1, <2>1, <4>1 DEF MonitorOK, Never
        <3> QED BY <3>1, <3>2
    <2>2. mons[m] = NoMonitor => Halted(m)
        BY <1>1 DEF MonitorOK, Never
    <2> QED BY <1>2, <2>1, <2>2 DEF Never
<1>8. Apart(m)'
    <2>1. ASSUME NEW w \in Workers, NEW x \in Workers, w # x, On(w, m)', On(x, m)'
          PROVE  /\ ~(req'[w].op = "add monitor" /\ req'[x].op = "add monitor")
                 /\ Trusted(w, m)' => Together(req'[w].op, req'[x].op)
        BY <1>1, <1>6, <2>1 DEF MonitorOK, Apart
    <2> QED BY <2>1 DEF Apart
<1>9. \A w \in Workers : AskedAt(w, m, "start monitors", "timers")' => w # h /\ AskedAt(w, m, "start monitors", "timers")
    BY <1>4, <1>5, OwnOthers DEF AskedAt, MonOps
<1>10. Doing(m)'
    <2>1. ASSUME NEW w \in Workers, Trusted(w, m)'
          PROVE  /\ (req'[w].op = "add monitor" /\ req'[w].at # "timer") => mons'[m] = NoMonitor
                 /\ req'[w].at = "timer" =>
                     /\ mons'[m] = req'[w].data.new
                     /\ \A x \in Workers : AskedAt(x, m, "start monitors", "timers")' => FoundOK(x, m)'
                 /\ (req'[w].op = "remove monitor" /\ req'[w].at = "row") => Halted(m)'
        <3>1. Trusted(w, m) /\ On(w, m)'
            BY <1>6, <2>1 DEF Trusted, Sure
        <3>2. CASE w = h
            BY <1>1, <1>2, <1>4, <1>5, <3>1, <3>2 DEF MonitorOK, Doing
        <3>3. CASE w # h
            <4>1. /\ (req[w].op = "add monitor" /\ req[w].at # "timer") => mons[m] = NoMonitor
                  /\ req[w].at = "timer" =>
                      /\ mons[m] = req[w].data.new
                      /\ \A x \in Workers : AskedAt(x, m, "start monitors", "timers") => FoundOK(x, m)
                  /\ (req[w].op = "remove monitor" /\ req[w].at = "row") => Halted(m)
                BY <1>1, <3>1 DEF MonitorOK, Doing
            <4>2. req'[w] = req[w]
                BY <3>3, OwnOthers
            <4> QED BY <1>2, <1>3, <1>9, <4>1, <4>2
        <3> QED BY <3>2, <3>3
    <2> QED BY <2>1 DEF Doing
<1>11. (SetsTimer(m)' <=> SetsTimer(m)) /\ (Unsettled(m)' <=> Unsettled(m))
    <2>1. ~AskedAt(h, m, "remove monitor", "row") /\ ~AskedAt(h, m, "remove monitor", "row")'
        BY <1>4, <1>5 DEF AskedAt
    <2>2. req[h].at # "timer" /\ (On(h, m)' => req'[h].at # "timer")
        BY <1>4, <1>5
    <2>3. req[h].op # "start monitors" /\ (On(h, m)' => req'[h].op # "start monitors")
        BY <1>4, <1>5 DEF MonOps
    <2>4. ASSUME NEW w \in Workers
          PROVE  /\ (On(w, m)' /\ req'[w].at = "timer") <=> (On(w, m) /\ req[w].at = "timer")
                 /\ (On(w, m)' /\ req'[w].op = "start monitors") <=> (On(w, m) /\ req[w].op = "start monitors")
                 /\ AskedAt(w, m, "remove monitor", "row")' <=> AskedAt(w, m, "remove monitor", "row")
        BY <2>1, <2>2, <2>3, OwnOthers
    <2> QED BY <2>4 DEF SetsTimer, Unsettled
<1>12. Settled(m)'
    <2>1. ASSUME NEW w \in Workers, On(w, m)', req'[w].op = "start monitors"
          PROVE  w # h /\ On(w, m) /\ req[w].op = "start monitors" /\ (Starting(w, m)' <=> Starting(w, m))
        <3>1. w # h
            BY <1>4, <1>5, <2>1 DEF MonOps
        <3> QED BY <1>2, <1>3, <1>11, <2>1, <3>1, OwnOthers DEF Starting
    <2> QED BY <1>1, <1>2, <1>11, <2>1 DEF MonitorOK, Settled
<1> QED BY <1>1, <1>7, <1>8, <1>10, <1>12, OwnKeeps DEF MonitorOK

\* Nothing is trusted that was not, but for what is beside a request that was when it ends.
TrustKept(h, m, r) ==
    /\ ~InDoubt(m)' => (~InDoubt(m) \/ Sure(h, m))
    /\ r # NoReq => (InDoubt(m)' <=> InDoubt(m))

\* Who is trusted after such a step was, or is harmless beside its request.
LEMMA OwnTrust ==
    ASSUME MonInv, NEW h \in Workers, NEW m \in Monitors, NEW r, OwnStep(h, m, r), TrustKept(h, m, r)
    PROVE  /\ Trusted(h, m)' => r # NoReq /\ req'[h] = r /\ Trusted(h, m)
           /\ \A w \in Workers \ {h} : Trusted(w, m)' =>
                /\ On(w, m) /\ (Trusted(w, m) \/ Trusted(h, m))
                /\ \/ req[h].op = "remove monitor" /\ req[w].op = "remove monitor"
                   \/ req[h].op = "add monitor" /\ req[w].op = "start monitors"
           /\ ~InDoubt(m)' => Trusted(h, m)
<1>1. /\ req'[h] = r /\ On(h, m)
      /\ On(h, m)' => r # NoReq /\ (Sure(h, m)' <=> Sure(h, m))
    BY DEF OwnStep, On, Sure
<1>2. Trusted(h, m)' => r # NoReq /\ Trusted(h, m)
    BY <1>1 DEF Trusted, Sure, TrustKept
<1>3. ASSUME NEW w \in Workers, w # h, Trusted(w, m)'
      PROVE  On(w, m) /\ (Trusted(w, m) \/ Trusted(h, m))
    <2>1. (On(w, m)' <=> On(w, m)) /\ (Sure(w, m)' <=> Sure(w, m))
        BY <1>3, OwnOthers
    <2> QED BY <1>1, <1>3, <2>1 DEF Trusted, TrustKept, Sure
<1>4. ~InDoubt(m)' => Trusted(h, m)
    BY <1>1 DEF Trusted, TrustKept
<1> QED BY <1>1, <1>2, <1>3, <1>4, OwnOthers

\* The step brings nobody together.
LEMMA OwnApart ==
    ASSUME MonInv, NEW h \in Workers, NEW m \in Monitors, NEW r, OwnStep(h, m, r), TrustKept(h, m, r)
    PROVE  Apart(m)'
<1>1. Apart(m)
    BY DEF MonInv, MonitorOK
<1>2. On(h, m) /\ req'[h] = r /\ (On(h, m)' => r.op = req[h].op)
    BY DEF OwnStep, On
<1>3. \A w \in Workers : On(w, m)' => On(w, m) /\ req'[w].op = req[w].op
    BY <1>2, OwnOthers
<1>4. ASSUME NEW w \in Workers, NEW x \in Workers, w # x, On(w, m), On(x, m), Trusted(w, m)'
      PROVE  Together(req[w].op, req[x].op)
    <2>1. CASE Trusted(w, m)
        BY <1>1, <1>4, <2>1 DEF Apart
    <2>2. CASE ~Trusted(w, m)
        <3>1. w # h /\ Trusted(h, m)
            BY <1>4, <2>2, OwnTrust
        <3>2. CASE x = h
            BY <1>1, <1>2, <1>4, <3>1, <3>2, TogetherSwaps DEF Apart
        <3>3. CASE x # h
            <4>1. \/ req[h].op = "remove monitor" /\ req[w].op = "remove monitor"
                  \/ req[h].op = "add monitor" /\ req[w].op = "start monitors"
                BY <1>4, <3>1, OwnOthers
            <4>2. \/ req[h].op = "remove monitor" /\ req[x].op = "remove monitor"
                  \/ req[h].op = "add monitor" /\ req[x].op = "start monitors"
                BY <1>4, <3>1, <3>3, OwnOthers
            <4> QED BY <4>1, <4>2 DEF Together
        <3> QED BY <3>2, <3>3
    <2> QED BY <2>1, <2>2
<1>5. ASSUME NEW w \in Workers, NEW x \in Workers, w # x, On(w, m)', On(x, m)'
      PROVE  /\ ~(req'[w].op = "add monitor" /\ req'[x].op = "add monitor")
             /\ Trusted(w, m)' => Together(req'[w].op, req'[x].op)
    BY <1>1, <1>3, <1>4, <1>5 DEF Apart
<1> QED BY <1>5 DEF Apart

\* The timer of a monitor that is removed stops.
LEMMA OwnStopKeeps ==
    ASSUME MonInv, NEW h \in Workers, NEW m \in Monitors, NEW r, OwnStep(h, m, r), MonTypes',
           mons' = mons, Halted(m)', InDoubt(m)' <=> InDoubt(m),
           req[h].op = "remove monitor", r # NoReq, r.at = "row"
    PROVE  MonInv'
<1>1. TrustKept(h, m, r)
    BY DEF TrustKept
<1>2. MonitorOK(m)
    BY DEF MonInv
<1>3. req'[h] = r /\ r.op = "remove monitor" /\ On(h, m)' /\ On(h, m)
    BY DEF OwnStep, AskOK, On
<1>4. Never(m)'
    <2>1. ASSUME mons[m] = NoMonitor, NEW w \in Workers, On(w, m)'
          PROVE  req'[w].at # "timer" /\ (req'[w].at = "timers" => req'[w].data.found[m] = NoMonitor)
        <3>1. CASE w = h
            BY <1>3, <3>1
        <3>2. CASE w # h
            <4>1. req'[w] = req[w] /\ On(w, m)
                BY <2>1, <3>2, OwnOthers
            <4> QED BY <1>2, <2>1, <4>1 DEF MonitorOK, Never
        <3> QED BY <3>1, <3>2
    <2> QED BY <2>1 DEF Never
<1>5. Apart(m)'
    BY <1>1, OwnApart
<1>6. Doing(m)'
    <2>1. ASSUME NEW w \in Workers, Trusted(w, m)'
          PROVE  req'[w].op = "remove monitor" /\ req'[w].at # "timer"
        <3>1. CASE w = h
            BY <1>3, <3>1
        <3>2. CASE w # h
            <4>1. On(w, m) /\ req[w].op = "remove monitor" /\ req'[w] = req[w]
                BY <1>1, <1>3, <2>1, <3>2, OwnTrust, OwnOthers
            <4>2. AskOK(req[w])
                BY <4>1, OnMonitors DEF MonInv, StartOK
            <4> QED BY <4>1, <4>2 DEF AskOK
        <3> QED BY <3>1, <3>2
    <2> QED BY <2>1 DEF Doing
<1>7. Settled(m)'
    <2>1. Unsettled(m)'
        BY <1>3 DEF Unsettled, AskedAt
    <2>2. ASSUME ~InDoubt(m)', NEW w \in Workers, On(w, m)' PROVE req'[w].op # "start monitors"
        <3>1. CASE w = h
            BY <1>3, <3>1
        <3>2. CASE w # h
            BY <1>1, <1>3, <2>2, <3>2, OwnTrust, OwnOthers
        <3> QED BY <3>1, <3>2
    <2> QED BY <2>1, <2>2 DEF Settled
<1> QED BY <1>4, <1>5, <1>6, <1>7, OwnKeeps DEF MonitorOK

\* The row is written; the request goes on to its timer.
LEMMA OwnWriteKeeps ==
    ASSUME MonInv, NEW h \in Workers, NEW m \in Monitors, NEW r, OwnStep(h, m, r), MonTypes',
           UNCHANGED <<timers, checks, halted>>, InDoubt(m)' <=> InDoubt(m),
           req[h].at = "row", mons'[m] = req[h].data.new, req[h].op # "remove monitor", r # NoReq, r.at = "timer"
    PROVE  MonInv'
<1>1. TrustKept(h, m, r)
    BY DEF TrustKept
<1>2. MonitorOK(m)
    BY DEF MonInv
<1>3. req'[h] = r /\ r.op = req[h].op /\ r.data = req[h].data /\ On(h, m)' /\ On(h, m) /\ AskOK(r)
    BY DEF OwnStep, AskOK, On
<1>4. mons'[m].rev > 0 /\ mons'[m] # NoMonitor
    <2>1. mons'[m] = r.data.new /\ r.data.new.rev > 0 /\ r.data.new.rev \in Nat
        BY <1>3 DEF AskOK, RowOK, MonRow
    <2>2. NoMonitor.rev = 0
        BY DEF NoMonitor
    <2> QED BY ONLY <2>1, <2>2
<1>5. Never(m)'
    BY <1>4 DEF Never
<1>6. Apart(m)'
    BY <1>1, OwnApart
<1>7. ASSUME Trusted(h, m), NEW w \in Workers, w # h, On(w, m)
      PROVE  /\ mons[m] = NoMonitor /\ Halted(m) /\ req[w].op = "start monitors" /\ req[w].at # "timer"
             /\ req[w].at = "timers" => req[w].data.found[m] = NoMonitor
    <2>1. req[h].op = "add monitor" /\ req[w].op = "start monitors"
        BY <1>7, OwnOthers
    <2>2. mons[m] = NoMonitor
        BY <1>2, <1>7, <2>1 DEF MonitorOK, Doing
    <2> QED BY <1>2, <1>7, <2>1, <2>2 DEF MonitorOK, Never
<1>8. Doing(m)'
    <2>1. ASSUME NEW w \in Workers, Trusted(w, m)'
          PROVE  /\ (req'[w].op = "add monitor" /\ req'[w].at # "timer") => mons'[m] = NoMonitor
                 /\ req'[w].at = "timer" =>
                     /\ mons'[m] = req'[w].data.new
                     /\ \A x \in Workers : AskedAt(x, m, "start monitors", "timers")' => FoundOK(x, m)'
                 /\ (req'[w].op = "remove monitor" /\ req'[w].at = "row") => Halted(m)'
        <3>1. CASE w = h
            <4>1. Trusted(h, m)
                BY <1>1, <2>1, <3>1, OwnTrust
            <4>2. ASSUME NEW x \in Workers, AskedAt(x, m, "start monitors", "timers")' PROVE FoundOK(x, m)'
                <5>1. x # h
                    BY <1>3, <4>2 DEF AskedAt, AskOK, MonOps
                <5>2. On(x, m) /\ req'[x] = req[x] /\ req[x].at = "timers"
                    BY <4>2, <5>1, OwnOthers DEF AskedAt
                <5> QED BY <1>7, <4>1, <5>1, <5>2 DEF FoundOK
            <4> QED BY <1>3, <3>1, <4>2
        <3>2. CASE w # h
            <4>1. On(w, m) /\ req[w].op = "start monitors" /\ req'[w] = req[w]
                BY <1>1, <2>1, <3>2, OwnTrust, OwnOthers
            <4>2. req[w].at # "timer"
                BY <4>1, StartIsNone DEF MonInv
            <4> QED BY <4>1, <4>2
        <3> QED BY <3>1, <3>2
    <2> QED BY <2>1 DEF Doing
<1>9. Settled(m)'
    <2>1. SetsTimer(m)' /\ Unsettled(m)'
        BY <1>3 DEF Unsettled, SetsTimer
    <2>2. ASSUME ~InDoubt(m)', NEW w \in Workers, On(w, m)', req'[w].op = "start monitors" PROVE Starting(w, m)'
        <3>1. Trusted(h, m)
            BY <1>1, <2>2, OwnTrust
        <3>2. w # h
            BY <1>3, <2>2 DEF AskOK, MonOps
        <3>3. On(w, m) /\ req'[w] = req[w]
            BY <2>2, <3>2, OwnOthers
        <3>4. Tame(m)'
            BY <1>7, <3>1, <3>2, <3>3 DEF Tame, Halted, Current, ChecksDue
        <3>5. req'[w].at = "timers" => FoundOK(w, m)'
            BY <1>7, <3>1, <3>2, <3>3 DEF FoundOK
        <3> QED BY <2>1, <3>4, <3>5 DEF Starting
    <2> QED BY <2>1, <2>2 DEF Settled
<1> QED BY <1>5, <1>6, <1>8, <1>9, OwnKeeps DEF MonitorOK

\* A removed monitor is neither active nor one that has never been.
LEMMA RemovedIsGone == Removed # NoMonitor /\ ~Removed.active /\ RowOK(Removed) /\ RowOK(NoMonitor)
<1>1. Removed.gone = TRUE /\ NoMonitor.gone = FALSE /\ ~Removed.active /\ ~NoMonitor.active
    BY DEF Removed, NoMonitor
<1>2. Removed \in MonRow /\ NoMonitor \in MonRow
    BY DEF Removed, NoMonitor, MonRow
<1> QED BY <1>1, <1>2 DEF RowOK

\* The row is removed, whose timer has stopped, and the request ends.
LEMMA OwnDeleteKeeps ==
    ASSUME MonInv, NEW h \in Workers, NEW m \in Monitors, OwnStep(h, m, NoReq), MonTypes',
           UNCHANGED <<timers, checks, halted>>, TrustKept(h, m, NoReq),
           req[h].at = "row", mons'[m] = Removed, req[h].op = "remove monitor"
    PROVE  MonInv'
<1>1. MonitorOK(m) /\ ~On(h, m)' /\ On(h, m)
    BY DEF MonInv, OwnStep, On
<1>2. Never(m)'
    BY RemovedIsGone DEF Never
<1>3. Apart(m)'
    BY OwnApart
<1>4. ASSUME NEW w \in Workers, w # h, On(w, m), Trusted(w, m) \/ Trusted(h, m)
      PROVE  req[w].op = "remove monitor" /\ req[w].at # "timer" /\ req'[w] = req[w]
    <2>1. req[w].op = "remove monitor" /\ req'[w] = req[w]
        BY <1>4, OwnOthers
    <2>2. AskOK(req[w])
        BY <1>4, <2>1, OnMonitors DEF MonInv, StartOK
    <2> QED BY <2>1, <2>2 DEF AskOK
<1>5. Trusted(h, m) => Halted(m)
    BY <1>1 DEF MonitorOK, Doing
<1>6. Halted(m)' <=> Halted(m)
    BY DEF Halted, Current
<1>7. Doing(m)'
    <2>1. ASSUME NEW w \in Workers, Trusted(w, m)'
          PROVE  /\ req'[w].op = "remove monitor" /\ req'[w].at # "timer"
                 /\ req'[w].at = "row" => Halted(m)'
        <3>1. w # h /\ On(w, m) /\ (Trusted(w, m) \/ Trusted(h, m))
            BY <1>1, <2>1, OwnTrust DEF Trusted, Sure
        <3>2. Trusted(w, m) => ((req[w].op = "remove monitor" /\ req[w].at = "row") => Halted(m))
            BY <1>1 DEF MonitorOK, Doing
        <3> QED BY <1>4, <1>5, <1>6, <3>1, <3>2
    <2> QED BY <2>1 DEF Doing
<1>8. Settled(m)'
    <2>1. ASSUME ~InDoubt(m)' PROVE Trusted(h, m) /\ Exact(m)'
        <3>1. Trusted(h, m) /\ Halted(m)'
            BY <1>5, <1>6, <2>1, OwnTrust
        <3> QED BY <3>1, RemovedIsGone DEF Halted, Exact, OffElsewhere, Due, ChecksDue
    <2>2. ASSUME ~InDoubt(m)', NEW w \in Workers, On(w, m)' PROVE req'[w].op # "start monitors"
        <3>1. w # h
            BY <1>1, <2>2
        <3>2. On(w, m)
            BY <2>2, <3>1, OwnOthers
        <3> QED BY <1>4, <2>1, <2>2, <3>1, <3>2
    <2> QED BY <2>1, <2>2 DEF Settled
<1> QED BY <1>2, <1>3, <1>7, <1>8, OwnKeeps DEF MonitorOK

\* The timer is set to the row that was written, and the request ends.
LEMMA OwnSetKeeps ==
    ASSUME MonInv, NEW h \in Workers, NEW m \in Monitors, OwnStep(h, m, NoReq), MonTypes',
           mons' = mons, TrustKept(h, m, NoReq),
           req[h].at = "timer", (mons[m] = req[h].data.new) => Exact(m)'
    PROVE  MonInv'
<1>1. MonitorOK(m) /\ ~On(h, m)' /\ On(h, m) /\ req[h].op # "remove monitor"
    BY DEF MonInv, OwnStep, On, AskOK
<1>2. Never(m)'
    BY <1>1 DEF Never, MonitorOK
<1>3. Apart(m)'
    BY OwnApart
<1>4. ASSUME NEW w \in Workers, w # h, On(w, m), Trusted(w, m) \/ Trusted(h, m)
      PROVE  req[w].op = "start monitors" /\ req[w].at # "timer" /\ req[w].at # "row" /\ req'[w] = req[w]
    <2>1. req[w].op = "start monitors" /\ req'[w] = req[w]
        BY <1>1, <1>4, OwnOthers
    <2> QED BY <1>4, <2>1, StartIsNone DEF MonInv
<1>5. Doing(m)'
    <2>1. ASSUME NEW w \in Workers, Trusted(w, m)'
          PROVE  req'[w].op = "start monitors" /\ req'[w].at # "timer"
        <3>1. w # h /\ On(w, m) /\ (Trusted(w, m) \/ Trusted(h, m))
            BY <1>1, <2>1, OwnTrust DEF Trusted, Sure
        <3> QED BY <1>4, <3>1
    <2> QED BY <2>1 DEF Doing
<1>6. ASSUME Trusted(h, m)
      PROVE  /\ Exact(m)'
             /\ \A x \in Workers : AskedAt(x, m, "start monitors", "timers") => FoundOK(x, m)
    BY <1>1, <1>6 DEF MonitorOK, Doing
<1>7. Settled(m)'
    <2>1. ASSUME ~InDoubt(m)', NEW w \in Workers, On(w, m)' PROVE Starting(w, m)'
        <3>1. Trusted(h, m) /\ w # h
            BY <1>1, <2>1, OwnTrust
        <3>2. On(w, m) /\ req'[w] = req[w] /\ req[w].op = "start monitors"
            BY <1>4, <2>1, <3>1, OwnOthers
        <3>3. Exact(m)' /\ Tame(m)'
            BY <1>6, <3>1 DEF Exact, OffElsewhere, Tame
        <3>4. req'[w].at = "timers" => FoundOK(w, m)'
            BY <1>6, <3>1, <3>2 DEF FoundOK, AskedAt
        <3> QED BY <3>3, <3>4 DEF Starting
    <2>2. ~InDoubt(m)' => Exact(m)'
        BY <1>6, OwnTrust
    <2> QED BY <2>1, <2>2 DEF Settled
<1> QED BY <1>2, <1>3, <1>5, <1>7, OwnKeeps DEF MonitorOK

\* The request fails, with the row written or not, and leaves the monitor in doubt.
LEMMA OwnFailKeeps ==
    ASSUME MonInv, NEW h \in Workers, NEW m \in Monitors, OwnStep(h, m, NoReq), MonTypes',
           UNCHANGED <<timers, checks, halted>>, InDoubt(m)',
           mons'[m] = NoMonitor => mons[m] = NoMonitor
    PROVE  MonInv'
<1>1. MonitorOK(m) /\ ~On(h, m)' /\ TrustKept(h, m, NoReq)
    BY DEF MonInv, OwnStep, On, TrustKept
<1>2. Halted(m)' <=> Halted(m)
    BY DEF Halted, Current
<1>3. Never(m)'
    <2>1. ASSUME mons'[m] = NoMonitor, NEW w \in Workers, On(w, m)'
          PROVE  req'[w].at # "timer" /\ (req'[w].at = "timers" => req'[w].data.found[m] = NoMonitor)
        <3>1. w # h
            BY <1>1, <2>1
        <3>2. req'[w] = req[w] /\ On(w, m)
            BY <2>1, <3>1, OwnOthers
        <3> QED BY <1>1, <2>1, <3>2 DEF MonitorOK, Never
    <2>2. mons'[m] = NoMonitor => Halted(m)'
        BY <1>1, <1>2 DEF MonitorOK, Never
    <2> QED BY <2>1, <2>2 DEF Never
<1>4. Apart(m)'
    BY <1>1, OwnApart
<1>5. Doing(m)'
    <2>1. ASSUME NEW w \in Workers, Trusted(w, m)'
          PROVE  /\ req'[w].op # "add monitor" /\ req'[w].at # "timer"
                 /\ (req'[w].op = "remove monitor" /\ req'[w].at = "row") => Halted(m)'
        <3>1. w # h /\ On(w, m)
            BY <1>1, <2>1, OwnTrust DEF Trusted, Sure
        <3>2. req'[w] = req[w] /\ Trusted(w, m)
            BY <2>1, <3>1, OwnOthers DEF Trusted
        <3>3. CASE req[w].op = "remove monitor"
            <4>1. AskOK(req[w])
                BY <3>1, <3>3, OnMonitors DEF MonInv, StartOK
            <4>2. req[w].at = "row" => Halted(m)
                BY <1>1, <3>2, <3>3 DEF MonitorOK, Doing
            <4> QED BY <1>2, <3>2, <3>3, <4>1, <4>2 DEF AskOK
        <3>4. CASE req[w].op = "start monitors"
            BY <3>1, <3>2, <3>4, StartIsNone DEF MonInv
        <3> QED BY <1>1, <2>1, <3>1, <3>3, <3>4, OwnTrust
    <2> QED BY <2>1 DEF Doing
<1> QED BY <1>3, <1>4, <1>5, OwnKeeps DEF MonitorOK, Settled

\* A change of timer leaves no check of the monitor current but the one it begins, and does
\* not see those of others.
LEMMA BeforeApart ==
    ASSUME MonTypes, NEW m \in Monitors, NEW new, new \subseteq [m : {m}, rev : Nat, old : {FALSE}],
           checks' = Before(m) \cup new
    PROVE  /\ checks' \subseteq [m : Monitors, rev : Nat, old : BOOLEAN]
           /\ Current(m)' = new
           /\ \A x \in Monitors \ {m} : Current(x)' = Current(x)
<1> DEFINE After(c) == IF c.m = m THEN [c EXCEPT !.old = TRUE] ELSE c
<1>1. ASSUME NEW c \in checks
      PROVE  /\ After(c) \in [m : Monitors, rev : Nat, old : BOOLEAN] /\ After(c).m = c.m
             /\ c.m = m => After(c).old = TRUE
             /\ c.m # m => After(c) = c
    BY <1>1 DEF MonTypes
<1>2. Before(m) = {After(c) : c \in checks}
    BY DEF Before
<1> HIDE DEF After
<1>3. checks' \subseteq [m : Monitors, rev : Nat, old : BOOLEAN]
    <2>1. new \subseteq [m : Monitors, rev : Nat, old : BOOLEAN]
        OBVIOUS
    <2>2. Before(m) \subseteq [m : Monitors, rev : Nat, old : BOOLEAN]
        BY <1>1, <1>2
    <2> QED BY <2>1, <2>2
<1>4. Current(m)' = new
    <2>1. ASSUME NEW c \in checks', c.m = m, ~c.old PROVE c \in new
        BY <1>1, <1>2, <2>1
    <2>2. \A c \in new : c \in checks' /\ c.m = m /\ ~c.old
        OBVIOUS
    <2> QED BY <2>1, <2>2 DEF Current
<1>5. ASSUME NEW x \in Monitors, x # m PROVE Current(x)' = Current(x)
    <2>1. ASSUME NEW c \in checks', c.m = x PROVE c \in checks
        <3>1. c \notin new
            BY <1>5, <2>1
        <3>2. PICK d \in checks : c = After(d)
            BY <1>2, <2>1, <3>1
        <3> QED BY <1>1, <1>5, <2>1, <3>2
    <2>2. ASSUME NEW c \in checks, c.m = x PROVE c \in checks'
        BY <1>1, <1>2, <1>5, <2>2
    <2> QED BY <2>1, <2>2 DEF Current
<1> QED BY <1>3, <1>4, <1>5

\* What a request at one of the stages of the routes is.
LEMMA Asks ==
    ASSUME ReqsOK, NEW h \in Workers, NEW at, OfMonitor(h, at)
    PROVE  /\ req[h] # NoReq /\ Requested(req[h]) /\ AskOK(req[h]) /\ req[h].at = at
           /\ req[h].data.m \in Monitors /\ RowOK(req[h].data.new) /\ On(h, req[h].data.m)
<1>1. req[h] # NoReq /\ req[h].op \in MonOps /\ req[h].at = at
    BY DEF OfMonitor, At
<1>2. Requested(req[h]) /\ AskOK(req[h])
    BY <1>1 DEF ReqsOK, ReqOK, StartOK, Elsewhere, Foreign, MonitorOps, MonOps
<1> QED BY <1>1, <1>2 DEF AskOK, On

\* It moves on or ends.
LEMMA OwnGoes ==
    ASSUME ReqsOK, NEW h \in Workers, NEW old, OfMonitor(h, old), NEW m, m = req[h].data.m,
           NEW at \in {"tables", "row", "timer"}, req[h].op = "remove monitor" => at # "timer", GoOn(h, at),
           \A x \in Monitors \ {m} : mons'[x] = mons[x] /\ timers'[x] = timers[x] /\ (x \in halted' <=> x \in halted) /\ Current(x)' = Current(x)
    PROVE  \E r : OwnStep(h, m, r) /\ r # NoReq /\ r.at = at /\ (InDoubt(m)' <=> InDoubt(m))
<1>1. PICK r : r = [op |-> req[h].op, on |-> req[h].on, at |-> at, data |-> req[h].data, sure |-> req[h].sure]
    OBVIOUS
<1>2. Requested(req[h]) /\ AskOK(req[h]) /\ On(h, m)
    BY Asks
<1>3. Requested(r) /\ AskOK(r) /\ r.op = req[h].op /\ r.data = req[h].data /\ r.sure = req[h].sure /\ r.at = at
    BY <1>1, <1>2 DEF Requested, AskOK
<1>4. r # NoReq
    BY <1>3, MonitorRequest
<1>5. [req[h] EXCEPT !.at = at, !.data = req[h].data] = r
    BY <1>1, <1>2, RequestMoves
<1>6. req' = [w \in Workers |-> IF w = h THEN r ELSE req[w]]
    <2>1. req' = [w \in Workers |-> IF w = h THEN [req[h] EXCEPT !.at = at, !.data = req[h].data] ELSE req[w]]
        BY DEF ReqsOK, GoOn, Go
    <2> QED BY <1>5, <2>1
<1>7. doubt' = doubt /\ calls' = calls /\ menu' = menu
    BY DEF GoOn, Go
<1> QED BY <1>2, <1>3, <1>4, <1>6, <1>7 DEF OwnStep, InDoubt

\* It ends, and its monitor comes into doubt or out of it.
LEMMA OwnEnds ==
    ASSUME ReqsOK, NEW h \in Workers, NEW old, OfMonitor(h, old), NEW m, m = req[h].data.m,
           req' = [req EXCEPT ![h] = NoReq], UNCHANGED <<calls, menu>>,
           NEW more, more \subseteq {MonObject(m)}, NEW less, less \subseteq {MonObject(m)},
           doubt' = (doubt \cup more) \ less,
           \A x \in Monitors \ {m} : mons'[x] = mons[x] /\ timers'[x] = timers[x] /\ (x \in halted' <=> x \in halted) /\ Current(x)' = Current(x)
    PROVE  OwnStep(h, m, NoReq)
<1>1. AskOK(req[h]) /\ On(h, m)
    BY Asks
<1>2. req' = [w \in Workers |-> IF w = h THEN NoReq ELSE req[w]]
    BY DEF ReqsOK
<1>3. \A x \in Monitors \ {m} : InDoubt(x)' <=> InDoubt(x)
    BY DEF InDoubt, MonObject
<1> QED BY <1>1, <1>2, <1>3 DEF OwnStep

----------------------------------------------------------------------------
(***************************************************************************)
(* The steps of the routes.                                                *)
(***************************************************************************)

\* A row written by a call has been there.
LEMMA CalledRow ==
    ASSUME ReqsOK, calls > 0, NEW ticks \in BOOLEAN, NEW row, row = [rev |-> calls, active |-> ticks, gone |-> FALSE]
    PROVE  row \in MonRow /\ RowOK(row) /\ row.rev > 0 /\ ~row.gone
<1>1. calls \in Nat
    BY DEF ReqsOK
<1> QED BY <1>1 DEF RowOK, MonRow

\* A request to add, change or remove a monitor arrives.
LEMMA RequestStep ==
    ASSUME MonInv, NEW h \in Workers, AddMonitor(h) \/ ChangeMonitor(h) \/ RemoveMonitor(h)
    PROVE  MonInv'
<1>1. ReqsOK
    BY DEF MonInv
<1>2. CASE AddMonitor(h)
    <2>1. PICK m \in Monitors, ticks \in BOOLEAN :
            /\ mons[m] = NoMonitor /\ \A w \in Workers : req[w] # NoReq => req[w].op # "add monitor"
            /\ BeginIn("projects", h, "add monitor", {MonObject(m)}, "tables",
                       [m |-> m, new |-> [rev |-> calls, active |-> ticks, gone |-> FALSE]])
            /\ UNCHANGED monVars
        BY <1>2 DEF AddMonitor
    <2>2. PICK row : row = [rev |-> calls, active |-> ticks, gone |-> FALSE]
        OBVIOUS
    <2>3. Called(h, "add monitor", {MonObject(m)}, "tables", [m |-> m, new |-> row]) /\ calls > 0
        BY <2>1, <2>2 DEF BeginIn, Called
    <2>4. row \in MonRow /\ RowOK(row) /\ row.rev > 0 /\ ~row.gone
        BY <1>1, <2>2, <2>3, CalledRow
    <2> QED BY <2>1, <2>3, <2>4, ArriveKeeps DEF MonOps
<1>3. CASE ChangeMonitor(h)
    <2>1. PICK m \in Monitors, ticks \in BOOLEAN :
            /\ BeginIn("projects", h, "change monitor", {MonObject(m)}, "tables",
                       [m |-> m, new |-> [rev |-> calls, active |-> ticks, gone |-> FALSE]])
            /\ UNCHANGED monVars
        BY <1>3 DEF ChangeMonitor
    <2>2. PICK row : row = [rev |-> calls, active |-> ticks, gone |-> FALSE]
        OBVIOUS
    <2>3. Called(h, "change monitor", {MonObject(m)}, "tables", [m |-> m, new |-> row]) /\ calls > 0
        BY <2>1, <2>2 DEF BeginIn, Called
    <2>4. row \in MonRow /\ RowOK(row) /\ row.rev > 0 /\ ~row.gone
        BY <1>1, <2>2, <2>3, CalledRow
    <2> QED BY <2>1, <2>3, <2>4, ArriveKeeps DEF MonOps
<1>4. CASE RemoveMonitor(h)
    <2>1. PICK m \in Monitors :
            /\ BeginIn("projects", h, "remove monitor", {MonObject(m)}, "tables", [m |-> m, new |-> Removed])
            /\ UNCHANGED monVars
        BY <1>4 DEF RemoveMonitor
    <2>2. Called(h, "remove monitor", {MonObject(m)}, "tables", [m |-> m, new |-> Removed])
        BY <2>1 DEF BeginIn
    <2>3. Removed \in MonRow /\ RowOK(Removed)
        BY RemovedIsGone DEF RowOK
    <2> QED BY <2>1, <2>2, <2>3, ArriveKeeps DEF MonOps
<1> QED BY <1>2, <1>3, <1>4

\* The tables are there, and a removal stops the timer; or they cannot be made.
LEMMA TablesStep ==
    ASSUME MonInv, NEW h \in Workers, EnsureTables(h) \/ EnsureTablesFails(h)
    PROVE  MonInv'
<1>1. OfMonitor(h, "tables") /\ ReqsOK /\ MonTypes
    BY DEF EnsureTables, EnsureTablesFails, MonInv
<1>2. PICK m \in Monitors : m = req[h].data.m
    BY <1>1, Asks
<1>3. AskOK(req[h]) /\ req[h].at = "tables" /\ On(h, m)
    BY <1>1, <1>2, Asks
<1>4. CASE EnsureTables(h) /\ req[h].op # "remove monitor"
    <2>1. UNCHANGED monVars /\ GoOn(h, "row")
        BY <1>4 DEF EnsureTables, monVars
    <2>2. \A x \in Monitors \ {m} : mons'[x] = mons[x] /\ timers'[x] = timers[x] /\ (x \in halted' <=> x \in halted) /\ Current(x)' = Current(x)
        BY <2>1 DEF monVars, Current
    <2>3. PICK r : OwnStep(h, m, r) /\ r # NoReq /\ r.at = "row" /\ (InDoubt(m)' <=> InDoubt(m))
        BY <1>1, <1>2, <2>1, <2>2, OwnGoes
    <2>4. r.op # "remove monitor"
        BY <1>4, <2>3 DEF OwnStep
    <2> QED BY <1>3, <1>4, <2>1, <2>3, <2>4, OwnQuietKeeps
<1>5. CASE EnsureTables(h) /\ req[h].op = "remove monitor"
    <2>1. Stop(m) /\ mons' = mons /\ halted' = halted /\ GoOn(h, "row")
        BY <1>2, <1>5 DEF EnsureTables
    <2>2. checks' = Before(m) \cup {} /\ timers' = [timers EXCEPT ![m] = NoMonitor]
        BY <2>1 DEF Stop
    <2>3. /\ checks' \subseteq [m : Monitors, rev : Nat, old : BOOLEAN]
          /\ Current(m)' = {} /\ \A x \in Monitors \ {m} : Current(x)' = Current(x)
        BY <1>1, <2>2, BeforeApart
    <2>4. timers'[m] = NoMonitor /\ (\A x \in Monitors \ {m} : timers'[x] = timers[x]) /\ MonTypes'
        BY <1>1, <2>1, <2>2, <2>3, RemovedIsGone DEF MonTypes, RowOK
    <2>5. PICK r : OwnStep(h, m, r) /\ r # NoReq /\ r.at = "row" /\ (InDoubt(m)' <=> InDoubt(m))
        BY <1>1, <1>2, <2>1, <2>3, <2>4, OwnGoes
    <2>6. Halted(m)'
        BY <2>3, <2>4 DEF Halted
    <2> QED BY <1>5, <2>1, <2>4, <2>5, <2>6, OwnStopKeeps
<1>6. CASE EnsureTablesFails(h)
    <2>1. UNCHANGED monVars /\ Finish(h, {})
        BY <1>6 DEF EnsureTablesFails
    <2>2. \A x \in Monitors \ {m} : mons'[x] = mons[x] /\ timers'[x] = timers[x] /\ (x \in halted' <=> x \in halted) /\ Current(x)' = Current(x)
        BY <2>1 DEF monVars, Current
    <2>3. doubt' = (doubt \cup {}) \ {} /\ req' = [req EXCEPT ![h] = NoReq] /\ UNCHANGED <<calls, menu>>
        BY <2>1 DEF Finish
    <2>4. OwnStep(h, m, NoReq)
        BY <1>1, <1>2, <2>2, <2>3, OwnEnds
    <2> QED BY <1>3, <2>1, <2>3, <2>4, OwnQuietKeeps DEF InDoubt
<1> QED BY <1>4, <1>5, <1>6 DEF EnsureTables

\* What a write makes of the table.
TableWritten(h, m, after) ==
    /\ after \in [Monitors -> MonRow] /\ \A x \in Monitors : RowOK(after[x])
    /\ \A x \in Monitors \ {m} : after[x] = mons[x]
    /\ req[h].data.new # NoMonitor /\ (req[h].op # "remove monitor" => req[h].data.new # Removed)
    /\ after = mons \/ after[m] = req[h].data.new
    /\ after[m] # req[h].data.new => req[h].op = "change monitor" /\ after = mons

\* The table after a write, which finds the row of a change or does nothing.
LEMMA WrittenTable ==
    ASSUME MonTypes, NEW h \in Workers, AskOK(req[h]), NEW m \in Monitors, m = req[h].data.m
    PROVE  TableWritten(h, m, Written(req[h].data, req[h].op))
<1> DEFINE after == Written(req[h].data, req[h].op)
<1>1. /\ mons \in [Monitors -> MonRow] /\ \A x \in Monitors : RowOK(mons[x])
      /\ req[h].data.new \in MonRow /\ RowOK(req[h].data.new)
    BY DEF MonTypes, AskOK
<1>2. req[h].data.new # NoMonitor /\ (req[h].op # "remove monitor" => req[h].data.new # Removed)
    <2>1. NoMonitor.rev = 0 /\ ~NoMonitor.gone /\ Removed.gone /\ Removed.rev = 0
        BY DEF NoMonitor, Removed
    <2>2. IF req[h].op = "remove monitor" THEN req[h].data.new.gone ELSE req[h].data.new.rev > 0
        BY <2>1 DEF AskOK
    <2>3. req[h].data.new.rev \in Nat
        BY <1>1 DEF MonRow
    <2>4. CASE req[h].op = "remove monitor"
        BY <2>1, <2>2, <2>4
    <2>5. CASE req[h].op # "remove monitor"
        <3>1. req[h].data.new.rev > 0
            BY <2>2, <2>5
        <3>2. req[h].data.new.rev # 0
            BY ONLY <2>3, <3>1
        <3> QED BY <2>1, <2>5, <3>2
    <2> QED BY <2>4, <2>5
<1> SUFFICES TableWritten(h, m, after)
    OBVIOUS
<1>3. CASE req[h].op = "change monitor" /\ ~There(m)
    <2>1. after = mons
        BY <1>3 DEF Written
    <2> QED BY <1>1, <1>2, <1>3, <2>1 DEF TableWritten
<1>4. CASE ~(req[h].op = "change monitor" /\ ~There(m))
    <2>1. after = [mons EXCEPT ![m] = req[h].data.new]
        BY <1>4 DEF Written
    <2> QED BY <1>1, <1>2, <2>1 DEF TableWritten
<1> QED BY <1>3, <1>4

\* The row is written, or is not there, or the write fails.
LEMMA RowStep ==
    ASSUME MonInv, NEW h \in Workers, WriteMonitor(h) \/ WriteMonitorFails(h)
    PROVE  MonInv'
<1>1. OfMonitor(h, "row") /\ ReqsOK /\ MonTypes
    BY DEF WriteMonitor, WriteMonitorFails, MonInv
<1>2. PICK m \in Monitors : m = req[h].data.m
    BY <1>1, Asks
<1>3. AskOK(req[h]) /\ req[h].at = "row" /\ On(h, m)
    BY <1>1, <1>2, Asks
<1>4. PICK after : after = Written(req[h].data, req[h].op)
    OBVIOUS
<1>5. /\ after \in [Monitors -> MonRow] /\ \A x \in Monitors : RowOK(after[x])
      /\ \A x \in Monitors \ {m} : after[x] = mons[x]
      /\ req[h].data.new # NoMonitor /\ (req[h].op # "remove monitor" => req[h].data.new # Removed)
      /\ after = mons \/ after[m] = req[h].data.new
      /\ after[m] # req[h].data.new => req[h].op = "change monitor" /\ after = mons
    <2>1. TableWritten(h, m, after)
        BY <1>1, <1>2, <1>3, <1>4, WrittenTable
    <2> QED BY <2>1 DEF TableWritten
<1>6. UNCHANGED <<timers, checks, halted>>
    BY DEF WriteMonitor, WriteMonitorFails
<1>7. mons' \in {mons, after} /\ (WriteMonitor(h) => mons' = after)
    BY <1>4 DEF WriteMonitor, WriteMonitorFails
<1>8. \A x \in Monitors \ {m} : mons'[x] = mons[x] /\ timers'[x] = timers[x] /\ (x \in halted' <=> x \in halted) /\ Current(x)' = Current(x)
    BY <1>5, <1>6, <1>7 DEF Current
<1>9. MonTypes'
    BY <1>1, <1>5, <1>6, <1>7 DEF MonTypes
<1>10. CASE WriteMonitor(h) /\ req[h].op # "remove monitor" /\ after[m] = req[h].data.new
    <2>1. GoOn(h, "timer")
        BY <1>2, <1>4, <1>5, <1>10 DEF WriteMonitor
    <2>2. PICK r : OwnStep(h, m, r) /\ r # NoReq /\ r.at = "timer" /\ (InDoubt(m)' <=> InDoubt(m))
        BY <1>1, <1>2, <1>8, <1>10, <2>1, OwnGoes
    <2> QED BY <1>3, <1>6, <1>7, <1>9, <1>10, <2>2, OwnWriteKeeps
<1>11. CASE WriteMonitor(h) /\ after[m] # req[h].data.new
    <2>1. Finish(h, IF req[h].data.new = Removed THEN {MonObject(m)} ELSE {}) /\ req[h].data.new # Removed
        BY <1>2, <1>4, <1>5, <1>7, <1>11 DEF WriteMonitor
    <2>2. doubt' = (doubt \cup {}) \ {} /\ req' = [req EXCEPT ![h] = NoReq] /\ UNCHANGED <<calls, menu>>
        BY <2>1 DEF Finish
    <2>3. OwnStep(h, m, NoReq)
        BY <1>1, <1>2, <1>8, <2>2, OwnEnds
    <2>4. UNCHANGED monVars
        BY <1>5, <1>6, <1>7, <1>11 DEF monVars
    <2> QED BY <1>3, <1>5, <1>11, <2>2, <2>3, <2>4, OwnQuietKeeps DEF InDoubt
<1>12. CASE WriteMonitor(h) /\ req[h].op = "remove monitor"
    <2>1. req[h].data.new = Removed /\ after[m] = Removed
        BY <1>3, <1>5, <1>12 DEF AskOK
    <2>2. Finish(h, {MonObject(m)})
        BY <1>2, <1>7, <1>12, <2>1 DEF WriteMonitor
    <2>3. /\ doubt' = (doubt \cup {}) \ ({MonObject(m)} \cap req[h].sure) /\ req' = [req EXCEPT ![h] = NoReq]
          /\ {MonObject(m)} \cap req[h].sure \subseteq {MonObject(m)} /\ UNCHANGED <<calls, menu>>
        BY <2>2 DEF Finish
    <2>4. OwnStep(h, m, NoReq)
        BY <1>1, <1>2, <1>8, <2>3, OwnEnds
    <2>5. TrustKept(h, m, NoReq)
        BY <1>3, <2>3 DEF TrustKept, Sure, InDoubt
    <2> QED BY <1>3, <1>6, <1>7, <1>9, <1>12, <2>1, <2>4, <2>5, OwnDeleteKeeps
<1>13. CASE WriteMonitorFails(h)
    <2>1. Fail(h, {MonObject(m)})
        BY <1>2, <1>13 DEF WriteMonitorFails
    <2>2. doubt' = (doubt \cup {MonObject(m)}) \ {} /\ req' = [req EXCEPT ![h] = NoReq] /\ UNCHANGED <<calls, menu>>
        BY <2>1 DEF Fail
    <2>3. OwnStep(h, m, NoReq)
        BY <1>1, <1>2, <1>8, <2>2, OwnEnds
    <2>4. InDoubt(m)'
        BY <2>2 DEF InDoubt
    <2> QED BY <1>5, <1>6, <1>7, <1>9, <2>3, <2>4, OwnFailKeeps
<1> QED BY <1>10, <1>11, <1>12, <1>13

\* The timer is set.
LEMMA TimerStep ==
    ASSUME MonInv, NEW h \in Workers, SetTimer(h)
    PROVE  MonInv'
<1>1. OfMonitor(h, "timer") /\ ReqsOK /\ MonTypes
    BY DEF SetTimer, MonInv
<1>2. PICK m \in Monitors : m = req[h].data.m
    BY <1>1, Asks
<1>3. AskOK(req[h]) /\ req[h].at = "timer" /\ On(h, m) /\ RowOK(req[h].data.new)
    BY <1>1, <1>2, Asks
<1>4. PICK row : row = req[h].data.new
    OBVIOUS
<1>5. Schedule(m, row) /\ Finish(h, {MonObject(m)}) /\ mons' = mons
    BY <1>2, <1>4 DEF SetTimer
<1>6. PICK new : new = (IF row.active THEN {Check(m, row.rev)} ELSE {})
    OBVIOUS
<1>7. /\ checks' = Before(m) \cup new /\ timers' = [timers EXCEPT ![m] = IF row.active THEN row ELSE NoMonitor]
      /\ halted' = halted \ {m}
    BY <1>5, <1>6 DEF Schedule
<1>8. new \subseteq [m : {m}, rev : Nat, old : {FALSE}]
    <2>1. row.rev \in Nat
        BY <1>3, <1>4 DEF RowOK, MonRow
    <2>2. Check(m, row.rev) \in [m : {m}, rev : Nat, old : {FALSE}]
        BY <2>1 DEF Check
    <2> QED BY <1>6, <2>2
<1>9. /\ checks' \subseteq [m : Monitors, rev : Nat, old : BOOLEAN]
      /\ Current(m)' = new /\ \A x \in Monitors \ {m} : Current(x)' = Current(x)
    BY <1>1, <1>7, <1>8, BeforeApart
<1>10. /\ timers'[m] = IF row.active THEN row ELSE NoMonitor
       /\ \A x \in Monitors \ {m} : timers'[x] = timers[x] /\ (x \in halted' <=> x \in halted)
       /\ MonTypes'
    BY <1>1, <1>3, <1>4, <1>5, <1>7, <1>9, RemovedIsGone DEF MonTypes, RowOK
<1>11. /\ doubt' = (doubt \cup {}) \ ({MonObject(m)} \cap req[h].sure) /\ req' = [req EXCEPT ![h] = NoReq]
       /\ {MonObject(m)} \cap req[h].sure \subseteq {MonObject(m)} /\ UNCHANGED <<calls, menu>>
    BY <1>5 DEF Finish
<1>12. OwnStep(h, m, NoReq)
    BY <1>1, <1>2, <1>5, <1>9, <1>10, <1>11, OwnEnds
<1>13. TrustKept(h, m, NoReq)
    BY <1>3, <1>11 DEF TrustKept, Sure, InDoubt
<1>14. mons[m] = row => Exact(m)'
    BY <1>5, <1>6, <1>9, <1>10 DEF Exact, OffElsewhere, Due, ChecksDue, Check
<1> QED BY <1>3, <1>4, <1>5, <1>10, <1>12, <1>13, <1>14, OwnSetKeeps

----------------------------------------------------------------------------
(***************************************************************************)
(* The start-up, which is about all monitors.                              *)
(***************************************************************************)
\* What the start-up is at one of its stages.
LEMMA Starts ==
    ASSUME ReqsOK, NEW h \in Workers, NEW at, At(h, "start monitors", at)
    PROVE  /\ req[h] # NoReq /\ Requested(req[h]) /\ StartOK(req[h]) /\ req[h].at = at /\ h = "monitors"
           /\ \A m \in Monitors : On(h, m)
<1>1. req[h] # NoReq /\ req[h].op = "start monitors" /\ req[h].at = at
    BY DEF At
<1>2. Requested(req[h]) /\ StartOK(req[h]) /\ h = "monitors"
    BY <1>1 DEF ReqsOK, ReqOK, AskOK, Elsewhere, Foreign, MonitorOps, MonOps
<1> QED BY <1>1, <1>2 DEF StartOK, On, MonObjects

\* It moves on or ends, with the tables as they are and nothing out of doubt.
StartStep(h, r) ==
    /\ At(h, "start monitors", req[h].at)
    /\ req' = [w \in Workers |-> IF w = h THEN r ELSE req[w]]
    /\ r = NoReq \/ (Requested(r) /\ StartOK(r) /\ r.sure = req[h].sure)
    /\ calls' = calls /\ menu' = menu /\ mons' = mons
    /\ \A m \in Monitors : InDoubt(m) => InDoubt(m)'

\* The requests are then as they should be.
LEMMA StartRequests ==
    ASSUME MonInv, NEW h \in Workers, NEW r, StartStep(h, r)
    PROVE  ReqsOK' /\ Restartable'
<1>1. ReqsOK /\ h = "monitors"
    BY Starts DEF StartStep, MonInv
<1>2. /\ req'[h] = r /\ (\A w \in Workers \ {h} : req'[w] = req[w])
      /\ req' = [w \in Workers |-> req'[w]] /\ calls' \in Nat
    BY <1>1 DEF StartStep, ReqsOK
<1>3. ASSUME NEW w \in Workers, req'[w] # NoReq PROVE ReqOK(w, req'[w])
    BY <1>1, <1>2, <1>3 DEF StartStep, ReqsOK, ReqOK, StartOK
<1>4. r # NoReq => r.op \notin MonOps
    BY DEF StartStep, StartOK, MonOps
<1>5. Restartable'
    BY <1>2, <1>4 DEF MonInv, Restartable, StartStep
<1> QED BY <1>2, <1>3, <1>5 DEF ReqsOK

\* What holds of a monitor then, but for its timer.
LEMMA StartOthers ==
    ASSUME MonInv, NEW h \in Workers, NEW r, StartStep(h, r), NEW m \in Monitors
    PROVE  /\ Apart(m)'
           /\ req'[h] = r /\ On(h, m) /\ (On(h, m)' => r # NoReq /\ r.op = "start monitors")
           /\ \A w \in Workers \ {h} :
                /\ req'[w] = req[w] /\ (On(w, m)' <=> On(w, m)) /\ (On(w, m) => req[w].op \in MonOps)
                /\ Trusted(w, m)' => Trusted(w, m)
<1>1. /\ req[h] # NoReq /\ StartOK(req[h]) /\ req[h].op = "start monitors" /\ h = "monitors" /\ On(h, m)
      /\ ReqsOK /\ Apart(m)
    BY Starts DEF StartStep, MonInv, MonitorOK, StartOK
<1>2. req'[h] = r /\ (On(h, m)' => r # NoReq /\ r.op = "start monitors")
    BY DEF StartStep, On, StartOK
<1>3. ASSUME NEW w \in Workers, w # h
      PROVE  /\ req'[w] = req[w] /\ (On(w, m)' <=> On(w, m)) /\ (On(w, m) => req[w].op \in MonOps)
             /\ Trusted(w, m)' => Trusted(w, m)
    <2>1. req'[w] = req[w]
        BY <1>3 DEF StartStep
    <2>2. On(w, m) => req[w].op \in MonOps
        BY <1>1, <1>3, OnMonitors DEF AskOK
    <2> QED BY <2>1, <2>2 DEF On, Trusted, Sure, StartStep
<1>4. Apart(m)'
    <2>1. Trusted(h, m)' => Trusted(h, m)
        BY <1>1, <1>2 DEF Trusted, Sure, StartStep
    <2>2. ASSUME NEW w \in Workers, On(w, m)'
          PROVE  On(w, m) /\ req'[w].op = req[w].op /\ (Trusted(w, m)' => Trusted(w, m))
        BY <1>1, <1>2, <1>3, <2>1, <2>2
    <2>3. ASSUME NEW w \in Workers, NEW x \in Workers, w # x, On(w, m)', On(x, m)'
          PROVE  /\ ~(req'[w].op = "add monitor" /\ req'[x].op = "add monitor")
                 /\ Trusted(w, m)' => Together(req'[w].op, req'[x].op)
        BY <1>1, <2>2, <2>3 DEF Apart
    <2> QED BY <2>3 DEF Apart
<1> QED BY <1>1, <1>2, <1>3, <1>4

\* It has read the rows, and is to set the timers of those that are active.
LEMMA ReadKeeps ==
    ASSUME MonInv, NEW h \in Workers, ReadMonitors(h)
    PROVE  MonInv'
<1>1. At(h, "start monitors", "list") /\ Go(h, "timers", [found |-> mons]) /\ UNCHANGED monVars
    BY DEF ReadMonitors
<1>2. ReqsOK /\ Requested(req[h]) /\ StartOK(req[h]) /\ h = "monitors" /\ req[h].at = "list"
    BY <1>1, Starts DEF MonInv
<1>3. PICK r : r = [op |-> req[h].op, on |-> req[h].on, at |-> "timers", data |-> [found |-> mons], sure |-> req[h].sure]
    OBVIOUS
<1>4. /\ r.op = "start monitors" /\ r.at = "timers" /\ r.data = [found |-> mons] /\ r.data.found = mons
      /\ r.sure = req[h].sure /\ Requested(r) /\ r.on = req[h].on
    BY <1>2, <1>3 DEF Requested, StartOK
<1>5. StartOK(r)
    BY <1>2, <1>4 DEF StartOK, MonInv, MonTypes
<1>6. [req[h] EXCEPT !.at = "timers", !.data = [found |-> mons]] = r
    BY <1>2, <1>3, RequestMoves
<1>7. req' = [w \in Workers |-> IF w = h THEN r ELSE req[w]] /\ UNCHANGED <<doubt, calls, menu>>
    <2>1. req' = [w \in Workers |-> IF w = h THEN [req[h] EXCEPT !.at = "timers", !.data = [found |-> mons]] ELSE req[w]]
        BY <1>1, <1>2 DEF ReqsOK, Go
    <2> QED BY <1>1, <1>6, <2>1 DEF Go
<1>8. StartStep(h, r)
    BY <1>1, <1>2, <1>4, <1>5, <1>7 DEF StartStep, monVars, InDoubt
<1>9. ASSUME NEW m \in Monitors PROVE MonitorOK(m)'
    <2>1. MonitorOK(m) /\ mons' = mons /\ timers' = timers /\ checks' = checks /\ halted' = halted /\ (InDoubt(m)' <=> InDoubt(m))
        BY <1>1, <1>7 DEF MonInv, monVars, InDoubt
    <2>2. (Halted(m)' <=> Halted(m)) /\ (Exact(m)' <=> Exact(m)) /\ (Tame(m)' <=> Tame(m))
        BY <2>1 DEF Halted, Exact, OffElsewhere, Tame, Due, ChecksDue, Current
    <2>3. /\ Apart(m)' /\ req'[h] = r /\ On(h, m)
          /\ \A w \in Workers \ {h} :
                /\ req'[w] = req[w] /\ (On(w, m)' <=> On(w, m)) /\ (On(w, m) => req[w].op \in MonOps)
                /\ Trusted(w, m)' => Trusted(w, m)
        BY <1>8, StartOthers
    <2>4. Never(m)'
        BY <1>4, <2>1, <2>2, <2>3 DEF MonitorOK, Never
    <2>5. FoundOK(h, m)' /\ r.data.found[m] = mons'[m]
        BY <1>4, <2>1, <2>3 DEF FoundOK
    <2>6. ASSUME NEW w \in Workers, On(w, m)', req'[w].op = "start monitors" PROVE w = h
        BY <2>3, <2>6 DEF MonOps
    <2>7. Doing(m)'
        <3>1. ASSUME NEW w \in Workers, Trusted(w, m)', w # h
              PROVE  /\ req'[w] = req[w]
                     /\ (req[w].op = "add monitor" /\ req[w].at # "timer") => mons[m] = NoMonitor
                     /\ req[w].at = "timer" => mons[m] = req[w].data.new
                     /\ (req[w].op = "remove monitor" /\ req[w].at = "row") => Halted(m)
            <4>1. req'[w] = req[w] /\ Trusted(w, m)
                BY <2>3, <3>1
            <4> QED BY <2>1, <4>1 DEF MonitorOK, Doing
        <3>2. ASSUME NEW x \in Workers, AskedAt(x, m, "start monitors", "timers")' PROVE FoundOK(x, m)'
            <4>1. x = h
                BY <2>6, <3>2 DEF AskedAt
            <4> QED BY <2>5, <4>1
        <3> QED BY <1>4, <2>1, <2>2, <2>3, <3>1, <3>2 DEF Doing
    <2>8. Settled(m)'
        <3>1. ~InDoubt(m)' => Starting(h, m)'
            <4>1. ~InDoubt(m) => Tame(m)
                BY <1>2, <2>1, <2>3 DEF MonitorOK, Settled, Starting, StartOK
            <4> QED BY <2>1, <2>2, <2>3, <2>5, <4>1 DEF Starting
        <3>2. Unsettled(m)'
            <4>1. On(h, m)'
                BY <1>4, <1>5, <2>3, MonitorRequest DEF On, StartOK, MonObjects
            <4> QED BY <1>4, <2>3, <4>1 DEF Unsettled
        <3> QED BY <2>6, <3>1, <3>2 DEF Settled
    <2> QED BY <2>3, <2>4, <2>7, <2>8 DEF MonitorOK
<1>10. MonTypes'
    BY <1>1 DEF MonInv, MonTypes, monVars
<1>11. ReqsOK' /\ Restartable'
    BY <1>8, StartRequests
<1> QED BY <1>9, <1>10, <1>11 DEF MonInv

\* It ends.  Nothing has been trusted with a removal beside it; who is about to set a timer
\* still is.
LEMMA StartEnds ==
    ASSUME MonInv, NEW h \in Workers, StartStep(h, NoReq), NEW m \in Monitors,
           Halted(m) => (Halted(m)' \/ mons[m] # NoMonitor),
           ~InDoubt(m)' => ~InDoubt(m) /\ (SetsTimer(m) \/ Exact(m)')
    PROVE  MonitorOK(m)'
<1>1. MonitorOK(m) /\ mons' = mons /\ At(h, "start monitors", req[h].at) /\ ReqsOK
    BY DEF MonInv, StartStep
<1>2. /\ Apart(m)' /\ On(h, m) /\ ~On(h, m)' /\ req[h].op = "start monitors" /\ req[h].at # "timer"
      /\ \A w \in Workers \ {h} :
            /\ req'[w] = req[w] /\ (On(w, m)' <=> On(w, m)) /\ (On(w, m) => req[w].op \in MonOps)
            /\ Trusted(w, m)' => Trusted(w, m)
    BY <1>1, Starts, StartOthers DEF StartOK
<1>3. ASSUME NEW w \in Workers, On(w, m)' PROVE w # h /\ On(w, m) /\ req'[w] = req[w] /\ req[w].op # "start monitors"
    BY <1>2, <1>3 DEF MonOps
<1>4. Never(m)'
    BY <1>1, <1>3 DEF MonitorOK, Never
<1>5. Doing(m)'
    <2>1. ASSUME NEW w \in Workers, Trusted(w, m)'
          PROVE  /\ req'[w] = req[w] /\ req[w].op # "remove monitor"
                 /\ (req[w].op = "add monitor" /\ req[w].at # "timer") => mons[m] = NoMonitor
                 /\ req[w].at = "timer" => mons[m] = req[w].data.new
        <3>1. On(w, m)'
            BY <2>1 DEF Trusted, Sure
        <3>2. w # h /\ On(w, m) /\ req'[w] = req[w] /\ Trusted(w, m)
            BY <1>2, <1>3, <2>1, <3>1
        <3>3. Together(req[w].op, "start monitors")
            BY <1>1, <1>2, <3>2 DEF MonitorOK, Apart
        <3>4. req[w].op # "remove monitor"
            BY <3>3 DEF Together
        <3> QED BY <1>1, <3>2, <3>4 DEF MonitorOK, Doing
    <2>2. \A x \in Workers : ~AskedAt(x, m, "start monitors", "timers")'
        BY <1>3 DEF AskedAt
    <2> QED BY <1>1, <2>1, <2>2 DEF Doing
<1>6. Settled(m)'
    <2>1. SetsTimer(m) => SetsTimer(m)'
        BY <1>2 DEF SetsTimer
    <2>2. ~InDoubt(m)' => (Unsettled(m)' \/ Exact(m)')
        BY <2>1 DEF Unsettled
    <2> QED BY <1>3, <2>2 DEF Settled
<1> QED BY <1>2, <1>4, <1>5, <1>6 DEF MonitorOK

\* The rows cannot be read: the monitors that have one are in doubt.
LEMMA StartFailKeeps ==
    ASSUME MonInv, NEW h \in Workers, ReadMonitorsFails(h)
    PROVE  MonInv'
<1>1. /\ At(h, "start monitors", "list") /\ UNCHANGED monVars
      /\ Fail(h, {MonObject(m) : m \in {m \in Monitors : There(m)}})
    BY DEF ReadMonitorsFails
<1>2. ReqsOK /\ MonTypes /\ req[h].at = "list"
    BY <1>1 DEF MonInv, At
<1>3. /\ doubt' = doubt \cup {MonObject(m) : m \in {m \in Monitors : There(m)}}
      /\ req' = [w \in Workers |-> IF w = h THEN NoReq ELSE req[w]] /\ UNCHANGED <<calls, menu>>
    BY <1>1, <1>2 DEF Fail, ReqsOK
<1>4. StartStep(h, NoReq)
    BY <1>1, <1>2, <1>3 DEF StartStep, InDoubt, monVars
<1>5. ASSUME NEW m \in Monitors PROVE MonitorOK(m)'
    <2>1. mons' = mons /\ (Halted(m)' <=> Halted(m)) /\ (Exact(m)' <=> Exact(m))
        BY <1>1 DEF Halted, Exact, OffElsewhere, Due, ChecksDue, Current, monVars
    <2>2. ASSUME ~InDoubt(m)' PROVE ~InDoubt(m) /\ Exact(m)'
        <3>1. ~InDoubt(m) /\ ~There(m)
            BY <1>3, <2>2 DEF InDoubt
        <3>2. ~mons[m].active
            <4>1. mons[m].rev \in Nat /\ (mons[m].active => mons[m].rev > 0)
                BY <1>2 DEF MonTypes, RowOK, MonRow
            <4> QED BY <3>1, <4>1 DEF There
        <3>3. Tame(m)
            <4>1. On(h, m) /\ req[h].op = "start monitors"
                BY <1>1, <1>2, Starts DEF StartOK
            <4> QED BY <3>1, <4>1 DEF MonInv, MonitorOK, Settled, Starting
        <3>4. Exact(m)
            BY <3>2, <3>3 DEF Tame, Exact, OffElsewhere, Due
        <3> QED BY <2>1, <3>1, <3>4
    <2> QED BY <1>4, <2>1, <2>2, StartEnds
<1>6. ReqsOK' /\ Restartable' /\ MonTypes'
    BY <1>1, <1>2, <1>4, StartRequests DEF MonTypes, monVars
<1> QED BY <1>5, <1>6 DEF MonInv

\* The timers are set of the rows that were active when they were read.
LEMMA SetTimersKeeps ==
    ASSUME MonInv, NEW h \in Workers, SetTimers(h)
    PROVE  MonInv'
<1>1. At(h, "start monitors", "timers") /\ Finish(h, {}) /\ mons' = mons
    BY DEF SetTimers
<1>2. PICK found : found = req[h].data.found
    OBVIOUS
<1>3. /\ timers' = [m \in Monitors |-> IF found[m].active THEN found[m] ELSE timers[m]]
      /\ checks' = checks \cup {Check(m, found[m].rev) : m \in {m \in Monitors : found[m].active}}
      /\ halted' = halted \ {m \in Monitors : found[m].active}
    BY <1>2 DEF SetTimers
<1>4. /\ ReqsOK /\ MonTypes /\ req[h].at = "timers" /\ StartOK(req[h])
      /\ \A m \in Monitors : On(h, m) /\ RowOK(found[m])
    <2>1. /\ ReqsOK /\ MonTypes /\ req[h].at = "timers" /\ StartOK(req[h])
          /\ \A m \in Monitors : On(h, m)
        BY <1>1, Starts DEF MonInv
    <2>2. \A m \in Monitors : RowOK(found[m])
        BY <1>2, <2>1 DEF StartOK
    <2> QED BY <2>1, <2>2
<1>5. /\ doubt' = doubt
      /\ req' = [w \in Workers |-> IF w = h THEN NoReq ELSE req[w]] /\ UNCHANGED <<calls, menu>>
    BY <1>1, <1>4 DEF Finish, ReqsOK
<1>6. StartStep(h, NoReq)
    BY <1>1, <1>4, <1>5 DEF StartStep, InDoubt
<1>7. MonTypes'
    <2>1. ASSUME NEW m \in Monitors PROVE Check(m, found[m].rev) \in [m : Monitors, rev : Nat, old : BOOLEAN]
        BY <1>4 DEF Check, RowOK, MonRow
    <2>2. checks' \subseteq [m : Monitors, rev : Nat, old : BOOLEAN]
        BY <1>3, <1>4, <2>1 DEF MonTypes
    <2> QED BY <1>1, <1>3, <1>4, <2>2 DEF MonTypes, RowOK
<1>8. ASSUME NEW m \in Monitors
      PROVE  Current(m)' = Current(m) \cup (IF found[m].active THEN {Check(m, found[m].rev)} ELSE {})
    BY <1>3, <1>8 DEF Current, Check
<1>9. ASSUME NEW m \in Monitors PROVE MonitorOK(m)'
    <2>1. MonitorOK(m) /\ timers'[m] = (IF found[m].active THEN found[m] ELSE timers[m])
        BY <1>3 DEF MonInv
    <2>2. ASSUME ~found[m].active PROVE (Halted(m)' <=> Halted(m)) /\ (Exact(m)' <=> Exact(m))
        BY <1>1, <1>3, <1>8, <2>1, <2>2 DEF Halted, Exact, OffElsewhere, Due, ChecksDue
    <2>3. mons[m] = NoMonitor => found[m] = NoMonitor
        BY <1>2, <1>4, <2>1 DEF MonitorOK, Never
    <2>4. Halted(m) => (Halted(m)' \/ mons[m] # NoMonitor)
        BY <2>2, <2>3, RemovedIsGone DEF NoMonitor
    <2>5. ASSUME ~InDoubt(m)' PROVE ~InDoubt(m) /\ (SetsTimer(m) \/ Exact(m)')
        <3>1. ~InDoubt(m)
            BY <1>5, <2>5 DEF InDoubt
        <3>2. /\ Tame(m) /\ found[m] \in {NoMonitor, mons[m]}
              /\ found[m] = mons[m] \/ Exact(m) \/ SetsTimer(m)
            <4>1. Starting(h, m)
                BY <1>4, <2>1, <3>1 DEF MonitorOK, Settled, StartOK
            <4> QED BY <1>2, <1>4, <4>1 DEF Starting, FoundOK
        <3>3. CASE found[m].active
            <4>1. found[m] = mons[m] /\ mons[m].active
                BY <3>2, <3>3 DEF NoMonitor
            <4>2. timers'[m] = mons[m]
                BY <2>1, <3>3, <4>1
            <4>3. ChecksDue(m)'
                <5>1. ASSUME NEW c \in Current(m)' PROVE c.rev = mons[m].rev
                    <6>1. c \in Current(m) \/ c = Check(m, mons[m].rev)
                        BY <1>8, <3>3, <4>1, <5>1
                    <6> QED BY <3>2, <6>1 DEF ChecksDue, Tame, Check
                <5> QED BY <1>1, <4>1, <5>1 DEF ChecksDue
            <4> QED BY <1>1, <3>1, <4>1, <4>2, <4>3 DEF Exact, OffElsewhere, Due
        <3>4. CASE ~found[m].active
            <4>1. found[m] = mons[m] => Exact(m)
                BY <3>2, <3>4 DEF Tame, Exact, OffElsewhere, Due
            <4> QED BY <2>2, <3>1, <3>2, <3>4, <4>1
        <3> QED BY <3>3, <3>4
    <2> QED BY <1>6, <2>4, <2>5, StartEnds
<1>10. ReqsOK' /\ Restartable'
    BY <1>6, StartRequests
<1> QED BY <1>7, <1>9, <1>10 DEF MonInv

\* Every step of a request about monitors keeps the invariant.
LEMMA MonitorStepKeeps ==
    ASSUME MonInv, NEW h \in Workers, MonitorStep(h)
    PROVE  MonInv'
BY RequestStep, TablesStep, RowStep, TimerStep, ReadKeeps, SetTimersKeeps, StartFailKeeps DEF MonitorStep

----------------------------------------------------------------------------
(***************************************************************************)
(* The timers, the worker's restart, and the theorem.                      *)
(***************************************************************************)

\* Checks that begin or end, and timers that are stopped, while the tables stay as they are.
LEMMA ChecksKeep ==
    ASSUME MonInv, UNCHANGED <<req, menu, calls, doubt, mons>>, MonTypes',
           \A m \in Monitors : (Halted(m) => Halted(m)') /\ (Exact(m) => Exact(m)') /\ (Tame(m) => Tame(m)')
    PROVE  MonInv'
<1>1. ReqsOK' /\ Restartable' /\ MonTypes'
    BY DEF MonInv, ReqsOK, Restartable
<1>2. ASSUME NEW m \in Monitors PROVE MonitorOK(m)'
    <2>1. MonitorOK(m)
        BY DEF MonInv
    <2>2. \A w \in Workers : /\ (On(w, m)' <=> On(w, m)) /\ (Sure(w, m)' <=> Sure(w, m))
                             /\ (Trusted(w, m)' <=> Trusted(w, m)) /\ (FoundOK(w, m)' <=> FoundOK(w, m))
                             /\ \A op, at : AskedAt(w, m, op, at)' <=> AskedAt(w, m, op, at)
        BY DEF On, Sure, Trusted, InDoubt, FoundOK, AskedAt
    <2>3. (InDoubt(m)' <=> InDoubt(m)) /\ (SetsTimer(m)' <=> SetsTimer(m)) /\ (Unsettled(m)' <=> Unsettled(m))
        BY <2>2 DEF InDoubt, SetsTimer, Unsettled
    <2>4. Never(m)'
        BY <2>1, <2>2 DEF MonitorOK, Never
    <2>5. Apart(m)'
        BY <2>1, <2>2 DEF MonitorOK, Apart
    <2>6. Doing(m)'
        BY <2>1, <2>2 DEF MonitorOK, Doing
    <2>7. Settled(m)'
        <3>1. ASSUME NEW w \in Workers, Starting(w, m) PROVE Starting(w, m)'
            BY <2>2, <2>3, <3>1 DEF Starting
        <3> QED BY <2>1, <2>2, <2>3, <3>1 DEF MonitorOK, Settled
    <2> QED BY <2>4, <2>5, <2>6, <2>7 DEF MonitorOK
<1> QED BY <1>1, <1>2 DEF MonInv

\* So do the timers and the checks.
LEMMA TimersKeep ==
    ASSUME MonInv, MonitorTimers
    PROVE  MonInv'
<1>1. MonTypes
    BY DEF MonInv
<1>2. UNCHANGED <<req, menu, calls, doubt, mons>>
    BY DEF MonitorTimers, Tick, CheckEnds, StopElsewhere, baseVars
<1>3. ASSUME NEW m \in Monitors, Tick(m) PROVE MonInv'
    <2>1. PICK new : new = Check(m, timers[m].rev)
        OBVIOUS
    <2>2. /\ timers[m] # NoMonitor /\ checks' = checks \cup {new} /\ new.m = m /\ new.rev = timers[m].rev /\ ~new.old
          /\ UNCHANGED <<timers, halted>>
        BY <1>3, <2>1 DEF Tick, Check
    <2>3. new \in [m : Monitors, rev : Nat, old : BOOLEAN]
        BY <1>1, <2>1 DEF Check, MonTypes, MonRow
    <2>4. \A x \in Monitors : Current(x)' = Current(x) \cup (IF x = m THEN {new} ELSE {})
        BY <2>2 DEF Current
    <2>5. ASSUME NEW x \in Monitors
          PROVE  (Halted(x) => Halted(x)') /\ (Exact(x) => Exact(x)') /\ (Tame(x) => Tame(x)')
        <3>1. CASE x # m
            <4>1. Current(x)' = Current(x)
                BY <2>4, <3>1
            <4> QED BY <1>2, <2>2, <4>1 DEF Halted, Exact, OffElsewhere, Tame, Due, ChecksDue
        <3>2. CASE x = m
            <4>1. ASSUME Exact(m) \/ Tame(m) PROVE Exact(m)' /\ Tame(m)'
                <5>1. timers[m] = mons[m] /\ mons[m].active /\ ChecksDue(m)
                    BY <2>2, <4>1 DEF Exact, OffElsewhere, Tame, Due
                <5>2. ASSUME NEW c \in Current(m)' PROVE c.rev = mons[m].rev
                    BY <2>2, <2>4, <5>1, <5>2 DEF ChecksDue
                <5>3. ChecksDue(m)'
                    BY <1>2, <5>1, <5>2 DEF ChecksDue
                <5> QED BY <1>2, <2>2, <5>1, <5>3 DEF Exact, OffElsewhere, Tame, Due
            <4> QED BY <2>2, <3>2, <4>1 DEF Halted
        <3> QED BY <3>1, <3>2
    <2>6. MonTypes'
        BY <1>1, <1>2, <2>2, <2>3 DEF MonTypes, RowOK
    <2> QED BY <1>2, <2>5, <2>6, ChecksKeep
<1>4. ASSUME NEW c \in checks, CheckEnds(c) PROVE MonInv'
    <2>1. checks' \subseteq checks /\ UNCHANGED <<timers, halted>>
        BY <1>4 DEF CheckEnds
    <2>2. ASSUME NEW x \in Monitors
          PROVE  (Halted(x) => Halted(x)') /\ (Exact(x) => Exact(x)') /\ (Tame(x) => Tame(x)')
        <3>1. Current(x)' \subseteq Current(x)
            BY <2>1 DEF Current
        <3> QED BY <1>2, <2>1, <3>1 DEF Halted, Exact, OffElsewhere, Tame, Due, ChecksDue
    <2>3. MonTypes'
        BY <1>1, <1>2, <2>1 DEF MonTypes, RowOK
    <2> QED BY <1>2, <2>2, <2>3, ChecksKeep
<1>5. ASSUME NEW m \in Monitors, StopElsewhere(m) PROVE MonInv'
    <2>1. /\ timers' = [timers EXCEPT ![m] = NoMonitor] /\ checks' = Before(m) /\ halted' = halted \cup {m}
        BY <1>5 DEF StopElsewhere, Stop
    <2>2. MonTypes'
        <3>1. checks' \subseteq [m : Monitors, rev : Nat, old : BOOLEAN]
            <4>1. checks' = Before(m) \cup {}
                BY <2>1
            <4> QED BY <1>1, <4>1, BeforeApart
        <3> QED BY <1>1, <1>2, <2>1, <3>1, RemovedIsGone DEF MonTypes, RowOK
    <2>3. ASSUME NEW x \in Monitors
          PROVE  (Halted(x) => Halted(x)') /\ (Exact(x) => Exact(x)') /\ (Tame(x) => Tame(x)')
        <3>1. CASE x = m
            <4>1. Current(m)' = {}
                <5>1. checks' = Before(m) \cup {}
                    BY <2>1
                <5> QED BY <1>1, <5>1, BeforeApart
            <4>2. timers'[m] = NoMonitor /\ m \in halted'
                BY <1>1, <2>1 DEF MonTypes
            <4> QED BY <3>1, <4>1, <4>2 DEF Halted, Exact, OffElsewhere, Tame, ChecksDue
        <3>2. CASE x # m
            <4>1. Current(x)' = Current(x)
                <5>1. checks' = Before(m) \cup {}
                    BY <2>1
                <5> QED BY <1>1, <3>2, <5>1, BeforeApart
            <4>2. timers'[x] = timers[x] /\ (x \in halted' <=> x \in halted) /\ mons' = mons
                BY <1>2, <2>1, <3>2
            <4> QED BY <4>1, <4>2 DEF Halted, Exact, OffElsewhere, Tame, Due, ChecksDue
        <3> QED BY <3>1, <3>2
    <2> QED BY <1>2, <2>2, <2>3, ChecksKeep
<1> QED BY <1>3, <1>4, <1>5 DEF MonitorTimers

\* The worker has just started: nobody is at work but the start-up, no timer is set and
\* nothing is in doubt.
JustStarted(m) ==
    /\ ~InDoubt(m) /\ Halted(m)
    /\ \/ mons[m] = NoMonitor /\ \A w \in Workers : ~On(w, m)
       \/ /\ On("monitors", m) /\ req["monitors"].op = "start monitors" /\ req["monitors"].at = "list"
          /\ \A w \in Workers : On(w, m) => w = "monitors"
JustBegun == ReqsOK /\ MonTypes /\ Restartable /\ \A m \in Monitors : JustStarted(m)

\* Then the invariant holds.
LEMMA BegunIsFine ==
    ASSUME JustBegun
    PROVE  MonInv
<1>1. ASSUME NEW m \in Monitors PROVE MonitorOK(m)
    <2>1. JustStarted(m)
        BY DEF JustBegun
    <2>2. \A w \in Workers : On(w, m) => w = "monitors" /\ req[w].op = "start monitors" /\ req[w].at = "list"
        BY <2>1 DEF JustStarted
    <2>3. Tame(m) /\ ~InDoubt(m)
        BY <2>1 DEF JustStarted, Tame, Halted, ChecksDue
    <2>4. Never(m)
        BY <2>1, <2>2 DEF JustStarted, Never
    <2>5. Apart(m)
        BY <2>2 DEF Apart
    <2>6. Doing(m)
        BY <2>2 DEF Doing, Trusted, Sure
    <2>7. Settled(m)
        <3>1. ASSUME ~Unsettled(m) PROVE Exact(m)
            <4>1. mons[m] = NoMonitor
                BY <2>1, <3>1 DEF JustStarted, Unsettled, Workers, Boots
            <4> QED BY <2>1, <4>1 DEF JustStarted, Exact, OffElsewhere, Due, Halted, ChecksDue, NoMonitor
        <3> QED BY <2>2, <2>3, <3>1 DEF Settled, Starting
    <2> QED BY <2>4, <2>5, <2>6, <2>7 DEF MonitorOK
<1> QED BY <1>1 DEF JustBegun, MonInv

\* The worker has just started at first,
LEMMA InitBegins ==
    ASSUME Init
    PROVE  JustBegun
<1>1. PICK s \in Scenarios : BaseInit(s) /\ MonitorsInit
    BY DEF Init
<1>2. /\ req = [w \in Workers |-> NoReq] /\ doubt = {} /\ menu = s.menu /\ calls = s.calls
      /\ mons = [m \in Monitors |-> NoMonitor] /\ timers = mons /\ checks = {}
    BY <1>1 DEF BaseInit, MonitorsInit
<1>3. ReqsOK
    <2>1. calls \in Nat
        BY <1>2, MonitorsAssumption
    <2> QED BY <1>2, <2>1 DEF ReqsOK
<1>4. MonTypes
    BY <1>2, RemovedIsGone DEF MonTypes, RowOK
<1>5. Restartable
    <2>1. menu \cap MonOps # {} => "start monitors" \in menu
        BY <1>2, MonitorsAssumption
    <2> QED BY <1>2, <2>1 DEF Restartable
<1>6. \A m \in Monitors : JustStarted(m)
    BY <1>2 DEF JustStarted, InDoubt, Halted, Current, On
<1> QED BY <1>3, <1>4, <1>5, <1>6 DEF JustBegun

\* and whenever it starts again.
LEMMA RestartBegins ==
    ASSUME MonInv, Restart
    PROVE  JustBegun'
<1> DEFINE other == Boot("restore tokens", TokenObjects, "list")
           start == Boot("start monitors", MonObjects, "list")
<1>1. /\ req' = [w \in Workers |->
            CASE w = "tokens" /\ "restore tokens" \in menu -> other
              [] w = "monitors" /\ "start monitors" \in menu -> start
              [] OTHER -> NoReq]
      /\ timers' = [m \in Monitors |-> NoMonitor] /\ checks' = {} /\ mons' = mons
      /\ calls' = calls /\ menu' = menu
    BY DEF Restart
<1>2. \A m \in Monitors : ~InDoubt(m)'
    BY DEF Restart, InDoubt, MonObjects
<1>3. /\ other.op = "restore tokens" /\ other.on = TokenObjects /\ Requested(other) /\ Elsewhere(other)
      /\ start.op = "start monitors" /\ start.on = MonObjects /\ start.at = "list" /\ Requested(start)
      /\ other.sure \subseteq other.on /\ start.sure \subseteq start.on
    BY OthersApart DEF Boot, Requested, Elsewhere, Foreign, MonitorOps, MonOps
<1>4. StartOK(start)
    BY DEF Boot, StartOK
<1> HIDE DEF other, start
<1>5. start # NoReq
    BY <1>3, <1>4, MonitorRequest
<1>6. ASSUME NEW w \in Workers
      PROVE  \/ req'[w] = NoReq
             \/ req'[w] = other
             \/ req'[w] = start /\ w = "monitors" /\ "start monitors" \in menu
    BY <1>1
<1>7. "monitors" \in Workers /\ ("start monitors" \in menu => req'["monitors"] = start)
    BY <1>1 DEF Workers, Boots
<1>8. ReqsOK'
    <2>1. ASSUME NEW w \in Workers, req'[w] # NoReq PROVE ReqOK(w, req'[w])
        BY <1>3, <1>4, <1>6, <2>1 DEF ReqOK
    <2>2. req' = [w \in Workers |-> req'[w]] /\ calls' \in Nat
        BY <1>1 DEF MonInv, ReqsOK
    <2> QED BY <2>1, <2>2 DEF ReqsOK
<1>9. MonTypes'
    BY <1>1, RemovedIsGone DEF MonInv, MonTypes, RowOK
<1>10. Restartable'
    <2>1. \A w \in Workers : req'[w] # NoReq => req'[w].op \notin MonOps
        BY <1>3, <1>6 DEF MonOps
    <2> QED BY <1>1, <2>1 DEF MonInv, Restartable
<1>11. ASSUME NEW m \in Monitors PROVE JustStarted(m)'
    <2>1. ASSUME NEW w \in Workers, On(w, m)'
          PROVE  w = "monitors" /\ req'[w] = start /\ "start monitors" \in menu
        BY <1>3, <1>6, <2>1 DEF On, Elsewhere, Foreign, MonObjects
    <2>2. Halted(m)'
        BY <1>1 DEF Halted, Current
    <2>3. CASE "start monitors" \in menu
        <3>1. On("monitors", m)'
            BY <1>3, <1>5, <1>7, <2>3 DEF On, MonObjects
        <3> QED BY <1>2, <1>3, <1>7, <2>1, <2>2, <2>3, <3>1 DEF JustStarted
    <2>4. CASE "start monitors" \notin menu
        <3>1. mons'[m] = NoMonitor
            BY <1>1, <2>4 DEF MonInv, Restartable
        <3> QED BY <1>2, <2>1, <2>2, <2>4, <3>1 DEF JustStarted
    <2> QED BY <2>3, <2>4
<1> QED BY <1>8, <1>9, <1>10, <1>11 DEF JustBegun

\* Each step keeps what has been said, or starts afresh.
LEMMA NextKeeps ==
    ASSUME MonInv, [Next]_vars
    PROVE  MonInv' \/ JustBegun'
<1>1. RequestsOf(MonitorOps, MonObjects)
    BY MonitorsAlone DEF MonInv
<1>2. /\ "delete project" \notin MonitorOps
      /\ (TokenOps \cup HookRequests \cup StudioOps \cup FileOps \cup QuotaOps \cup PlayerOps \cup ProjectOps)
            \cap MonitorOps = {}
    BY DEF MonitorOps, MonOps, TokenOps, HookRequests, HookOps, StudioOps, PluginOps, FileOps, QuotaOps, PlayerOps,
       UseOps, ProjectOps
<1>3. CASE UNCHANGED vars
    <2>1. Aside(MonitorOps, MonObjects) /\ UNCHANGED monVars
        BY <1>1, <1>3, IdleAside DEF vars, baseVars, RequestsOf
    <2> QED BY <2>1, AsideKeeps
<1>4. ASSUME NEW w \in Workers,
             (TokenStep(w) \/ HookStep(w) \/ StudioStep(w) \/ FileStep(w) \/ QuotaStep(w) \/ PlayerStep(w) \/ ProjectStep(w))
                /\ UNCHANGED monVars
      PROVE  MonInv'
    <2>1. Aside(MonitorOps, MonObjects)
        BY <1>1, <1>2, <1>4, OthersApart, TokenStepAside, HookStepAside, StudioStepAside, FileStepAside, QuotaStepAside,
           PlayerStepAside, ProjectStepAside
    <2> QED BY <1>4, <2>1, AsideKeeps
<1>5. ASSUME NEW w \in Workers, Deletion(w) PROVE MonInv'
    <2>1. Aside(MonitorOps, MonObjects)
        BY <1>1, <1>2, <1>5, OthersApart, DeletionAside
    <2>2. UNCHANGED monVars
        BY <1>5 DEF Deletion, DropSchema, RowDeletion, DeleteProject, FindProject, DeletePlugins, DeleteRawLogs,
           DeleteHooks, DeleteTokenRows, PluckHashes, DeleteKey, DeleteStepFails, DeleteKeysFail, DeleteRow, DeleteFails
    <2> QED BY <2>1, <2>2, AsideKeeps
<1>6. ASSUME NEW w \in Workers, MonitorStep(w) PROVE MonInv'
    BY <1>6, MonitorStepKeeps
<1>7. CASE (StudioStatement \/ TokenTime \/ Delivery \/ Counting \/ QuotaTime \/ PlayerTime \/ ForgetProject)
              /\ UNCHANGED monVars
    <2>1. Aside(MonitorOps, MonObjects)
        BY <1>1, <1>7, OthersApart, OthersAside, StatementAside
    <2> QED BY <1>7, <2>1, AsideKeeps
<1>8. CASE MonitorTimers
    BY <1>8, TimersKeep
<1>9. CASE Restart
    BY <1>9, RestartBegins
<1>10. CASE RedisLost
    <2>1. UNCHANGED monVars
        BY <1>10 DEF RedisLost
    <2> QED BY <1>1, <1>10, <2>1, OthersApart, RedisLostAside, AsideKeeps
<1> QED BY <1>3, <1>4, <1>5, <1>6, <1>7, <1>8, <1>9, <1>10 DEF Next

\* An idle monitor without doubt has the timer it should.
LEMMA MonitorsFollow ==
    ASSUME MonInv
    PROVE  MonitorExplained
<1>1. ASSUME NEW m \in Monitors, Idle(MonObject(m)), MonObject(m) \notin doubt PROVE Exact(m)
    <2>1. \A w \in Workers : ~On(w, m)
        BY <1>1 DEF Idle, Busy, On
    <2>2. ~Unsettled(m) /\ ~InDoubt(m)
        BY <1>1, <2>1 DEF Unsettled, SetsTimer, AskedAt, InDoubt
    <2> QED BY <2>2 DEF MonInv, MonitorOK, Settled
<1>2. ASSUME NEW m \in Monitors, Exact(m)
      PROVE  /\ \/ timers[m] = IF mons[m].active THEN mons[m] ELSE NoMonitor
                \/ timers[m] = NoMonitor /\ m \in halted
             /\ \A c \in checks : (c.m = m /\ ~c.old) => (mons[m].active /\ c.rev = mons[m].rev)
    BY <1>2 DEF Exact, OffElsewhere, Due, ChecksDue, Current
<1> QED BY <1>1, <1>2 DEF MonitorExplained

\* In every state, whatever else the control plane does: a monitor on which nobody works, and
\* that no failure and no conflict has left in doubt, has a timer exactly when it is active,
\* or none because a delete sent through another project stopped it and nothing has set it
\* since; the timer checks what the row says, and so do the checks begun since the last change
\* (UptimeScheduler.scheduleMonitor, stopMonitor and startAll, and the routes that call them).
THEOREM MonitorsAreExplained == Spec => []MonitorExplained
<1>1. Init => JustBegun
    BY InitBegins
<1>2. JustBegun => MonInv
    BY BegunIsFine
<1>3. MonInv /\ [Next]_vars => MonInv' \/ JustBegun'
    BY NextKeeps
<1>4. MonInv => MonitorExplained
    BY MonitorsFollow
<1> QED BY <1>1, <1>2, <1>3, <1>4, PTL DEF Spec

----------------------------------------------------------------------------
(***************************************************************************)
(* Sums.  A fold takes the elements of a set one by one, chosen anyhow.    *)
(* That it is a sum, whatever is chosen first, follows by taking a set of  *)
(* least size for which it is not.                                         *)
(***************************************************************************)
Chosen(s) == CHOOSE x \in s : TRUE
SumsOver(g, S, it) ==
    it = [s \in SUBSET S |-> IF s = {} THEN 0 ELSE g[Chosen(s)] + it[s \ {Chosen(s)}]]

\* Of numbers there is a least one,
LEMMA NatLeast ==
    ASSUME NEW T, T \subseteq Nat, T # {}
    PROVE  \E x \in T : \A y \in T : x <= y
<1>1. PICK R : R = OpToRel(<, Nat) /\ IsWellFoundedOn(R, Nat)
    BY NatLessThanWellFounded
<1>2. \A x, y \in Nat : y < x => <<y, x>> \in R
    BY <1>1 DEF OpToRel
<1>3. PICK x \in T : \A y \in T : <<y, x>> \notin R
    BY <1>1, WFMin
<1>4. \A y \in T : ~(y < x)
    BY <1>2, <1>3
<1> QED BY <1>4

\* and of finite sets one from which nothing can be taken.
LEMMA FiniteLeast ==
    ASSUME NEW S, IsFiniteSet(S), NEW F, F \subseteq SUBSET S, F # {}
    PROVE  \E s \in F : \A x \in s : s \ {x} \notin F
<1>1. PICK T : T = {Cardinality(s) : s \in F}
    OBVIOUS
<1>2. \A s \in F : IsFiniteSet(s) /\ Cardinality(s) \in Nat
    BY FS_Subset, FS_CardinalityType
<1>3. PICK n \in T : \A m \in T : n <= m
    <2>1. T \subseteq Nat /\ T # {}
        BY <1>1, <1>2
    <2> QED BY <2>1, NatLeast
<1>4. PICK s \in F : Cardinality(s) = n
    BY <1>1, <1>3
<1>5. ASSUME NEW x \in s PROVE s \ {x} \notin F
    <2>1. Cardinality(s \ {x}) = Cardinality(s) - 1
        BY <1>2, FS_RemoveElement
    <2>2. ~(Cardinality(s) <= Cardinality(s \ {x}))
        BY <1>2, <2>1
    <2> QED BY <1>1, <1>3, <1>4, <2>2
<1> QED BY <1>5

\* What is chosen is there.
LEMMA ChosenIn ==
    ASSUME NEW s, s # {}
    PROVE  Chosen(s) \in s
BY DEF Chosen

\* Sums over a set and over a part of it agree on what both have.
LEMMA SumsAgree ==
    ASSUME NEW g, NEW S, IsFiniteSet(S), NEW T, T \subseteq S, NEW a, SumsOver(g, S, a), NEW b, SumsOver(g, T, b)
    PROVE  \A s \in SUBSET T : a[s] = b[s]
<1> DEFINE F == {s \in SUBSET T : a[s] # b[s]}
<1>1. SUFFICES ASSUME F # {} PROVE FALSE
    OBVIOUS
<1>2. PICK s \in F : \A x \in s : s \ {x} \notin F
    <2>1. F \subseteq SUBSET S
        OBVIOUS
    <2> HIDE DEF F
    <2> QED BY <1>1, <2>1, FiniteLeast
<1>3. s \in SUBSET T /\ s \in SUBSET S /\ a[s] # b[s]
    BY <1>2
<1>4. CASE s = {}
    BY <1>3, <1>4 DEF SumsOver
<1>5. CASE s # {}
    <2>1. PICK c \in s : c = Chosen(s)
        BY <1>5, ChosenIn
    <2>2. a[s \ {c}] = b[s \ {c}]
        BY <1>2, <1>3
    <2>3. a[s] = g[c] + a[s \ {c}]
        BY <1>3, <1>5, <2>1 DEF SumsOver
    <2>4. b[s] = g[c] + b[s \ {c}]
        BY <1>3, <1>5, <2>1 DEF SumsOver
    <2> QED BY <1>3, <2>2, <2>3, <2>4
<1> QED BY <1>4, <1>5

\* The fold is the sum that there is.
LEMMA SumIs ==
    ASSUME NEW g, NEW S
    PROVE  \E it : it = (CHOOSE j : SumsOver(g, S, j)) /\ SumFunctionOnSet(g, S) = it[S]
BY DEF SumFunctionOnSet, FoldFunctionOnSet, MapThenFoldSet, SumsOver, Chosen

\* There is one over every finite set.
LEMMA SumsExist ==
    ASSUME NEW g, NEW S, IsFiniteSet(S)
    PROVE  \E it : SumsOver(g, S, it)
<1> DEFINE Has(s) == \E it : SumsOver(g, s, it)
<1> DEFINE F == {s \in SUBSET S : ~Has(s)}
<1>1. SUFFICES ASSUME ~Has(S) PROVE FALSE
    OBVIOUS
<1>2. S \in F
    BY <1>1
<1>3. PICK s \in F : \A x \in s : s \ {x} \notin F
    <2>1. F \subseteq SUBSET S
        OBVIOUS
    <2> HIDE DEF F
    <2> QED BY <1>2, <2>1, FiniteLeast
<1>4. s \in SUBSET S /\ ~Has(s) /\ \A x \in s : Has(s \ {x})
    BY <1>3
<1>5. IsFiniteSet(s)
    BY <1>4, FS_Subset
<1> HIDE DEF F
<1>6. CASE s = {}
    <2>1. PICK it : it = [t \in SUBSET {} |-> 0]
        OBVIOUS
    <2>2. \A t \in SUBSET {} : t = {}
        OBVIOUS
    <2>3. SumsOver(g, {}, it)
        BY <2>1, <2>2 DEF SumsOver
    <2> QED BY <1>4, <1>6, <2>3
<1>7. CASE s # {}
    <2>1. PICK c \in s : c = Chosen(s)
        BY <1>7, ChosenIn
    <2>2. PICK it : SumsOver(g, s \ {c}, it)
        BY <1>4, <2>1
    <2> DEFINE at == [t \in SUBSET s |-> CHOOSE n : \E x, j : x \in s /\ SumsOver(g, s \ {x}, j) /\ t \subseteq s \ {x} /\ n = j[t]]
    <2>3. ASSUME NEW t \in SUBSET s, NEW x \in s, NEW j, SumsOver(g, s \ {x}, j), t \subseteq s \ {x}
          PROVE  at[t] = j[t]
        <3>1. PICK y, k : y \in s /\ SumsOver(g, s \ {y}, k) /\ t \subseteq s \ {y} /\ at[t] = k[t]
            BY <2>3
        <3>2. PICK u : u = (s \ {x}) \cap (s \ {y})
            OBVIOUS
        <3> HIDE DEF at
        <3>3. IsFiniteSet(s \ {x}) /\ IsFiniteSet(s \ {y})
            BY <1>5, FS_Subset
        <3>4. PICK v : v = [r \in SUBSET u |-> j[r]]
            OBVIOUS
        <3>5. SumsOver(g, u, v)
            <4>1. ASSUME NEW r \in SUBSET u, r # {} PROVE j[r] = g[Chosen(r)] + v[r \ {Chosen(r)}]
                <5>1. r \in SUBSET (s \ {x}) /\ r \ {Chosen(r)} \in SUBSET u
                    BY <3>2
                <5>2. j[r] = g[Chosen(r)] + j[r \ {Chosen(r)}]
                    BY <4>1, <5>1, <2>3 DEF SumsOver
                <5> QED BY <3>4, <5>1, <5>2
            <4>2. j[{}] = 0
                BY <2>3 DEF SumsOver
            <4>3. \A r \in SUBSET u : v[r] = IF r = {} THEN 0 ELSE g[Chosen(r)] + v[r \ {Chosen(r)}]
                BY <3>4, <4>1, <4>2
            <4> QED BY <3>4, <4>3 DEF SumsOver
        <3>6. t \in SUBSET u /\ u \subseteq s \ {x} /\ u \subseteq s \ {y}
            BY <2>3, <3>1, <3>2
        <3>7. v[t] = j[t]
            BY <3>4, <3>6
        <3>8. k[t] = v[t]
            BY <3>1, <3>3, <3>5, <3>6, SumsAgree
        <3> QED BY <3>1, <3>7, <3>8
    <2>4. ASSUME NEW x \in s PROVE \E j : SumsOver(g, s \ {x}, j) /\ \A t \in SUBSET (s \ {x}) : at[t] = j[t]
        <3> HIDE DEF at
        <3>1. PICK j : SumsOver(g, s \ {x}, j)
            BY <1>4
        <3> QED BY <2>3, <3>1
    <2> HIDE DEF at
    <2>5. PICK new : new = [t \in SUBSET s |-> IF t = s THEN g[c] + it[s \ {c}] ELSE at[t]]
        OBVIOUS
    <2>6. ASSUME NEW t \in SUBSET s, t # {} PROVE new[t] = g[Chosen(t)] + new[t \ {Chosen(t)}]
        <3>1. PICK d \in t : d = Chosen(t)
            BY <2>6, ChosenIn
        <3>2. t \ {d} \in SUBSET s /\ t \ {d} # s /\ t \ {d} \in SUBSET (s \ {d}) /\ new[t \ {d}] = at[t \ {d}]
            BY <2>5, <3>1
        <3>3. CASE t = s
            <4>1. d = c /\ at[s \ {c}] = it[s \ {c}]
                BY <2>1, <2>2, <2>3, <3>1, <3>3
            <4>2. new[t] = g[d] + it[t \ {d}]
                BY <2>5, <3>3, <4>1
            <4> QED BY <3>1, <3>2, <3>3, <4>1, <4>2
        <3>4. CASE t # s
            <4>1. PICK x \in s : t \in SUBSET (s \ {x})
                BY <3>4
            <4>2. PICK j : SumsOver(g, s \ {x}, j) /\ \A r \in SUBSET (s \ {x}) : at[r] = j[r]
                BY <2>4
            <4>3. j[t] = g[d] + j[t \ {d}]
                BY <2>6, <3>1, <4>1, <4>2 DEF SumsOver
            <4>4. new[t] = at[t] /\ at[t] = j[t] /\ at[t \ {d}] = j[t \ {d}]
                BY <2>5, <3>4, <4>1, <4>2
            <4> QED BY <3>1, <3>2, <4>3, <4>4
        <3> QED BY <3>3, <3>4
    <2>7. new[{}] = 0
        <3>1. PICK x \in s : TRUE
            BY <1>7
        <3>2. PICK j : SumsOver(g, s \ {x}, j) /\ \A r \in SUBSET (s \ {x}) : at[r] = j[r]
            BY <2>4
        <3>3. j[{}] = 0
            BY <3>2 DEF SumsOver
        <3> QED BY <1>7, <2>5, <3>2, <3>3
    <2>8. \A t \in SUBSET s : new[t] = IF t = {} THEN 0 ELSE g[Chosen(t)] + new[t \ {Chosen(t)}]
        BY <2>6, <2>7
    <2>9. SumsOver(g, s, new)
        BY <2>5, <2>8 DEF SumsOver
    <2> QED BY <1>4, <2>9
<1> QED BY <1>6, <1>7

\* A sum is that of nothing, or the chosen number and the sum of the rest;
LEMMA SumSteps ==
    ASSUME NEW g, NEW S, IsFiniteSet(S)
    PROVE  /\ S = {} => SumFunctionOnSet(g, S) = 0
           /\ S # {} => Chosen(S) \in S /\ SumFunctionOnSet(g, S) = g[Chosen(S)] + SumFunctionOnSet(g, S \ {Chosen(S)})
<1>1. PICK a : a = (CHOOSE j : SumsOver(g, S, j)) /\ SumFunctionOnSet(g, S) = a[S]
    BY SumIs
<1>2. SumsOver(g, S, a)
    BY <1>1, SumsExist
<1>3. CASE S = {}
    BY <1>1, <1>2, <1>3 DEF SumsOver
<1>4. CASE S # {}
    <2>1. PICK c \in S : c = Chosen(S)
        BY <1>4, ChosenIn
    <2>2. PICK b : b = (CHOOSE j : SumsOver(g, S \ {c}, j)) /\ SumFunctionOnSet(g, S \ {c}) = b[S \ {c}]
        BY SumIs
    <2>3. IsFiniteSet(S \ {c})
        BY FS_Subset
    <2>4. SumsOver(g, S \ {c}, b)
        BY <2>2, <2>3, SumsExist
    <2>5. a[S \ {c}] = b[S \ {c}]
        BY <1>2, <2>4, SumsAgree
    <2>6. a[S] = g[c] + a[S \ {c}]
        BY <1>2, <1>4, <2>1 DEF SumsOver
    <2> QED BY <1>1, <1>4, <2>1, <2>2, <2>5, <2>6
<1> QED BY <1>3, <1>4

\* it is a number, and depends on no number outside the set;
LEMMA SumOfNats ==
    ASSUME NEW S, IsFiniteSet(S), NEW g, NEW h, \A x \in S : g[x] \in Nat /\ h[x] = g[x]
    PROVE  SumFunctionOnSet(g, S) \in Nat /\ SumFunctionOnSet(h, S) = SumFunctionOnSet(g, S)
<1> DEFINE F == {s \in SUBSET S : ~(SumFunctionOnSet(g, s) \in Nat /\ SumFunctionOnSet(h, s) = SumFunctionOnSet(g, s))}
<1>1. SUFFICES ASSUME F # {} PROVE FALSE
    OBVIOUS
<1>2. PICK s \in F : \A x \in s : s \ {x} \notin F
    <2>1. F \subseteq SUBSET S
        OBVIOUS
    <2> HIDE DEF F
    <2> QED BY <1>1, <2>1, FiniteLeast
<1>3. IsFiniteSet(s)
    BY FS_Subset
<1>4. CASE s = {}
    <2>1. SumFunctionOnSet(g, s) = 0 /\ SumFunctionOnSet(h, s) = 0
        BY <1>3, <1>4, SumSteps
    <2>2. SumFunctionOnSet(g, s) \in Nat /\ SumFunctionOnSet(h, s) = SumFunctionOnSet(g, s)
        BY ONLY <2>1
    <2> QED BY <1>2, <2>2
<1>5. CASE s # {}
    <2>1. PICK c \in s : c = Chosen(s)
        BY <1>5, ChosenIn
    <2>2. SumFunctionOnSet(g, s \ {c}) \in Nat /\ SumFunctionOnSet(h, s \ {c}) = SumFunctionOnSet(g, s \ {c})
        BY <1>2
    <2>3. SumFunctionOnSet(g, s) = g[c] + SumFunctionOnSet(g, s \ {c}) /\ SumFunctionOnSet(h, s) = h[c] + SumFunctionOnSet(h, s \ {c})
        BY <1>3, <1>5, <2>1, SumSteps
    <2>4. g[c] \in Nat /\ h[c] = g[c]
        OBVIOUS
    <2>5. SumFunctionOnSet(g, s) \in Nat /\ SumFunctionOnSet(h, s) = SumFunctionOnSet(g, s)
        BY <2>2, <2>3, <2>4
    <2> QED BY <1>2, <2>5
<1> QED BY <1>4, <1>5

\* any element can be taken first.
LEMMA SumTakes ==
    ASSUME NEW S, IsFiniteSet(S), NEW g, \A x \in S : g[x] \in Nat
    PROVE  \A x \in S : SumFunctionOnSet(g, S) = g[x] + SumFunctionOnSet(g, S \ {x})
<1> DEFINE F == {s \in SUBSET S : \E x \in s : SumFunctionOnSet(g, s) # g[x] + SumFunctionOnSet(g, s \ {x})}
<1>1. SUFFICES ASSUME F # {} PROVE FALSE
    OBVIOUS
<1>2. PICK s \in F : \A y \in s : s \ {y} \notin F
    <2>1. F \subseteq SUBSET S
        OBVIOUS
    <2> HIDE DEF F
    <2> QED BY <1>1, <2>1, FiniteLeast
<1>3. IsFiniteSet(s)
    BY FS_Subset
<1>4. PICK x \in s : SumFunctionOnSet(g, s) # g[x] + SumFunctionOnSet(g, s \ {x})
    BY <1>2
<1>5. PICK c \in s : c = Chosen(s) /\ SumFunctionOnSet(g, s) = g[c] + SumFunctionOnSet(g, s \ {c})
    BY <1>3, SumSteps
<1>6. c # x
    BY <1>4, <1>5
<1>7. PICK r \in SUBSET S : r = (s \ {c}) \ {x} /\ r = (s \ {x}) \ {c}
    OBVIOUS
<1>8. \A y \in s : \A z \in s \ {y} : SumFunctionOnSet(g, s \ {y}) = g[z] + SumFunctionOnSet(g, (s \ {y}) \ {z})
    BY <1>2
<1>9. SumFunctionOnSet(g, s \ {c}) = g[x] + SumFunctionOnSet(g, r) /\ SumFunctionOnSet(g, s \ {x}) = g[c] + SumFunctionOnSet(g, r)
    BY <1>6, <1>7, <1>8
<1>10. IsFiniteSet(r) /\ \A y \in r : g[y] \in Nat
    BY <1>3, <1>7, FS_Subset
<1>11. SumFunctionOnSet(g, r) \in Nat /\ g[c] \in Nat /\ g[x] \in Nat
    BY <1>10, SumOfNats
<1> QED BY <1>4, <1>5, <1>9, <1>11

\* and sums of nothing but zeros are zero.
LEMMA SumOfZeros ==
    ASSUME NEW S, IsFiniteSet(S), NEW g, \A x \in S : g[x] = 0
    PROVE  SumFunctionOnSet(g, S) = 0
<1> DEFINE F == {s \in SUBSET S : SumFunctionOnSet(g, s) # 0}
<1>1. SUFFICES ASSUME F # {} PROVE FALSE
    OBVIOUS
<1>2. PICK s \in F : \A x \in s : s \ {x} \notin F
    <2>1. F \subseteq SUBSET S
        OBVIOUS
    <2> HIDE DEF F
    <2> QED BY <1>1, <2>1, FiniteLeast
<1>3. IsFiniteSet(s)
    BY FS_Subset
<1>4. s # {}
    BY <1>2, <1>3, SumSteps
<1>5. PICK c \in s : SumFunctionOnSet(g, s) = g[c] + SumFunctionOnSet(g, s \ {c})
    BY <1>3, <1>4, SumSteps
<1>6. SumFunctionOnSet(g, s \ {c}) = 0 /\ g[c] = 0
    BY <1>2
<1> QED BY <1>2, <1>5, <1>6

\* A part has no greater sum than the whole.
LEMMA SumGrows ==
    ASSUME NEW S, IsFiniteSet(S), NEW g, \A x \in S : g[x] \in Nat, NEW T, T \subseteq S
    PROVE  SumFunctionOnSet(g, T) <= SumFunctionOnSet(g, S)
<1> DEFINE F == {s \in SUBSET S : T \subseteq s /\ ~(SumFunctionOnSet(g, T) <= SumFunctionOnSet(g, s))}
<1>1. SUFFICES ASSUME F # {} PROVE FALSE
    OBVIOUS
<1>2. PICK s \in F : \A x \in s : s \ {x} \notin F
    <2>1. F \subseteq SUBSET S
        OBVIOUS
    <2> HIDE DEF F
    <2> QED BY <1>1, <2>1, FiniteLeast
<1>3. \A t \in SUBSET S : IsFiniteSet(t) /\ SumFunctionOnSet(g, t) \in Nat
    <2>1. ASSUME NEW t \in SUBSET S PROVE IsFiniteSet(t) /\ SumFunctionOnSet(g, t) \in Nat
        <3>1. IsFiniteSet(t)
            BY FS_Subset
        <3>2. \A x \in t : g[x] \in Nat /\ g[x] = g[x]
            OBVIOUS
        <3> QED BY <3>1, <3>2, SumOfNats
    <2> QED BY <2>1
<1>4. PICK x \in s : x \notin T
    <2>1. s # T
        BY <1>2, <1>3
    <2> QED BY <1>2, <2>1
<1>5. SumFunctionOnSet(g, T) <= SumFunctionOnSet(g, s \ {x})
    BY <1>2, <1>4
<1>6. SumFunctionOnSet(g, s) = g[x] + SumFunctionOnSet(g, s \ {x})
    BY <1>3, SumTakes
<1>7. /\ SumFunctionOnSet(g, s \ {x}) \in Nat /\ SumFunctionOnSet(g, s) \in Nat
      /\ SumFunctionOnSet(g, T) \in Nat /\ g[x] \in Nat
    BY <1>3
<1> QED BY <1>2, <1>5, <1>6, <1>7

----------------------------------------------------------------------------
(***************************************************************************)
(* The counters.  A buffer lists the paths it has counted, once each, and  *)
(* a flush those it still has to write; what has been stored, is buffered  *)
(* or in a flush is no more than what was answered.  A flush about to trim *)
(* the raw log has found a cut that leaves it small enough, for as long as *)
(* no other flush has written since.                                       *)
(***************************************************************************)
PathCounts == [Paths -> Nat]
BufferRow == [order : Seq(Paths), count : PathCounts]
FlushRow == [at : {"none", "bucket", "raw", "count", "trim"}, order : Seq(Paths), count : PathCounts,
             raw : Nat, cut : Nat, top : Nat]

Once(order) == \A i, j \in 1 .. Len(order) : order[i] = order[j] => i = j
NamesAll(order, count) == \A p \in Paths : count[p] # 0 <=> \E i \in 1 .. Len(order) : order[i] = p
Lists(b) == Once(b.order) /\ NamesAll(b.order, b.count)

TrimFinds(f) ==
    flush[f].at = "trim" =>
        /\ flush[f].top <= Len(batches) /\ flush[f].cut \in 1 .. Len(batches)
        /\ flush[f].top = Len(batches) => RawRows(flush[f].cut) <= RawLimit + BatchSize
FlushOK(f) ==
    /\ Lists(flush[f])
    /\ flush[f].at = "bucket" <=> flush[f].order # <<>>
    /\ flush[f].at = "none" => flush[f] = NoFlush
    /\ TrimFinds(f)

Tallied(p) == stored[p] + buffer.count[p] + InFlight(p)
Accounts(p) ==
    /\ Tallied(p) <= seen[p]
    /\ Tallied(p) = seen[p] \/ p \in broken

StatsTyped ==
    /\ buffer \in BufferRow /\ raw \in Nat
    /\ flush \in [Flushes -> FlushRow]
    /\ stored \in PathCounts /\ seen \in PathCounts
    /\ batches \in Seq(0 .. BatchSize) /\ first \in 1 .. Len(batches) + 1
FlushesOK == Lists(buffer) /\ \A f \in Flushes : FlushOK(f)
PathsOK == \A p \in Paths : Accounts(p)
TrimmedOK == trimmed => RawRows(first) <= RawLimit + BatchSize
StatsInv == StatsTyped /\ FlushesOK /\ PathsOK /\ TrimmedOK

\* A step of one flush changes what is in flight by what that flush has.
LEMMA FlightMoves ==
    ASSUME flush \in [Flushes -> FlushRow], flush' \in [Flushes -> FlushRow], NEW f \in Flushes,
           \A g \in Flushes \ {f} : flush'[g] = flush[g], NEW p \in Paths
    PROVE  \E rest \in Nat : InFlight(p) = flush[f].count[p] + rest /\ InFlight(p)' = flush'[f].count[p] + rest
<1>1. PICK a : a = [g \in Flushes |-> flush[g].count[p]] /\ InFlight(p) = SumFunctionOnSet(a, Flushes)
    BY DEF InFlight, SumFunction
<1>2. PICK b : b = [g \in Flushes |-> flush'[g].count[p]] /\ InFlight(p)' = SumFunctionOnSet(b, Flushes)
    BY DEF InFlight, SumFunction
<1>3. \A g \in Flushes : a[g] \in Nat /\ b[g] \in Nat
    BY <1>1, <1>2 DEF FlushRow, PathCounts
<1>4. IsFiniteSet(Flushes) /\ IsFiniteSet(Flushes \ {f})
    BY StatsAssumption, FS_Subset
<1>5. SumFunctionOnSet(a, Flushes) = a[f] + SumFunctionOnSet(a, Flushes \ {f})
    BY <1>3, <1>4, SumTakes
<1>6. SumFunctionOnSet(b, Flushes) = b[f] + SumFunctionOnSet(b, Flushes \ {f})
    BY <1>3, <1>4, SumTakes
<1>7. \A g \in Flushes \ {f} : a[g] \in Nat /\ b[g] = a[g]
    BY <1>1, <1>2, <1>3
<1>8. /\ SumFunctionOnSet(a, Flushes \ {f}) \in Nat
      /\ SumFunctionOnSet(b, Flushes \ {f}) = SumFunctionOnSet(a, Flushes \ {f})
    BY <1>4, <1>7, SumOfNats
<1> QED BY <1>1, <1>2, <1>5, <1>6, <1>8

\* Counts in flight are numbers, and stay when the flushes' counts do.
LEMMA FlightStays ==
    ASSUME flush \in [Flushes -> FlushRow], NEW p \in Paths
    PROVE  /\ InFlight(p) \in Nat
           /\ (\A f \in Flushes : flush[f].count[p] = 0) => InFlight(p) = 0
           /\ (\A f \in Flushes : flush'[f].count[p] = flush[f].count[p]) => InFlight(p)' = InFlight(p)
<1>1. PICK a : a = [g \in Flushes |-> flush[g].count[p]] /\ InFlight(p) = SumFunctionOnSet(a, Flushes)
    BY DEF InFlight, SumFunction
<1>2. PICK b : b = [g \in Flushes |-> flush'[g].count[p]] /\ InFlight(p)' = SumFunctionOnSet(b, Flushes)
    BY DEF InFlight, SumFunction
<1>3. \A g \in Flushes : a[g] \in Nat /\ a[g] = a[g]
    BY <1>1 DEF FlushRow, PathCounts
<1>4. IsFiniteSet(Flushes)
    BY StatsAssumption
<1>5. SumFunctionOnSet(a, Flushes) \in Nat
    BY <1>3, <1>4, SumOfNats
<1>6. ASSUME \A f \in Flushes : flush[f].count[p] = 0 PROVE SumFunctionOnSet(a, Flushes) = 0
    BY <1>1, <1>4, <1>6, SumOfZeros
<1>7. ASSUME \A f \in Flushes : flush'[f].count[p] = flush[f].count[p]
      PROVE SumFunctionOnSet(b, Flushes) = SumFunctionOnSet(a, Flushes)
    BY <1>1, <1>2, <1>3, <1>4, <1>7, SumOfNats
<1> QED BY <1>1, <1>2, <1>5, <1>6, <1>7

\* The rows from one batch on.
LEMMA RowsAre ==
    ASSUME batches \in Seq(0 .. BatchSize)
    PROVE  /\ RawRows(Len(batches) + 1) = 0
           /\ \A i \in 1 .. Len(batches) + 1 : RawRows(i) \in Nat
           /\ \A i \in 1 .. Len(batches) : RawRows(i) = batches[i] + RawRows(i + 1)
           /\ \A i, j \in 1 .. Len(batches) + 1 : i <= j => RawRows(j) <= RawRows(i)
<1>1. PICK n \in Nat : n = Len(batches)
    OBVIOUS
<1>2. \A i \in 1 .. n : batches[i] \in Nat
    BY <1>1, StatsAssumption
<1>3. ASSUME NEW i \in 1 .. n + 1
      PROVE IsFiniteSet(i .. n) /\ \A x \in i .. n : batches[x] \in Nat /\ batches[x] = batches[x]
    <2>1. i \in Int /\ n \in Int
        OBVIOUS
    <2>2. IsFiniteSet(i .. n)
        BY <2>1, FS_Interval
    <2>3. i .. n \subseteq 1 .. n
        OBVIOUS
    <2> QED BY <1>2, <2>2, <2>3
<1>4. \A i \in 1 .. n + 1 : SumFunctionOnSet(batches, i .. n) \in Nat
    BY <1>3, SumOfNats
<1>5. SumFunctionOnSet(batches, n + 1 .. n) = 0
    <2>1. IsFiniteSet(n + 1 .. n) /\ n + 1 .. n = {}
        BY FS_Interval
    <2> QED BY <2>1, SumSteps
<1>6. ASSUME NEW i \in 1 .. n
      PROVE SumFunctionOnSet(batches, i .. n) = batches[i] + SumFunctionOnSet(batches, i + 1 .. n)
    <2>1. (i .. n) \ {i} = i + 1 .. n /\ i \in i .. n /\ i \in 1 .. n + 1
        OBVIOUS
    <2>2. IsFiniteSet(i .. n) /\ \A x \in i .. n : batches[x] \in Nat
        BY <1>3, <2>1
    <2> QED BY <2>1, <2>2, SumTakes
<1>7. ASSUME NEW i \in 1 .. n + 1, NEW j \in 1 .. n + 1, i <= j
      PROVE SumFunctionOnSet(batches, j .. n) <= SumFunctionOnSet(batches, i .. n)
    <2>1. j .. n \subseteq i .. n
        BY <1>7
    <2>2. IsFiniteSet(i .. n) /\ \A x \in i .. n : batches[x] \in Nat
        BY <1>3
    <2> QED BY <2>1, <2>2, SumGrows
<1> QED BY <1>1, <1>4, <1>5, <1>6, <1>7 DEF RawRows

\* A log with too many rows has a place to cut it, which leaves at most one batch too many.
LEMMA CutoffIs ==
    ASSUME batches \in Seq(0 .. BatchSize), first \in 1 .. Len(batches) + 1, RawRows(first) > RawLimit
    PROVE  Cutoff \in 1 .. Len(batches) /\ RawRows(Cutoff) <= RawLimit + BatchSize
<1>1. PICK n \in Nat : n = Len(batches)
    OBVIOUS
<1>2. first \in 1 .. n
    BY <1>1, RowsAre, StatsAssumption
<1>3. PICK T : T = {k \in Nat : k <= n - first /\ RawRows(n - k) > RawLimit}
    OBVIOUS
<1>4. n - first \in T
    BY <1>2, <1>3
<1>5. PICK k \in T : \A l \in T : k <= l
    BY <1>3, <1>4, NatLeast
<1>6. PICK i \in first .. n : i = n - k /\ RawRows(i) > RawLimit
    BY <1>2, <1>3, <1>5
<1>7. i < n => RawRows(i + 1) <= RawLimit
    <2>1. SUFFICES ASSUME i < n, ~(RawRows(i + 1) <= RawLimit) PROVE FALSE
        OBVIOUS
    <2>2. RawRows(i + 1) \in Nat
        BY <1>1, <1>2, <2>1, RowsAre
    <2>3. RawRows(i + 1) > RawLimit
        BY <2>1, <2>2, StatsAssumption
    <2>4. k - 1 \in Nat /\ n - (k - 1) = i + 1
        BY <1>3, <1>5, <1>6, <2>1
    <2>5. k - 1 \in T
        BY <1>2, <1>3, <1>5, <2>3, <2>4
    <2> QED BY <1>3, <1>5, <2>4, <2>5
<1>8. PICK c \in first .. n : c = Cutoff /\ RawRows(c) > RawLimit /\ (c < n => RawRows(c + 1) <= RawLimit)
    BY <1>1, <1>6, <1>7 DEF Cutoff
<1>9. c \in 1 .. n /\ RawRows(c) = batches[c] + RawRows(c + 1)
    BY <1>1, <1>2, RowsAre
<1>10. RawRows(c + 1) \in Nat /\ RawRows(c + 1) <= RawLimit
    <2>1. RawRows(c + 1) \in Nat /\ RawRows(n + 1) = 0
        BY <1>1, <1>9, RowsAre
    <2> QED BY <1>8, <1>9, <2>1, StatsAssumption
<1>11. batches[c] \in 0 .. BatchSize
    <2>1. \A l \in 1 .. Len(batches) : batches[l] \in 0 .. BatchSize
        BY ElementOfSeq
    <2> QED BY <1>1, <1>9, <2>1
<1> QED BY <1>1, <1>8, <1>9, <1>10, <1>11, StatsAssumption

\* A buffer and a flush with nothing in them.
LEMMA EmptyLists ==
    /\ Empty \in BufferRow /\ Lists(Empty)
    /\ NoFlush \in FlushRow /\ Lists(NoFlush)
    /\ NoFlush.at = "none" /\ NoFlush.order = <<>> /\ NoFlush.count = Zero
    /\ Zero \in PathCounts /\ \A p \in Paths : Zero[p] = 0
<1>1. Zero \in PathCounts /\ \A p \in Paths : Zero[p] = 0
    BY DEF Zero, PathCounts
<1>2. PICK e \in Seq(Paths) : e = <<>> /\ Len(e) = 0
    <2>1. <<>> \in Seq(Paths) /\ Len(<<>>) = 0
        OBVIOUS
    <2> QED BY <2>1
<1>3. PICK z \in PathCounts : z = Zero /\ \A p \in Paths : z[p] = 0
    BY <1>1
<1>4. Empty = [order |-> e, count |-> z]
    BY <1>2, <1>3 DEF Empty
<1>5. Empty \in BufferRow /\ Empty.order = e /\ Empty.count = z
    BY <1>4 DEF BufferRow
<1>6. PICK n \in {"none", "bucket", "raw", "count", "trim"} : n = "none"
    OBVIOUS
<1>7. NoFlush = [at |-> n, order |-> e, count |-> z, raw |-> 0, cut |-> 0, top |-> 0]
    BY <1>2, <1>3, <1>6 DEF NoFlush
<1>8. NoFlush \in FlushRow /\ NoFlush.at = n /\ NoFlush.order = e /\ NoFlush.count = z
    BY <1>7 DEF FlushRow
<1>9. Lists(Empty) /\ Lists(NoFlush)
    BY <1>2, <1>3, <1>5, <1>8 DEF Lists, Once, NamesAll
<1> QED BY <1>1, <1>2, <1>3, <1>5, <1>6, <1>8, <1>9

\* A step of a flush, put together from what it does to the flush and to what is stored.
LEMMA FlushMoves ==
    ASSUME StatsInv, NEW f \in Flushes, NEW new \in FlushRow, flush' = [flush EXCEPT ![f] = new],
           stored' \in PathCounts, UNCHANGED <<buffer, seen>>,
           raw' \in Nat, broken \subseteq broken',
           batches' \in Seq(0 .. BatchSize), first' \in 1 .. Len(batches') + 1,
           \A p \in Paths :
               \/ stored'[p] + new.count[p] = stored[p] + flush[f].count[p]
               \/ stored'[p] + new.count[p] <= stored[p] + flush[f].count[p] /\ p \in broken'
    PROVE  StatsTyped' /\ PathsOK'
<1>1. flush' \in [Flushes -> FlushRow] /\ flush'[f] = new /\ \A g \in Flushes \ {f} : flush'[g] = flush[g]
    BY DEF StatsInv, StatsTyped
<1>2. StatsTyped'
    BY <1>1 DEF StatsInv, StatsTyped
<1>3. ASSUME NEW p \in Paths PROVE Accounts(p)'
    <2>1. PICK rest \in Nat : InFlight(p) = flush[f].count[p] + rest /\ InFlight(p)' = new.count[p] + rest
        BY <1>1, FlightMoves DEF StatsInv, StatsTyped
    <2>2. /\ new.count[p] \in Nat /\ flush[f].count[p] \in Nat /\ buffer.count[p] \in Nat
          /\ stored[p] \in Nat /\ stored'[p] \in Nat /\ seen[p] \in Nat
        BY DEF StatsInv, StatsTyped, FlushRow, BufferRow, PathCounts
    <2>3. Tallied(p) = stored[p] + buffer.count[p] + (flush[f].count[p] + rest)
        BY <2>1 DEF Tallied
    <2>4. Tallied(p)' = stored'[p] + buffer.count[p] + (new.count[p] + rest)
        BY <2>1 DEF Tallied
    <2>5. Tallied(p) <= seen[p] /\ (Tallied(p) = seen[p] \/ p \in broken)
        BY DEF StatsInv, PathsOK, Accounts
    <2>6. \/ stored'[p] + new.count[p] = stored[p] + flush[f].count[p]
          \/ stored'[p] + new.count[p] <= stored[p] + flush[f].count[p] /\ p \in broken'
        OBVIOUS
    <2>7. p \in broken => p \in broken'
        OBVIOUS
    <2>8. Tallied(p)' <= seen[p] /\ (Tallied(p)' = seen[p] \/ p \in broken')
        BY ONLY <2>1, <2>2, <2>3, <2>4, <2>5, <2>6, <2>7
    <2>9. seen'[p] = seen[p]
        OBVIOUS
    <2> QED BY <2>8, <2>9 DEF Accounts
<1> QED BY <1>2, <1>3 DEF PathsOK

\* What it does to the other flushes is nothing, unless a batch is written or cut.
LEMMA OthersKeep ==
    ASSUME StatsInv, NEW f \in Flushes, NEW new \in FlushRow, flush' = [flush EXCEPT ![f] = new],
           UNCHANGED batches, FlushOK(f)'
    PROVE  \A g \in Flushes : FlushOK(g)'
<1>1. ASSUME NEW g \in Flushes, g # f PROVE FlushOK(g)'
    <2>1. flush'[g] = flush[g] /\ FlushOK(g)
        BY <1>1 DEF StatsInv, StatsTyped, FlushesOK
    <2> QED BY <2>1 DEF FlushOK, TrimFinds, RawRows
<1> QED BY <1>1

\* Nothing has been counted yet.
LEMMA StatsStart ==
    ASSUME StatsInit
    PROVE  StatsInv
<1>1. flush \in [Flushes -> FlushRow] /\ \A f \in Flushes : flush[f] = NoFlush
    BY EmptyLists DEF StatsInit
<1>2. batches \in Seq(0 .. BatchSize) /\ Len(batches) = 0 /\ first = 1
    BY DEF StatsInit
<1>3. StatsTyped
    BY <1>1, <1>2, EmptyLists DEF StatsInit, StatsTyped
<1>4. FlushesOK
    BY <1>1, EmptyLists DEF StatsInit, FlushesOK, FlushOK, TrimFinds
<1>5. ASSUME NEW p \in Paths PROVE Accounts(p)
    <2>1. \A f \in Flushes : flush[f].count[p] = 0
        BY <1>1, EmptyLists
    <2>2. InFlight(p) = 0
        BY <1>1, <2>1, FlightStays
    <2>3. stored[p] = 0 /\ seen[p] = 0 /\ buffer.count[p] = 0
        BY EmptyLists DEF StatsInit, Empty
    <2> QED BY <2>2, <2>3 DEF Accounts, Tallied
<1>6. RawRows(first) = 0
    BY <1>2, RowsAre
<1>7. TrimmedOK
    BY <1>6, StatsAssumption DEF TrimmedOK
<1> QED BY <1>3, <1>4, <1>5, <1>7 DEF StatsInv, PathsOK

\* One more of a path.
LEMMA OneMoreAnswered ==
    ASSUME NEW c \in PathCounts, NEW p \in Paths
    PROVE  /\ [c EXCEPT ![p] = @ + 1] \in PathCounts
           /\ [c EXCEPT ![p] = @ + 1][p] = c[p] + 1
           /\ \A q \in Paths \ {p} : [c EXCEPT ![p] = @ + 1][q] = c[q]
<1>1. c[p] + 1 \in Nat
    BY DEF PathCounts
<1> QED BY <1>1 DEF PathCounts

\* An answer is counted in the buffer, whose list has its path now.
LEMMA RespondKeeps ==
    ASSUME StatsInv, NEW p \in Paths, Respond(p)
    PROVE  StatsInv'
<1>1. PICK o \in Seq(Paths), c \in PathCounts : buffer.order = o /\ buffer.count = c
    BY DEF StatsInv, StatsTyped, BufferRow
<1>2. PICK d \in PathCounts : d = [c EXCEPT ![p] = @ + 1] /\ d[p] = c[p] + 1 /\ \A q \in Paths \ {p} : d[q] = c[q]
    BY OneMoreAnswered
<1>3. PICK n \in Seq(Paths) : n = IF c[p] = 0 THEN Append(o, p) ELSE o
    <2>1. Append(o, p) \in Seq(Paths)
        OBVIOUS
    <2> QED BY <2>1
<1>4. buffer' = [order |-> n, count |-> d]
    BY <1>1, <1>2, <1>3 DEF Respond
<1>5. buffer' \in BufferRow /\ buffer'.order = n /\ buffer'.count = d
    BY <1>4 DEF BufferRow
<1>6. Lists(buffer)'
    <2>1. \A i, j \in 1 .. Len(o) : o[i] = o[j] => i = j
        BY <1>1 DEF StatsInv, FlushesOK, Lists, Once, NamesAll
    <2>2. \A q \in Paths : c[q] # 0 <=> \E i \in 1 .. Len(o) : o[i] = q
        BY <1>1 DEF StatsInv, FlushesOK, Lists, Once, NamesAll
    <2>3. CASE c[p] # 0
        <3>1. n = o /\ d[p] # 0
            BY <1>2, <1>3, <2>3 DEF PathCounts
        <3> QED BY <1>2, <1>5, <2>1, <2>2, <2>3, <3>1 DEF Lists, Once, NamesAll
    <2>4. CASE c[p] = 0
        <3>1. /\ Len(n) = Len(o) + 1 /\ n[Len(n)] = p /\ \A i \in 1 .. Len(o) : n[i] = o[i]
              /\ Len(o) \in Nat /\ d[p] # 0
            BY <1>2, <1>3, <2>4 DEF PathCounts
        <3>2. \A i \in 1 .. Len(o) : o[i] # p
            BY <2>2, <2>4
        <3>3. \A i, j \in 1 .. Len(n) : n[i] = n[j] => i = j
            BY <2>1, <3>1, <3>2
        <3>4. ASSUME NEW q \in Paths PROVE d[q] # 0 <=> \E i \in 1 .. Len(n) : n[i] = q
            <4>1. CASE q = p
                BY <3>1, <4>1
            <4>2. CASE q # p
                <5>1. d[q] = c[q]
                    BY <1>2, <4>2
                <5> QED BY <2>2, <3>1, <4>2, <5>1
            <4> QED BY <4>1, <4>2
        <3> QED BY <1>5, <3>3, <3>4 DEF Lists, Once, NamesAll
    <2> QED BY <2>3, <2>4
<1>7. seen' = [seen EXCEPT ![p] = @ + 1] /\ UNCHANGED <<flush, stored, batches, first, broken, trimmed>> /\ raw' = raw + 1
    BY DEF Respond
<1>8. StatsTyped'
    <2>1. seen' \in PathCounts
        BY <1>7, OneMoreAnswered DEF StatsInv, StatsTyped
    <2> QED BY <1>5, <1>7, <2>1 DEF StatsInv, StatsTyped
<1>9. FlushesOK'
    BY <1>6, <1>7 DEF StatsInv, FlushesOK, FlushOK, TrimFinds, RawRows
<1>10. ASSUME NEW q \in Paths PROVE Accounts(q)'
    <2>1. InFlight(q) \in Nat /\ InFlight(q)' = InFlight(q)
        BY <1>7, FlightStays DEF StatsInv, StatsTyped
    <2>2. stored[q] \in Nat /\ seen[q] \in Nat /\ c[q] \in Nat /\ seen'[q] = IF q = p THEN seen[q] + 1 ELSE seen[q]
        BY <1>7 DEF StatsInv, StatsTyped, PathCounts
    <2>3. Tallied(q) = stored[q] + c[q] + InFlight(q) /\ Tallied(q)' = stored[q] + d[q] + InFlight(q)
        BY <1>1, <1>5, <1>7, <2>1 DEF Tallied
    <2>4. d[q] = IF q = p THEN c[q] + 1 ELSE c[q]
        BY <1>2
    <2>5. Tallied(q) <= seen[q] /\ (Tallied(q) = seen[q] \/ q \in broken)
        BY DEF StatsInv, PathsOK, Accounts
    <2>6. Tallied(q)' <= seen'[q] /\ (Tallied(q)' = seen'[q] \/ q \in broken)
        BY ONLY <2>1, <2>2, <2>3, <2>4, <2>5
    <2> QED BY <1>7, <2>6 DEF Accounts
<1>11. TrimmedOK'
    BY <1>7 DEF StatsInv, TrimmedOK, RawRows
<1> QED BY <1>8, <1>9, <1>10, <1>11 DEF StatsInv, PathsOK

\* A flush takes the buffer.
LEMMA TakeKeeps ==
    ASSUME StatsInv, NEW f \in Flushes, Take(f)
    PROVE  StatsInv'
<1>1. /\ flush[f] = NoFlush /\ flush' = [flush EXCEPT ![f] = Taken] /\ buffer' = Empty /\ raw' = 0
      /\ UNCHANGED <<stored, batches, first, seen, broken, trimmed>>
    BY DEF Take
<1>2. PICK o \in Seq(Paths), c \in PathCounts : buffer.order = o /\ buffer.count = c
    BY DEF StatsInv, StatsTyped, BufferRow
<1>3. PICK a \in {"raw", "bucket"} : a = IF o = <<>> THEN "raw" ELSE "bucket"
    OBVIOUS
<1>4. PICK r \in Nat : r = raw
    BY DEF StatsInv, StatsTyped
<1>5. Taken = [at |-> a, order |-> o, count |-> c, raw |-> r, cut |-> 0, top |-> 0]
    BY <1>2, <1>3, <1>4 DEF Taken
<1>6. PICK new \in FlushRow : new = Taken /\ new.at = a /\ new.order = o /\ new.count = c
    BY <1>5 DEF FlushRow
<1>7. flush' \in [Flushes -> FlushRow] /\ flush'[f] = new /\ \A g \in Flushes \ {f} : flush'[g] = flush[g]
    BY <1>1, <1>6 DEF StatsInv, StatsTyped
<1>8. StatsTyped'
    BY <1>1, <1>7, EmptyLists DEF StatsInv, StatsTyped
<1>9. FlushOK(f)'
    <2>1. Lists(new)
        BY <1>2, <1>6 DEF StatsInv, FlushesOK, Lists, Once, NamesAll
    <2>2. a = "bucket" <=> o # <<>>
        BY <1>3
    <2>3. a # "none" /\ a # "trim"
        BY <1>3
    <2> QED BY <1>6, <1>7, <2>1, <2>2, <2>3 DEF FlushOK, TrimFinds
<1>10. FlushesOK'
    <2>1. Lists(buffer)'
        BY <1>1, EmptyLists
    <2>2. \A g \in Flushes : FlushOK(g)'
        BY <1>1, <1>6, <1>9, OthersKeep
    <2> QED BY <2>1, <2>2 DEF FlushesOK
<1>11. ASSUME NEW p \in Paths PROVE Accounts(p)'
    <2>1. PICK rest \in Nat : InFlight(p) = flush[f].count[p] + rest /\ InFlight(p)' = new.count[p] + rest
        BY <1>7, FlightMoves DEF StatsInv, StatsTyped
    <2>2. stored[p] \in Nat /\ c[p] \in Nat /\ flush[f].count[p] = 0 /\ Empty.count[p] = 0
        BY <1>1, EmptyLists DEF StatsInv, StatsTyped, PathCounts, Empty
    <2>3. Tallied(p) = stored[p] + c[p] + (0 + rest) /\ Tallied(p)' = stored[p] + 0 + (c[p] + rest)
        BY <1>1, <1>2, <1>6, <2>1, <2>2 DEF Tallied
    <2>4. Tallied(p)' = Tallied(p)
        BY <2>2, <2>3
    <2> QED BY <1>1, <2>4 DEF StatsInv, PathsOK, Accounts
<1>12. TrimmedOK'
    BY <1>1 DEF StatsInv, TrimmedOK, RawRows
<1> QED BY <1>8, <1>10, <1>11, <1>12 DEF StatsInv, PathsOK

\* A list without its first path, and the counts without that path's.
LEMMA ListsRest ==
    ASSUME NEW o \in Seq(Paths), o # <<>>, NEW c \in PathCounts,
           Once(o), NamesAll(o, c)
    PROVE  /\ Head(o) \in Paths /\ Tail(o) \in Seq(Paths) /\ [c EXCEPT ![Head(o)] = 0] \in PathCounts
           /\ [c EXCEPT ![Head(o)] = 0][Head(o)] = 0
           /\ \A p \in Paths \ {Head(o)} : [c EXCEPT ![Head(o)] = 0][p] = c[p]
           /\ Once(Tail(o)) /\ NamesAll(Tail(o), [c EXCEPT ![Head(o)] = 0])
<1> DEFINE r == Tail(o)  n == Len(o) - 1  d == [c EXCEPT ![Head(o)] = 0]
<1>1. /\ r \in Seq(Paths) /\ n \in Nat /\ Len(r) = n /\ Len(o) = n + 1
      /\ \A i \in 1 .. n : r[i] = o[i + 1]
    <2>1. Len(o) \in Nat /\ Len(o) # 0
        BY EmptySeq
    <2>2. Tail(o) \in Seq(Paths) /\ Len(Tail(o)) = Len(o) - 1 /\ \A i \in 1 .. Len(Tail(o)) : Tail(o)[i] = o[i + 1]
        BY HeadTailProperties
    <2>3. Len(o) - 1 \in Nat /\ Len(o) = (Len(o) - 1) + 1
        BY <2>1
    <2> QED BY <2>2, <2>3
<1> HIDE DEF r, n, d
<1>2. PICK h \in Paths : h = Head(o) /\ h = o[1]
    BY HeadTailProperties
<1>3. d \in PathCounts /\ d[h] = 0 /\ \A p \in Paths \ {h} : d[p] = c[p]
    BY <1>2 DEF PathCounts, d
<1>4. \A i \in 1 .. n : o[i + 1] # h
    BY <1>1, <1>2 DEF Once
<1>5. Once(r)
    BY <1>1 DEF Once
<1>6. \A p \in Paths : c[p] # 0 <=> \E i \in 1 .. n + 1 : o[i] = p
    BY <1>1 DEF NamesAll
<1>7. ASSUME NEW p \in Paths PROVE d[p] # 0 <=> \E i \in 1 .. n : r[i] = p
    <2>1. CASE p = h
        BY <1>1, <1>3, <1>4, <2>1
    <2>2. CASE p # h
        <3>1. d[p] = c[p]
            BY <1>3, <2>2
        <3>2. ASSUME NEW i \in 1 .. n + 1, o[i] = p PROVE \E j \in 1 .. n : r[j] = p
            <4>1. i # 1
                BY <1>2, <2>2, <3>2
            <4>2. i - 1 \in 1 .. n /\ (i - 1) + 1 = i
                BY <1>1, <4>1
            <4> QED BY <1>1, <3>2, <4>2
        <3>3. ASSUME NEW i \in 1 .. n, r[i] = p PROVE \E j \in 1 .. n + 1 : o[j] = p
            <4>1. i + 1 \in 1 .. n + 1
                BY <1>1
            <4> QED BY <1>1, <3>3, <4>1
        <3> QED BY <1>6, <3>1, <3>2, <3>3
    <2> QED BY <2>1, <2>2
<1>8. NamesAll(r, d)
    BY <1>1, <1>7 DEF NamesAll
<1> QED BY <1>1, <1>2, <1>3, <1>5, <1>8 DEF r, d

\* The table's count of a path is that of its flush more.
LEMMA AddedIs ==
    ASSUME StatsInv, NEW f \in Flushes, flush[f].order # <<>>
    PROVE  /\ Head(flush[f].order) \in Paths
           /\ Added(f) \in PathCounts
           /\ \A p \in Paths : Added(f)[p] = IF p = Head(flush[f].order) THEN stored[p] + flush[f].count[p] ELSE stored[p]
<1>1. PICK o \in Seq(Paths), c \in PathCounts : flush[f].order = o /\ flush[f].count = c
    BY DEF StatsInv, StatsTyped, FlushRow
<1>2. PICK h \in Paths : h = Head(o)
    BY <1>1, HeadTailProperties
<1>3. PICK s \in PathCounts : s = stored
    BY DEF StatsInv, StatsTyped
<1>4. Added(f) = [s EXCEPT ![h] = @ + c[h]]
    BY <1>1, <1>2, <1>3 DEF Added
<1>5. s[h] + c[h] \in Nat
    BY DEF PathCounts
<1>6. [s EXCEPT ![h] = @ + c[h]] \in PathCounts /\ \A p \in Paths : [s EXCEPT ![h] = @ + c[h]][p] = IF p = h THEN s[p] + c[p] ELSE s[p]
    BY <1>5 DEF PathCounts
<1> QED BY <1>1, <1>2, <1>3, <1>4, <1>6

\* Its first path is written.
LEMMA BucketWritten ==
    ASSUME StatsInv, NEW f \in Flushes, StoreBucket(f)
    PROVE  StatsInv'
<1>1. PICK row \in FlushRow, o \in Seq(Paths), c \in PathCounts : row = flush[f] /\ row.order = o /\ row.count = c
    BY DEF StatsInv, StatsTyped, FlushRow
<1>2. row.at = "bucket" /\ o # <<>> /\ Lists(row)
    BY <1>1 DEF StoreBucket, StatsInv, FlushesOK, FlushOK
<1>3. PICK h \in Paths : h = Head(o)
    BY <1>2, HeadTailProperties
<1>4. PICK d : d = [c EXCEPT ![h] = 0]
    OBVIOUS
<1>5. PICK r \in Seq(Paths) : r = Tail(o)
    BY <1>2, HeadTailProperties
<1>6. /\ d \in PathCounts /\ d[h] = 0 /\ \A p \in Paths \ {h} : d[p] = c[p]
      /\ Once(r) /\ NamesAll(r, d)
    <2>1. Once(o) /\ NamesAll(o, c)
        BY <1>1, <1>2 DEF Lists
    <2>2. /\ [c EXCEPT ![Head(o)] = 0] \in PathCounts
          /\ [c EXCEPT ![Head(o)] = 0][Head(o)] = 0
          /\ \A p \in Paths \ {Head(o)} : [c EXCEPT ![Head(o)] = 0][p] = c[p]
          /\ Once(Tail(o)) /\ NamesAll(Tail(o), [c EXCEPT ![Head(o)] = 0])
        BY <1>2, <2>1, ListsRest
    <2>3. d = [c EXCEPT ![Head(o)] = 0]
        BY <1>3, <1>4
    <2> QED BY <1>3, <1>5, <2>2, <2>3
<1>7. PICK a \in {"raw", "bucket"} : a = IF r = <<>> THEN "raw" ELSE "bucket"
    OBVIOUS
<1>8. /\ stored' = Added(f)
      /\ flush' = [flush EXCEPT ![f].order = r, ![f].count[h] = 0, ![f].at = a]
      /\ UNCHANGED <<buffer, raw, batches, first, seen, broken, trimmed>>
    BY <1>1, <1>3, <1>5, <1>7 DEF StoreBucket
<1>9. PICK new : new = [flush[f] EXCEPT !.order = r, !.count[h] = 0, !.at = a]
    OBVIOUS
<1>10. new \in FlushRow /\ new.order = r /\ new.count = d /\ new.at = a /\ flush' = [flush EXCEPT ![f] = new]
    <2>1. d = [flush[f].count EXCEPT ![h] = 0]
        BY <1>1, <1>4
    <2>2. flush \in [Flushes -> FlushRow] /\ flush[f] \in FlushRow
        BY DEF StatsInv, StatsTyped
    <2>3. a \in {"none", "bucket", "raw", "count", "trim"}
        OBVIOUS
    <2>4. new \in FlushRow /\ new.order = r /\ new.count = d /\ new.at = a
        BY ONLY r \in Seq(Paths), <1>6, <1>9, <2>1, <2>2, <2>3 DEF FlushRow
    <2>5. [flush EXCEPT ![f].order = r, ![f].count[h] = 0, ![f].at = a] = [flush EXCEPT ![f] = new]
        BY ONLY f \in Flushes, <1>9, <2>2
    <2> QED BY <1>8, <2>4, <2>5
<1>11. \A p \in Paths : stored'[p] + new.count[p] = stored[p] + flush[f].count[p]
    <2>1. \A p \in Paths : stored'[p] = IF p = h THEN stored[p] + c[p] ELSE stored[p]
        BY <1>1, <1>2, <1>3, <1>8, AddedIs
    <2>2. \A p \in Paths : stored[p] \in Nat /\ c[p] \in Nat
        BY DEF StatsInv, StatsTyped, PathCounts
    <2>3. \A p \in Paths : d[p] = IF p = h THEN 0 ELSE c[p]
        BY <1>6
    <2> QED BY <1>1, <1>10, <2>1, <2>2, <2>3
<1>12. stored' \in PathCounts
    BY <1>1, <1>2, <1>8, AddedIs
<1>13. StatsTyped' /\ PathsOK'
    <2>1. raw' \in Nat /\ batches' \in Seq(0 .. BatchSize) /\ first' \in 1 .. Len(batches') + 1 /\ broken \subseteq broken'
        BY <1>8 DEF StatsInv, StatsTyped
    <2>2. \A p \in Paths : \/ stored'[p] + new.count[p] = stored[p] + flush[f].count[p]
                           \/ stored'[p] + new.count[p] <= stored[p] + flush[f].count[p] /\ p \in broken'
        BY <1>11
    <2>3. UNCHANGED <<buffer, seen>>
        BY <1>8
    <2> QED BY ONLY StatsInv, f \in Flushes, <1>10, <1>12, <2>1, <2>2, <2>3, FlushMoves
<1>14. FlushOK(f)'
    <2>1. flush'[f] = new
        BY <1>10 DEF StatsInv, StatsTyped
    <2>2. Lists(new)
        BY <1>6, <1>10 DEF Lists
    <2>3. a = "bucket" <=> r # <<>>
        BY <1>7
    <2>4. a # "none" /\ a # "trim"
        BY <1>7
    <2> QED BY <1>10, <2>1, <2>2, <2>3, <2>4 DEF FlushOK, TrimFinds
<1>15. FlushesOK'
    BY <1>8, <1>10, <1>14, OthersKeep DEF StatsInv, FlushesOK, Lists
<1>16. TrimmedOK'
    BY <1>8 DEF StatsInv, TrimmedOK, RawRows
<1> QED BY <1>13, <1>15, <1>16 DEF StatsInv

\* A path that cannot be written takes those after it along.
LEMMA StoreFailsKeeps ==
    ASSUME StatsInv, NEW f \in Flushes, StoreBucketFails(f)
    PROVE  StatsInv'
<1>1. PICK row \in FlushRow, o \in Seq(Paths), c \in PathCounts : row = flush[f] /\ row.order = o /\ row.count = c
    BY DEF StatsInv, StatsTyped, FlushRow
<1>2. row.at = "bucket" /\ o # <<>> /\ NamesAll(o, c)
    BY <1>1 DEF StoreBucketFails, StatsInv, FlushesOK, FlushOK, Lists
<1>3. PICK e \in Seq(Paths) : e = <<>>
    <2>1. <<>> \in Seq(Paths)
        OBVIOUS
    <2> QED BY <2>1
<1>4. PICK z \in PathCounts : z = Zero /\ \A p \in Paths : z[p] = 0
    BY EmptyLists
<1>5. PICK a \in {"none", "bucket", "raw", "count", "trim"} : a = "raw"
    OBVIOUS
<1>6. /\ broken' = broken \cup ToSet(o)
      /\ stored' = stored \/ stored' = Added(f)
      /\ flush' = [flush EXCEPT ![f].order = e, ![f].count = z, ![f].at = a]
      /\ UNCHANGED <<buffer, raw, batches, first, seen, trimmed>>
    BY <1>1, <1>3, <1>4, <1>5 DEF StoreBucketFails
<1>7. PICK new : new = [flush[f] EXCEPT !.order = e, !.count = z, !.at = a]
    OBVIOUS
<1>8. new \in FlushRow /\ new.order = e /\ new.count = z /\ new.at = a /\ flush' = [flush EXCEPT ![f] = new]
    <2>1. flush \in [Flushes -> FlushRow] /\ flush[f] \in FlushRow
        BY DEF StatsInv, StatsTyped
    <2>2. new \in FlushRow /\ new.order = e /\ new.count = z /\ new.at = a
        BY ONLY e \in Seq(Paths), z \in PathCounts, a \in {"none", "bucket", "raw", "count", "trim"}, <1>7, <2>1 DEF FlushRow
    <2>3. [flush EXCEPT ![f].order = e, ![f].count = z, ![f].at = a] = [flush EXCEPT ![f] = new]
        BY ONLY f \in Flushes, <1>7, <2>1
    <2> QED BY <1>6, <2>2, <2>3
<1>9. stored' \in PathCounts /\ \A p \in Paths : stored'[p] = stored[p] \/ stored'[p] = stored[p] + c[p]
    <2>1. \A p \in Paths : stored[p] \in Nat /\ c[p] \in Nat
        BY DEF StatsInv, StatsTyped, PathCounts
    <2>2. CASE stored' = stored
        BY <2>2 DEF StatsInv, StatsTyped
    <2>3. CASE stored' = Added(f)
        BY <1>1, <1>2, <2>1, <2>3, AddedIs
    <2> QED BY <1>6, <2>2, <2>3
<1>10. ASSUME NEW p \in Paths
       PROVE \/ stored'[p] + new.count[p] = stored[p] + flush[f].count[p]
             \/ stored'[p] + new.count[p] <= stored[p] + flush[f].count[p] /\ p \in broken'
    <2>1. stored[p] \in Nat /\ c[p] \in Nat /\ new.count[p] = 0 /\ flush[f].count[p] = c[p]
        BY <1>1, <1>4, <1>8 DEF StatsInv, StatsTyped, PathCounts
    <2>2. c[p] = 0 \/ p \in broken'
        BY <1>2, <1>6 DEF NamesAll, ToSet
    <2> QED BY <1>9, <2>1, <2>2
<1>11. StatsTyped' /\ PathsOK'
    <2>1. raw' \in Nat /\ batches' \in Seq(0 .. BatchSize) /\ first' \in 1 .. Len(batches') + 1 /\ broken \subseteq broken'
        BY <1>6 DEF StatsInv, StatsTyped
    <2>2. UNCHANGED <<buffer, seen>>
        BY <1>6
    <2> QED BY ONLY StatsInv, f \in Flushes, <1>8, <1>9, <1>10, <2>1, <2>2, FlushMoves
<1>12. FlushOK(f)'
    <2>1. flush'[f] = new
        BY <1>8 DEF StatsInv, StatsTyped
    <2>2. Lists(new)
        BY <1>3, <1>4, <1>8 DEF Lists, Once, NamesAll
    <2> QED BY <1>3, <1>5, <1>8, <2>1, <2>2 DEF FlushOK, TrimFinds
<1>13. FlushesOK'
    BY <1>6, <1>8, <1>12, OthersKeep DEF StatsInv, FlushesOK, Lists
<1>14. TrimmedOK'
    BY <1>6 DEF StatsInv, TrimmedOK, RawRows
<1> QED BY <1>11, <1>13, <1>14 DEF StatsInv

\* A flush that leaves its counts.
LEMMA CountsStay ==
    ASSUME StatsInv, NEW f \in Flushes, NEW new \in FlushRow, flush' = [flush EXCEPT ![f] = new],
           new.count = flush[f].count, UNCHANGED <<buffer, raw, stored, seen, broken>>,
           batches' \in Seq(0 .. BatchSize), first' \in 1 .. Len(batches') + 1
    PROVE  StatsTyped' /\ PathsOK' /\ Lists(buffer)'
<1>1. \A p \in Paths : \/ stored'[p] + new.count[p] = stored[p] + flush[f].count[p]
                       \/ stored'[p] + new.count[p] <= stored[p] + flush[f].count[p] /\ p \in broken'
    OBVIOUS
<1>2. UNCHANGED <<buffer, seen>> /\ stored' \in PathCounts /\ raw' \in Nat /\ broken \subseteq broken'
    BY DEF StatsInv, StatsTyped
<1>3. StatsTyped' /\ PathsOK'
    BY <1>1, <1>2, FlushMoves
<1> QED BY <1>3 DEF StatsInv, FlushesOK, Lists

\* A flush with no path to write has no counts either.
LEMMA NothingToWrite ==
    ASSUME StatsInv, NEW f \in Flushes, flush[f].at # "bucket"
    PROVE  flush[f].order = <<>> /\ flush[f].count = Zero
<1>1. PICK row \in FlushRow, c \in PathCounts : row = flush[f] /\ row.count = c
    BY DEF StatsInv, StatsTyped, FlushRow
<1>2. row.order = <<>> /\ Lists(row)
    BY <1>1 DEF StatsInv, FlushesOK, FlushOK
<1>3. Len(row.order) = 0
    BY <1>2
<1>4. \A p \in Paths : c[p] = 0
    BY <1>1, <1>2, <1>3 DEF Lists, NamesAll
<1>5. c = Zero
    BY <1>4 DEF PathCounts, Zero
<1> QED BY <1>1, <1>2, <1>5

\* A batch of raw entries is written.
LEMMA RowsInserted ==
    ASSUME StatsInv, NEW f \in Flushes, InsertRaw(f)
    PROVE  StatsInv'
<1>1. PICK n : /\ n = IF flush[f].raw < BatchSize THEN flush[f].raw ELSE BatchSize
               /\ batches' = Append(batches, n)
               /\ flush' = [flush EXCEPT ![f].raw = @ - n, ![f].at = IF flush[f].raw = n THEN "count" ELSE "raw"]
    BY DEF InsertRaw
<1>2. flush[f].raw \in Nat /\ flush \in [Flushes -> FlushRow] /\ flush[f] \in FlushRow
    BY DEF StatsInv, StatsTyped, FlushRow
<1>3. n \in 0 .. BatchSize /\ flush[f].raw - n \in Nat
    BY <1>1, <1>2, StatsAssumption
<1>4. PICK r \in Nat, a \in {"raw", "count"} : r = flush[f].raw - n /\ a = IF flush[f].raw = n THEN "count" ELSE "raw"
    BY <1>3
<1>5. PICK new : new = [flush[f] EXCEPT !.raw = r, !.at = a]
    OBVIOUS
<1>6. /\ new \in FlushRow /\ new.order = flush[f].order /\ new.count = flush[f].count /\ new.at = a
      /\ flush' = [flush EXCEPT ![f] = new]
    <2>1. a \in {"none", "bucket", "raw", "count", "trim"}
        OBVIOUS
    <2>2. new \in FlushRow /\ new.order = flush[f].order /\ new.count = flush[f].count /\ new.at = a
        BY ONLY r \in Nat, <1>2, <1>5, <2>1 DEF FlushRow
    <2>3. flush' = [flush EXCEPT ![f].raw = r, ![f].at = a]
        BY <1>1, <1>2, <1>4
    <2>4. [flush EXCEPT ![f].raw = r, ![f].at = a] = [flush EXCEPT ![f] = new]
        BY ONLY f \in Flushes, <1>2, <1>5
    <2> QED BY <2>2, <2>3, <2>4
<1>7. batches' \in Seq(0 .. BatchSize) /\ Len(batches') = Len(batches) + 1 /\ Len(batches) \in Nat
    BY <1>1, <1>3 DEF StatsInv, StatsTyped
<1>8. UNCHANGED <<buffer, raw, stored, first, seen, broken>> /\ trimmed' = FALSE
    BY DEF InsertRaw
<1>9. first' \in 1 .. Len(batches') + 1
    BY <1>7, <1>8 DEF StatsInv, StatsTyped
<1>10. StatsTyped' /\ PathsOK' /\ Lists(buffer)'
    BY <1>6, <1>7, <1>8, <1>9, CountsStay
<1>11. ASSUME NEW g \in Flushes PROVE FlushOK(g)'
    <2>1. CASE g # f
        <3>1. flush'[g] = flush[g] /\ FlushOK(g)
            BY <1>6, <2>1 DEF StatsInv, StatsTyped, FlushesOK
        <3>2. flush[g].at = "trim" => flush[g].top <= Len(batches) /\ flush[g].cut \in 1 .. Len(batches)
            BY <3>1 DEF FlushOK, TrimFinds
        <3>3. flush[g].top \in Nat
            BY DEF StatsInv, StatsTyped, FlushRow
        <3>4. flush[g].at = "trim" => /\ flush[g].top <= Len(batches') /\ flush[g].top # Len(batches')
                                      /\ flush[g].cut \in 1 .. Len(batches')
            BY <1>7, <3>2, <3>3
        <3> QED BY <3>1, <3>4 DEF FlushOK, TrimFinds
    <2>2. CASE g = f
        <3>1. flush'[f] = new /\ flush[f].at = "raw" /\ Lists(flush[f]) /\ flush[f].order = <<>>
            BY <1>6 DEF StatsInv, StatsTyped, FlushesOK, FlushOK, InsertRaw
        <3>2. a # "bucket" /\ a # "none" /\ a # "trim"
            BY <1>4
        <3>3. Lists(new)
            BY <1>6, <3>1 DEF Lists
        <3> QED BY <1>6, <2>2, <3>1, <3>2, <3>3 DEF FlushOK, TrimFinds
    <2> QED BY <2>1, <2>2
<1>12. TrimmedOK'
    BY <1>8 DEF TrimmedOK
<1> QED BY <1>10, <1>11, <1>12 DEF StatsInv, FlushesOK

\* A flush that ends, its raw entries written or not, has written its paths.
LEMMA FlushEnds ==
    ASSUME StatsInv, NEW f \in Flushes, flush[f].at # "bucket", flush' = [flush EXCEPT ![f] = NoFlush],
           UNCHANGED <<buffer, raw, stored, batches, seen, broken>>, first' \in 1 .. Len(batches) + 1
    PROVE  StatsTyped' /\ PathsOK' /\ FlushesOK'
<1>1. batches' \in Seq(0 .. BatchSize) /\ first' \in 1 .. Len(batches') + 1
    BY DEF StatsInv, StatsTyped
<1>2. NoFlush \in FlushRow /\ NoFlush.count = flush[f].count
    BY EmptyLists, NothingToWrite
<1>3. StatsTyped' /\ PathsOK' /\ Lists(buffer)'
    BY <1>1, <1>2, CountsStay
<1>4. flush'[f] = NoFlush
    BY DEF StatsInv, StatsTyped
<1>5. FlushOK(f)'
    BY <1>4, EmptyLists DEF FlushOK, TrimFinds
<1>6. \A g \in Flushes : FlushOK(g)'
    BY <1>2, <1>5, OthersKeep
<1> QED BY <1>3, <1>6 DEF FlushesOK

\* The rows are counted; if they are too many, the oldest to keep is found.
LEMMA PathCounted ==
    ASSUME StatsInv, NEW f \in Flushes, CountRaw(f)
    PROVE  StatsInv'
<1>1. /\ flush[f].at = "count" /\ UNCHANGED <<buffer, raw, stored, batches, first, seen, broken>>
      /\ trimmed' = (trimmed \/ RawRows(first) <= RawLimit)
    BY DEF CountRaw
<1>2. batches \in Seq(0 .. BatchSize) /\ first \in 1 .. Len(batches) + 1 /\ RawRows(first) \in Nat
    BY RowsAre DEF StatsInv, StatsTyped
<1>3. TrimmedOK'
    <2>1. RawRows(first)' = RawRows(first)
        BY <1>1 DEF RawRows
    <2>2. RawRows(first) <= RawLimit => RawRows(first) <= RawLimit + BatchSize
        BY <1>2, StatsAssumption
    <2> QED BY <1>1, <2>1, <2>2 DEF StatsInv, TrimmedOK
<1>4. CASE ~(RawRows(first) > RawLimit)
    <2>1. flush' = [flush EXCEPT ![f] = NoFlush]
        BY <1>4 DEF CountRaw
    <2>2. StatsTyped' /\ PathsOK' /\ FlushesOK'
        BY <1>1, <1>2, <2>1, FlushEnds
    <2> QED BY <1>3, <2>2 DEF StatsInv
<1>5. CASE RawRows(first) > RawLimit
    <2>1. PICK a \in {"none", "bucket", "raw", "count", "trim"} : a = "trim"
        OBVIOUS
    <2>2. PICK c \in 1 .. Len(batches) : c = Cutoff /\ RawRows(c) <= RawLimit + BatchSize
        BY <1>2, <1>5, CutoffIs
    <2>3. PICK n \in Nat : n = Len(batches)
        BY <1>2
    <2>4. flush \in [Flushes -> FlushRow] /\ flush[f] \in FlushRow
        BY DEF StatsInv, StatsTyped
    <2>5. PICK new : new = [flush[f] EXCEPT !.at = a, !.cut = c, !.top = n]
        OBVIOUS
    <2>6. flush' = [flush EXCEPT ![f] = new]
        BY <1>5, <2>1, <2>2, <2>3, <2>4, <2>5 DEF CountRaw
    <2>7. c \in Nat
        OBVIOUS
    <2>8. /\ new \in FlushRow /\ new.order = flush[f].order /\ new.count = flush[f].count /\ new.at = a
          /\ new.cut = c /\ new.top = n
        BY ONLY a \in {"none", "bucket", "raw", "count", "trim"}, n \in Nat, <2>4, <2>5, <2>7 DEF FlushRow
    <2>9. batches' \in Seq(0 .. BatchSize) /\ first' \in 1 .. Len(batches') + 1
        BY <1>1, <1>2
    <2>10. StatsTyped' /\ PathsOK' /\ Lists(buffer)'
        BY <1>1, <2>6, <2>8, <2>9, CountsStay
    <2>11. FlushOK(f)'
        <3>1. flush'[f] = new /\ Lists(flush[f]) /\ flush[f].order = <<>>
            BY <1>1, <2>4, <2>6 DEF StatsInv, FlushesOK, FlushOK
        <3>2. Lists(new)
            BY <2>8, <3>1 DEF Lists
        <3>3. RawRows(c)' = RawRows(c)
            BY <1>1 DEF RawRows
        <3>4. new.top <= Len(batches') /\ new.cut \in 1 .. Len(batches')
            BY <1>1, <2>3, <2>8
        <3> QED BY <1>1, <2>1, <2>2, <2>8, <3>1, <3>2, <3>3, <3>4 DEF FlushOK, TrimFinds, RawRows
    <2>12. \A g \in Flushes : FlushOK(g)'
        BY <1>1, <2>6, <2>8, <2>11, OthersKeep
    <2> QED BY <1>3, <2>10, <2>12 DEF StatsInv, FlushesOK
<1> QED BY <1>4, <1>5

\* What is older than the cut is deleted.
LEMMA TrimKeeps ==
    ASSUME StatsInv, NEW f \in Flushes, TrimRaw(f)
    PROVE  StatsInv'
<1>1. /\ flush[f].at = "trim" /\ flush' = [flush EXCEPT ![f] = NoFlush]
      /\ UNCHANGED <<buffer, raw, stored, batches, seen, broken>>
      /\ trimmed' = (trimmed \/ flush[f].top = Len(batches))
    BY DEF TrimRaw
<1>2. PICK c \in 1 .. Len(batches) + 1, i \in 1 .. Len(batches) + 1, j \in 1 .. Len(batches) + 1 :
        /\ c = flush[f].cut /\ i = first /\ j = first' /\ j = IF c > i THEN c ELSE i
    <2>1. flush[f].cut \in 1 .. Len(batches) /\ first \in 1 .. Len(batches) + 1 /\ Len(batches) \in Nat
        BY <1>1 DEF StatsInv, StatsTyped, FlushesOK, FlushOK, TrimFinds
    <2>2. first' = IF flush[f].cut > first THEN flush[f].cut ELSE first
        BY DEF TrimRaw
    <2>3. flush[f].cut \in 1 .. Len(batches) + 1 /\ first' \in 1 .. Len(batches) + 1
        BY <2>1, <2>2
    <2> QED BY <2>1, <2>2, <2>3
<1>3. StatsTyped' /\ PathsOK' /\ FlushesOK'
    BY <1>1, <1>2, FlushEnds
<1>4. TrimmedOK'
    <2>1. i <= j /\ c <= j
        BY <1>2
    <2>2. RawRows(j) <= RawRows(i) /\ RawRows(j) <= RawRows(c)
        BY <2>1, RowsAre DEF StatsInv, StatsTyped
    <2>3. RawRows(i) \in Nat /\ RawRows(j) \in Nat /\ RawRows(c) \in Nat
        BY RowsAre DEF StatsInv, StatsTyped
    <2>4. flush[f].top = Len(batches) => RawRows(c) <= RawLimit + BatchSize
        BY <1>1, <1>2 DEF StatsInv, FlushesOK, FlushOK, TrimFinds
    <2>5. trimmed => RawRows(i) <= RawLimit + BatchSize
        BY <1>2 DEF StatsInv, TrimmedOK
    <2>6. ASSUME RawRows(i) <= RawLimit + BatchSize \/ RawRows(c) <= RawLimit + BatchSize
          PROVE  RawRows(j) <= RawLimit + BatchSize
        BY <2>2, <2>3, <2>6, StatsAssumption
    <2>7. trimmed' => RawRows(j) <= RawLimit + BatchSize
        BY <1>1, <2>4, <2>5, <2>6
    <2>8. RawRows(first)' = RawRows(j)
        BY <1>1, <1>2 DEF RawRows
    <2> QED BY <2>7, <2>8 DEF TrimmedOK
<1> QED BY <1>3, <1>4 DEF StatsInv

\* The rest of the raw entries is dropped.
LEMMA RawFailsKeeps ==
    ASSUME StatsInv, NEW f \in Flushes, RawFails(f)
    PROVE  StatsInv'
<1>1. /\ flush[f].at # "bucket" /\ flush' = [flush EXCEPT ![f] = NoFlush]
      /\ UNCHANGED <<buffer, raw, stored, batches, first, seen, broken, trimmed>>
    BY DEF RawFails
<1>2. StatsTyped' /\ PathsOK' /\ FlushesOK'
    BY <1>1, FlushEnds DEF StatsInv, StatsTyped
<1>3. TrimmedOK'
    BY <1>1 DEF StatsInv, TrimmedOK, RawRows
<1> QED BY <1>2, <1>3 DEF StatsInv

\* The steps of the counters.
LEMMA CountingKeeps ==
    ASSUME StatsInv, Counting
    PROVE  StatsInv'
BY RespondKeeps, TakeKeeps, BucketWritten, StoreFailsKeeps, RowsInserted, PathCounted, TrimKeeps, RawFailsKeeps DEF Counting

\* The worker stops, and all that was in memory is gone.
LEMMA CountersEndKeeps ==
    ASSUME StatsInv, CountersEnd
    PROVE  StatsInv'
<1>1. /\ buffer' = Empty /\ raw' = 0 /\ flush' = [f \in Flushes |-> NoFlush]
      /\ UNCHANGED <<stored, batches, first, seen, trimmed>>
    BY DEF CountersEnd
<1>2. flush' \in [Flushes -> FlushRow] /\ \A f \in Flushes : flush'[f] = NoFlush
    BY <1>1, EmptyLists
<1>3. StatsTyped'
    BY <1>1, <1>2, EmptyLists DEF StatsInv, StatsTyped
<1>4. FlushesOK'
    BY <1>1, <1>2, EmptyLists DEF FlushesOK, FlushOK, TrimFinds
<1>5. ASSUME NEW p \in Paths PROVE Accounts(p)'
    <2>1. PICK it : it = [f \in Flushes |-> 0] /\ IsFiniteSet(Flushes)
        BY StatsAssumption
    <2>2. InFlight(p)' = 0
        <3>1. PICK b : b = [g \in Flushes |-> flush'[g].count[p]] /\ InFlight(p)' = SumFunctionOnSet(b, Flushes)
            BY DEF InFlight, SumFunction
        <3>2. \A g \in Flushes : b[g] = 0
            BY <1>2, <3>1, EmptyLists
        <3> QED BY <2>1, <3>1, <3>2, SumOfZeros
    <2>3. /\ InFlight(p) \in Nat
          /\ (\A f \in Flushes : flush[f].count[p] = 0) => InFlight(p) = 0
        BY FlightStays DEF StatsInv, StatsTyped
    <2>4. PICK s \in Nat, b \in Nat, n \in Nat : s = stored[p] /\ b = buffer.count[p] /\ n = seen[p]
        BY DEF StatsInv, StatsTyped, BufferRow, PathCounts
    <2>5. s + b + InFlight(p) <= n /\ (s + b + InFlight(p) = n \/ p \in broken)
        BY <2>4 DEF StatsInv, PathsOK, Accounts, Tallied
    <2>6. p \in broken' \/ (b = 0 /\ InFlight(p) = 0)
        <3>1. SUFFICES ASSUME p \notin broken' PROVE b = 0 /\ InFlight(p) = 0
            OBVIOUS
        <3>2. ~(buffer.count[p] > 0) /\ \A f \in Flushes : ~(flush[f].count[p] > 0)
            BY <3>1 DEF CountersEnd
        <3>3. \A f \in Flushes : flush[f].count[p] \in Nat
            BY DEF StatsInv, StatsTyped, FlushRow, PathCounts
        <3> QED BY <2>3, <2>4, <3>2, <3>3
    <2>7. p \in broken => p \in broken'
        BY DEF CountersEnd
    <2>8. s <= n /\ (s = n \/ p \in broken')
        BY <2>3, <2>4, <2>5, <2>6, <2>7
    <2>9. Tallied(p)' = s /\ seen'[p] = n
        <3>1. Tallied(p)' = s + 0 + 0
            BY <1>1, <2>2, <2>4, EmptyLists DEF Tallied, Empty
        <3> QED BY <1>1, <2>4, <3>1
    <2> QED BY <2>8, <2>9 DEF Accounts
<1>6. TrimmedOK'
    BY <1>1 DEF StatsInv, TrimmedOK, RawRows
<1> QED BY <1>3, <1>4, <1>5, <1>6 DEF StatsInv, PathsOK

\* A project that is deleted takes its raw log along.
LEMMA RawLogsGone ==
    ASSUME StatsInv, NEW w \in Workers, DeleteRawLogs(w)
    PROVE  StatsInv'
<1>1. first' = Len(batches) + 1 /\ UNCHANGED <<buffer, raw, flush, stored, batches, seen, broken, trimmed>>
    BY DEF DeleteRawLogs
<1>2. Len(batches) \in Nat /\ batches \in Seq(0 .. BatchSize)
    BY DEF StatsInv, StatsTyped
<1>3. StatsTyped'
    BY <1>1, <1>2 DEF StatsInv, StatsTyped
<1>4. FlushesOK' /\ PathsOK'
    BY <1>1 DEF StatsInv, FlushesOK, FlushOK, TrimFinds, RawRows, PathsOK, Accounts, Tallied, InFlight
<1>5. RawRows(first)' = RawRows(Len(batches) + 1)
    BY <1>1 DEF RawRows
<1>6. TrimmedOK'
    BY <1>2, <1>5, RowsAre, StatsAssumption DEF TrimmedOK
<1> QED BY <1>3, <1>4, <1>6 DEF StatsInv

\* A step of a deletion leaves the counters alone but for that.
LEMMA DeletionCounts ==
    ASSUME NEW w \in Workers, Deletion(w)
    PROVE  UNCHANGED statVars \/ DeleteRawLogs(w)
<1>1. CASE DropSchema(w)
    BY <1>1 DEF DropSchema
<1>2. CASE FileDeletion(w) /\ UNCHANGED <<projectVars, tokenVars, hookVars, monVars, statVars, studioVars, playerVars>>
    BY <1>2
<1>3. CASE RowDeletion(w)
    BY <1>3 DEF RowDeletion, DeleteProject, FindProject, DeletePlugins, DeleteHooks, DeleteTokenRows, PluckHashes, DeleteKey,
                DeleteStepFails, DeleteKeysFail, DeleteRow, DeleteFails
<1> QED BY <1>1, <1>2, <1>3 DEF Deletion

\* No step disturbs the counters.
LEMMA StatsNext ==
    ASSUME StatsInv, [Next]_vars
    PROVE  StatsInv'
<1>1. CASE UNCHANGED statVars
    BY <1>1 DEF statVars, StatsInv, StatsTyped, FlushesOK, FlushOK, TrimFinds, RawRows, PathsOK, Accounts, Tallied,
                InFlight, TrimmedOK
<1>2. ASSUME NEW w \in Workers, Deletion(w) PROVE StatsInv'
    BY <1>1, <1>2, DeletionCounts, RawLogsGone
<1>3. CASE Counting
    BY <1>3, CountingKeeps
<1>4. CASE Restart
    <2>1. CountersEnd
        BY <1>4 DEF Restart
    <2> QED BY <2>1, CountersEndKeeps
<1>5. CASE RedisLost
    BY <1>1, <1>5 DEF RedisLost
<1>6. CASE UNCHANGED vars
    BY <1>1, <1>6 DEF vars
<1> QED BY <1>1, <1>2, <1>3, <1>4, <1>5, <1>6 DEF Next

\* A request is counted at most once, and lost only with a flush that failed or a worker that
\* stopped, whatever flushes overlap; and a raw log that has been trimmed is bounded: for any
\* number of paths and of flushes at once (the request logger's flushStats and its trimming).
THEOREM RequestsAreCounted == Spec => []FlushExplained
<1>1. Init => StatsInv
    BY StatsStart DEF Init
<1>2. StatsInv /\ [Next]_vars => StatsInv'
    BY StatsNext
<1>3. StatsInv => FlushExplained
    <2>1. ASSUME StatsInv, NEW p \in Paths
          PROVE  /\ stored[p] + buffer.count[p] + InFlight(p) <= seen[p]
                 /\ stored[p] + buffer.count[p] + InFlight(p) = seen[p] \/ p \in broken
        BY <2>1 DEF StatsInv, PathsOK, Accounts, Tallied
    <2>2. ASSUME StatsInv, trimmed PROVE RawRows(first) <= RawLimit + BatchSize
        BY <2>2 DEF StatsInv, TrimmedOK
    <2> QED BY <2>1, <2>2 DEF FlushExplained
<1> QED BY <1>1, <1>2, <1>3, PTL DEF Spec

----------------------------------------------------------------------------
(***************************************************************************)
(* Types.  What is no object of the control plane is on no request and     *)
(* never in doubt, for every request is about objects that there are; the  *)
(* rest is part of the invariants of the components.                       *)
(***************************************************************************)
Unknown(o) == RequestsOf({}, {o}) /\ o \notin doubt
ObjectsKnown == \A o : o \notin Objects => Unknown(o)
FilesHeld == disk \cup fileRows \subseteq Files

\* A request names what its own component has.
Names(w) ==
    req[w] # NoReq =>
        /\ req[w].op \in TokenOps \ {"restore tokens"} => req[w].data.t \in Tokens
        /\ req[w].op \in MonOps => req[w].data.m \in Monitors
        /\ req[w].op \in FileOps => req[w].data.f \in Files
        /\ req[w].op = "login" => req[w].data.p \in Players
AllNamed == \A w \in Workers : Names(w)

\* The invariants of the components say so.
LEMMA RequestsName ==
    ASSUME TokensInv, MonInv, FilesInv, PlayersInv
    PROVE  AllNamed
<1>1. ASSUME NEW w \in Workers, req[w] # NoReq PROVE Names(w)
    <2>1. ASSUME req[w].op \in TokenOps \ {"restore tokens"} PROVE req[w].data.t \in Tokens
        <3>1. req[w].data \in [t : Tokens, new : TokenRow]
            BY <1>1, <2>1 DEF TokensInv, TokenRequests, TokenRequest, TokenOps
        <3> QED BY <3>1
    <2>2. ASSUME req[w].op \in MonOps PROVE req[w].data.m \in Monitors
        <3>1. AskOK(req[w])
            BY <1>1, <2>2 DEF MonInv, ReqsOK, ReqOK, StartOK, Elsewhere, Foreign, MonitorOps, MonOps
        <3>2. req[w].data \in [m : Monitors, new : MonRow]
            BY <3>1 DEF AskOK
        <3> QED BY <3>2
    <2>3. ASSUME req[w].op \in FileOps PROVE req[w].data.f \in Files
        <3>1. req[w].data \in [f : Files] \/ req[w].data \in [f : Files, unlinked : BOOLEAN]
            BY <1>1, <2>3 DEF FilesInv, FileRequests, FileRequest, FileOps
        <3> QED BY <3>1
    <2>4. ASSUME req[w].op = "login" PROVE req[w].data.p \in Players
        <3>1. req[w].data \in [p : Players, key : Nat]
            BY <1>1, <2>4 DEF PlayersInv, PlayerRequests, PlayerRequest, Ours, PlayerWork
        <3> QED BY <3>1
    <2> QED BY <2>1, <2>2, <2>3, <2>4 DEF Names
<1> QED BY <1>1 DEF AllNamed, Names

\* The files held are files, each put there by its upload.
LEMMA FilesHeldStay ==
    ASSUME FilesHeld, AllNamed, [Next]_vars
    PROVE  FilesHeld'
<1>1. CASE UNCHANGED fileVars
    BY <1>1 DEF FilesHeld, fileVars
<1>2. ASSUME NEW w \in Workers, FileStep(w) PROVE FilesHeld'
    <2>1. CASE Upload(w) \/ RemoveFile(w) \/ FindFile(w) \/ UnlinkFails(w)
        BY <1>1, <2>1 DEF Upload, RemoveFile, FindFile, UnlinkFails
    <2>2. CASE WriteFile(w) \/ InsertFile(w) \/ UploadFails(w)
        <3>1. req[w].data.f \in Files
            BY <2>2 DEF WriteFile, InsertFile, UploadFails, At, AllNamed, Names, FileOps
        <3> QED BY <2>2, <3>1 DEF WriteFile, InsertFile, UploadFails, FilesHeld
    <2>3. CASE Unlink(w) \/ DeleteFile(w) \/ RemoveFileFails(w)
        BY <2>3 DEF Unlink, DeleteFile, RemoveFileFails, FilesHeld
    <2> QED BY <1>2, <2>1, <2>2, <2>3 DEF FileStep
<1>3. ASSUME NEW w \in Workers, FileDeletion(w) PROVE FilesHeld'
    BY <1>3 DEF FileDeletion, DeleteFiles, DeleteFileRows, KeepFile, DeleteFilesFail, RemoveUploads, RemoveUploadsFails,
                DropFiles, DropFileRows, DropUploads, fileVars, FilesHeld
<1> QED BY <1>1, <1>2, <1>3 DEF Next, vars, Deletion, Restart, RedisLost

\* What is no object at all.
LEMMA NoObject ==
    ASSUME NEW o, o \notin Objects
    PROVE  /\ \A t \in Tokens : TokenObject(t) # o
           /\ \A m \in Monitors : MonObject(m) # o
           /\ \A s \in Sessions : SessionObject(s) # o
           /\ \A f \in Files : FileObject(f) # o
           /\ \A p \in Players : PlayerObject(p) # o
           /\ ProjectObject # o /\ PluginObject # o /\ SwitchObject # o /\ LayoutObject # o
           /\ o \notin TokenObjects /\ o \notin Deleted /\ o \notin MonObjects
BY DEF Objects, TokenObjects, MonObjects, SessionObjects, FileObjects, PlayerObjects, Deleted

\* A step that is aside for it leaves it unknown.
LEMMA UnknownAside ==
    ASSUME NEW o, Unknown(o), Aside({}, {o})
    PROVE  Unknown(o)'
BY AsideKnows DEF Unknown, Aside

\* No step brings an object up that is none.
LEMMA UnknownStays ==
    ASSUME AllNamed, FilesHeld, NEW o, o \notin Objects, Unknown(o), [Next]_vars
    PROVE  Unknown(o)'
<1>1. RequestsOf({}, {o})
    BY DEF Unknown
<1>2. /\ \A t \in Tokens : TokenObject(t) \notin {o}
      /\ \A m \in Monitors : MonObject(m) \notin {o}
      /\ \A s \in Sessions : SessionObject(s) \notin {o}
      /\ \A f \in Files : FileObject(f) \notin {o}
      /\ \A p \in Players : PlayerObject(p) \notin {o}
      /\ ProjectObject \notin {o} /\ PluginObject \notin {o} /\ SwitchObject \notin {o} /\ LayoutObject \notin {o}
      /\ TokenObjects \cap {o} = {} /\ Deleted \cap {o} = {} /\ MonObjects \cap {o} = {}
    BY NoObject
<1>3. CASE UNCHANGED vars
    BY <1>3 DEF vars, baseVars, Unknown, RequestsOf
<1>4. ASSUME NEW w \in Workers, TokenStep(w) PROVE Unknown(o)'
    <2>1. (req[w] # NoReq /\ req[w].op \in TokenOps \ {"restore tokens"}) => TokenObject(req[w].data.t) \notin {o}
        BY <1>2 DEF AllNamed, Names
    <2>2. Aside({}, {o})
        BY <1>1, <1>2, <1>4, <2>1, TokenStepMisses
    <2> QED BY <2>2, UnknownAside
<1>5. ASSUME NEW w \in Workers, MonitorStep(w) PROVE Unknown(o)'
    <2>1. (req[w] # NoReq /\ req[w].op \in MonOps) => MonObject(req[w].data.m) \notin {o}
        BY <1>2 DEF AllNamed, Names
    <2>2. Aside({}, {o})
        BY <1>1, <1>2, <1>5, <2>1, MonitorStepMisses
    <2> QED BY <2>2, UnknownAside
<1>6. ASSUME NEW w \in Workers, FileStep(w) PROVE Unknown(o)'
    <2>1. (req[w] # NoReq /\ req[w].op \in FileOps) => FileObject(req[w].data.f) \notin {o}
        BY <1>2 DEF AllNamed, Names
    <2>2. Aside({}, {o})
        BY <1>1, <1>2, <1>6, <2>1, FileStepMisses
    <2> QED BY <2>2, UnknownAside
<1>7. ASSUME NEW w \in Workers, PlayerStep(w) PROVE Unknown(o)'
    <2>1. (req[w] # NoReq /\ req[w].op = "login") => PlayerObject(req[w].data.p) \notin {o}
        BY <1>2 DEF AllNamed, Names
    <2>2. Aside({}, {o})
        BY <1>1, <1>2, <1>7, <2>1, PlayerStepMisses
    <2> QED BY <2>2, UnknownAside
<1>8. ASSUME NEW w \in Workers, StudioStep(w) \/ HookStep(w) \/ QuotaStep(w) \/ ProjectStep(w) PROVE Unknown(o)'
    <2>1. Aside({}, {o})
        BY <1>1, <1>2, <1>8, StudioStepMisses, HookStepAside, QuotaStepAside, ProjectStepAside
    <2> QED BY <2>1, UnknownAside
<1>9. ASSUME NEW w \in Workers, Deletion(w) PROVE Unknown(o)'
    <2>1. \A f \in disk : FileObject(f) \notin {o}
        BY <1>2 DEF FilesHeld
    <2>2. Aside({}, {o})
        BY <1>1, <1>2, <1>9, <2>1, DeletionMisses
    <2> QED BY <2>2, UnknownAside
<1>10. ASSUME \/ StudioStatement \/ TokenTime \/ Delivery \/ MonitorTimers \/ Counting
              \/ QuotaTime \/ PlayerTime \/ ForgetProject \/ RedisLost
       PROVE Unknown(o)'
    <2>1. Aside({}, {o})
        BY <1>1, <1>2, <1>10, StatementMisses, OthersAside, RedisLostAside
    <2> QED BY <2>1, UnknownAside
<1>11. ASSUME Restart PROVE Unknown(o)'
    <2>1. RequestsOf({}, {o})' /\ doubt' = (doubt \cup Cut) \ MonObjects
        BY <1>1, <1>2, <1>11, RestartRequests
    <2>2. ASSUME NEW w \in Workers, req[w] # NoReq PROVE o \notin CutOff(req[w])
        <3>1. o \notin req[w].on
            BY <1>1, <2>2 DEF RequestsOf
        <3>2. o \notin {ProjectObject, PluginObject} \cup TokenObjects \cup FileObjects /\ o # LayoutObject
            BY <1>2 DEF Deleted
        <3> QED BY <3>1, <3>2 DEF CutOff
    <2>3. o \notin Cut
        BY <2>2 DEF Cut
    <2> QED BY <2>1, <2>3 DEF Unknown
<1> QED BY <1>3, <1>4, <1>5, <1>6, <1>7, <1>8, <1>9, <1>10, <1>11 DEF Next

----------------------------------------------------------------------------
\* A limit that is held anywhere is one of the control plane's, or 0 for none.
Offers == Limits \cup {0}
Within(w) == (Ours(QuotaOps, w) /\ req[w].op = "serve") => req[w].data.limit \in Offers
StoresWithin == limit \in Limits /\ quotaKey.limit \in Offers /\ refresh.got \in Offers
LimitsHeld == StoresWithin /\ \A w \in Workers : Within(w)

\* A limit is a number.
LEMMA OffersAre == Offers \subseteq Nat /\ 0 \in Offers /\ Limits \subseteq Offers
BY LimitsArePositive DEF Offers

\* Where nothing changes but the stores, they say it all.
LEMMA StaysWithin ==
    ASSUME LimitsHeld, StoresWithin', \A w \in Workers : Stays(QuotaOps, w)
    PROVE  LimitsHeld'
BY DEF LimitsHeld, Within, Stays

\* A step that has nothing to do with quotas.
LEMMA AsideWithin ==
    ASSUME QuotaInv, LimitsHeld, Aside(QuotaOps, {}), StoresWithin'
    PROVE  LimitsHeld'
BY AsideStays, StaysWithin DEF QuotaInv

\* One request gets data with a limit of these, or none.
LEMMA OneWithin ==
    ASSUME LimitsHeld, StoresWithin', NEW h \in Workers, \A w \in Workers \ {h} : Stays(QuotaOps, w), Within(h)'
    PROVE  LimitsHeld'
<1>1. ASSUME NEW w \in Workers, w # h PROVE Within(w)'
    BY <1>1 DEF LimitsHeld, Within, Stays
<1> QED BY <1>1 DEF LimitsHeld

\* A request that moves on has read the quota, or fetched it, or neither.
LEMMA ServeWithin ==
    ASSUME QuotaInv, LimitsHeld, NEW h \in Workers, ReadQuota(h) \/ Fetch(h) \/ ReadQuotaFails(h)
    PROVE  LimitsHeld'
<1>1. Ours(QuotaOps, h) /\ req[h].op = "serve" /\ req[h] # NoReq /\ Within(h)
    BY DEF ReadQuota, Fetch, ReadQuotaFails, At, Ours, QuotaOps, LimitsHeld
<1>2. PICK d \in ServeData : d = req[h].data /\ d.limit \in Offers
    BY <1>1 DEF QuotaInv, QuotaRequest, Within
<1> DEFINE Goes == \E at, data : (Go(h, at, data) \/ Swallow(h, at, data, {})) /\ data.limit \in Offers
<1>2a. Goes
    <2>1. ASSUME NEW x PROVE [d EXCEPT !.limit = x].limit = x
        BY <1>2 DEF ServeData
    <2>2. ASSUME NEW x, NEW y PROVE [d EXCEPT !.limit = x, !.since = y].limit = x
        BY <1>2 DEF ServeData
    <2>3. ASSUME NEW x PROVE [d EXCEPT !.of = x].limit = d.limit
        BY <1>2 DEF ServeData
    <2>4. limit \in Offers /\ quotaKey.limit \in Offers /\ 0 \in Offers
        BY OffersAre DEF LimitsHeld, StoresWithin
    <2>5. CASE ReadQuota(h)
        <3>1. \/ Go(h, "count", [d EXCEPT !.limit = quotaKey.limit])
              \/ Go(h, "fetch", d) \/ Go(h, "wait", [d EXCEPT !.of = fetching])
            BY <1>2, <2>5 DEF ReadQuota, GoOn
        <3>2. ASSUME Go(h, "count", [d EXCEPT !.limit = quotaKey.limit]) PROVE Goes
            <4>1. PICK at, data : Go(h, at, data) /\ data = [d EXCEPT !.limit = quotaKey.limit]
                BY <3>2
            <4>2. data.limit \in Offers
                BY <2>1, <2>4, <4>1
            <4> QED BY <4>1, <4>2
        <3>3. ASSUME Go(h, "fetch", d) PROVE Goes
            <4>1. PICK at : Go(h, at, d)
                BY <3>3
            <4> QED BY <1>2, <4>1
        <3>4. ASSUME Go(h, "wait", [d EXCEPT !.of = fetching]) PROVE Goes
            <4>1. PICK at, data : Go(h, at, data) /\ data = [d EXCEPT !.of = fetching]
                BY <3>4
            <4>2. data.limit \in Offers
                BY <1>2, <2>3, <4>1
            <4> QED BY <4>1, <4>2
        <3> QED BY <3>1, <3>2, <3>3, <3>4
    <2>6. CASE Fetch(h)
        <3>1. PICK got \in {limit, 0} : \/ Go(h, "store", [d EXCEPT !.limit = got, !.since = notices])
                                        \/ Swallow(h, "store", [d EXCEPT !.limit = got, !.since = notices], {})
            BY <1>2, <2>6 DEF Fetch
        <3>2. PICK at, data : (Go(h, at, data) \/ Swallow(h, at, data, {})) /\ data = [d EXCEPT !.limit = got, !.since = notices]
            BY <3>1
        <3>3. data.limit = got
            BY <2>2, <3>2
        <3> QED BY <2>4, <3>1, <3>2, <3>3
    <2>7. CASE ReadQuotaFails(h)
        <3>1. Swallow(h, "count", [d EXCEPT !.limit = 0], {})
            BY <1>2, <2>7 DEF ReadQuotaFails
        <3> QED BY <2>1, <2>4, <3>1
    <2> QED BY <2>5, <2>6, <2>7
<1>3. PICK at, data : (Go(h, at, data) \/ Swallow(h, at, data, {})) /\ data.limit \in Offers
    BY <1>2a
<1>4. Put(h, Moved(req[h], at, data))
    BY <1>1, <1>3, GoPuts DEF QuotaInv, TypedRequests
<1>5. req'[h].data = data /\ \A w \in Workers \ {h} : req'[w] = req[w]
    BY <1>4 DEF Put, Moved
<1>6. Within(h)' /\ \A w \in Workers \ {h} : Stays(QuotaOps, w)
    BY <1>3, <1>5 DEF Within, Stays, Ours
<1>7. StoresWithin'
    <2>1. UNCHANGED <<limit, quotaKey>>
        BY DEF ReadQuota, Fetch, ReadQuotaFails, quotaVars
    <2>2. refresh' = refresh \/ refresh' = [NoRefresh EXCEPT !.at = "fetch"]
        BY DEF ReadQuota, Fetch, ReadQuotaFails, quotaVars
    <2>3. PICK r : r = [NoRefresh EXCEPT !.at = "fetch"]
        OBVIOUS
    <2>4. r.got = 0
        BY <2>3 DEF NoRefresh
    <2> QED BY <2>1, <2>2, <2>3, <2>4, OffersAre DEF LimitsHeld, StoresWithin
<1> QED BY <1>6, <1>7, OneWithin

\* A fetched limit is kept, and handed on.
LEMMA StoreWithin ==
    ASSUME QuotaInv, LimitsHeld, NEW h \in Workers, StoreQuota(h) \/ StoreQuotaFails(h)
    PROVE  LimitsHeld'
<1>1. At(h, "serve", "store") /\ req[h].data.limit \in Offers
    BY DEF StoreQuota, StoreQuotaFails, At, Ours, QuotaOps, LimitsHeld, Within
<1>2. PICK got \in Offers : AnswerAll(h, got)
    BY <1>1, OffersAre DEF StoreQuota, StoreQuotaFails
<1>3. got \in Nat
    BY OffersAre
<1>4. \A w \in Workers : AnsweredNow(w, got) \/ req'[w] = req[w]
    BY <1>1, <1>2, <1>3, AnswersStay
<1>5. ASSUME NEW w \in Workers PROVE Within(w)'
    BY <1>2, <1>4 DEF LimitsHeld, Within, Ours, AnsweredNow
<1>6. StoresWithin'
    <2>1. UNCHANGED <<limit, refresh>>
        BY DEF StoreQuota, StoreQuotaFails
    <2>2. quotaKey' = quotaKey \/ quotaKey'.limit = req[h].data.limit
        BY DEF StoreQuota, StoreQuotaFails, Keep
    <2> QED BY <1>1, <2>1, <2>2 DEF LimitsHeld, StoresWithin
<1> QED BY <1>5, <1>6 DEF LimitsHeld

\* A request ends, its notice taken or its use counted.
LEMMA EndWithin ==
    ASSUME QuotaInv, LimitsHeld, NEW h \in Workers, Count(h) \/ CountFails(h) \/ Invalidate(h) \/ InvalidateFails(h)
    PROVE  LimitsHeld'
<1>1. Put(h, NoReq) /\ calls' = calls
    BY EndPuts DEF Count, CountFails, Invalidate, InvalidateFails, QuotaInv, TypedRequests
<1>2. req'[h] = NoReq /\ \A w \in Workers \ {h} : req'[w] = req[w]
    BY <1>1 DEF Put
<1>3. Within(h)' /\ \A w \in Workers \ {h} : Stays(QuotaOps, w)
    BY <1>2 DEF Within, Stays, Ours
<1>4. StoresWithin'
    <2>1. UNCHANGED <<limit, refresh>> /\ (quotaKey' = quotaKey \/ quotaKey' = NoQuota)
        BY DEF Count, CountFails, Invalidate, InvalidateFails
    <2>2. NoQuota.limit = 0
        BY DEF NoQuota
    <2> QED BY <2>1, <2>2, OffersAre DEF LimitsHeld, StoresWithin
<1> QED BY <1>3, <1>4, OneWithin

\* A request arrives.
LEMMA ArriveWithin ==
    ASSUME QuotaInv, LimitsHeld, NEW h \in Workers, Serve(h) \/ ChangeQuota(h)
    PROVE  LimitsHeld'
<1>1. PICK op, at, data :
        Arrived(h, op, {}, at, data) /\ op \in QuotaOps /\ (op = "serve" => data.limit = 0)
    <2>1. CASE Serve(h)
        <3>1. PICK data : data = [limit |-> 0, since |-> 0, of |-> h]
            OBVIOUS
        <3>4. data.limit = 0
            BY <3>1
        <3>2. BeginIn("slugs", h, "serve", {}, "quota", data)
            BY <2>1, <3>1 DEF Serve
        <3>3. Arrived(h, "serve", {}, "quota", data)
            BY <3>2, CalledArrives DEF BeginIn, QuotaInv, TypedRequests
        <3> QED BY <3>3, <3>4 DEF QuotaOps
    <2>2. CASE ChangeQuota(h)
        <3>1. Arrived(h, "change quota", {}, "notice", NoData)
            BY <2>2, CalledArrives DEF ChangeQuota, Begin, QuotaInv, TypedRequests
        <3>2. PICK op : Arrived(h, op, {}, "notice", NoData) /\ op = "change quota"
            BY <3>1
        <3>3. op \in QuotaOps /\ op # "serve"
            BY <3>2 DEF QuotaOps
        <3> QED BY <3>2, <3>3
    <2> QED BY <2>1, <2>2
<1>2. req'[h].op = op /\ req'[h].data = data
    BY <1>1 DEF Arrived
<1>3. Within(h)'
    BY <1>1, <1>2, OffersAre DEF Within, Ours
<1>4. ASSUME NEW w \in Workers \ {h} PROVE Within(w)'
    <2>1. CASE req'[w] = req[w]
        BY <2>1 DEF LimitsHeld, Within, Ours
    <2>2. CASE {req[w].op, op} \in Conflicts
        BY <1>1, <2>2 DEF Conflicts, QuotaOps
    <2> QED BY <1>1, <2>1, <2>2 DEF Arrived
<1>5. StoresWithin'
    <2>1. UNCHANGED <<quotaKey, refresh>> /\ limit' \in Limits
        BY DEF Serve, ChangeQuota, quotaVars, LimitsHeld, StoresWithin
    <2> QED BY <2>1 DEF LimitsHeld, StoresWithin
<1> QED BY <1>3, <1>4, <1>5 DEF LimitsHeld

\* The refresh, time and the day.
LEMMA TimeWithin ==
    ASSUME QuotaInv, LimitsHeld, QuotaTime
    PROVE  LimitsHeld'
<1>1. UNCHANGED <<req, doubt, calls, limit>>
    BY DEF QuotaTime, RefreshFetch, RefreshStore, Age, Unlock, NewDay, baseVars
<1>2. \A w \in Workers : Stays(QuotaOps, w)
    BY <1>1, UnchangedStays DEF QuotaInv
<1>3. limit \in Offers /\ quotaKey.limit \in Offers /\ refresh.got \in Offers /\ limit \in Limits
    BY OffersAre DEF LimitsHeld, StoresWithin
<1>4. quotaKey'.limit \in Offers
    <2>1. CASE RefreshStore
        BY <1>3, <2>1 DEF RefreshStore, Keep
    <2>2. CASE Age
        <3>1. CASE quotaKey' = [quotaKey EXCEPT !.age = "soft"]
            <4>1. quotaKey'.limit = quotaKey.limit
                BY <3>1 DEF QuotaInv, QuotaKept, QuotaKeyOK, QuotaRow
            <4> QED BY <1>3, <4>1
        <3>2. CASE quotaKey' = NoQuota
            <4>1. NoQuota.limit = 0
                BY DEF NoQuota
            <4> QED BY <3>2, <4>1, OffersAre
        <3> QED BY <2>2, <3>1, <3>2 DEF Age
    <2>3. CASE quotaKey' = quotaKey
        BY <1>3, <2>3
    <2> QED BY <2>1, <2>2, <2>3 DEF QuotaTime, RefreshFetch, Unlock, NewDay
<1>5. refresh'.got \in Offers
    <2>1. CASE refresh' = NoRefresh
        <3>1. NoRefresh.got = 0
            BY DEF NoRefresh
        <3> QED BY <2>1, <3>1, OffersAre
    <2>2. CASE refresh' = [at |-> "store", got |-> limit, since |-> notices]
        BY <1>3, <2>2
    <2>3. CASE refresh' = refresh
        BY <1>3, <2>3
    <2> QED BY <2>1, <2>2, <2>3 DEF QuotaTime, RefreshFetch, RefreshStore, Age, Unlock, NewDay
<1>6. StoresWithin'
    BY <1>1, <1>3, <1>4, <1>5 DEF StoresWithin
<1> QED BY <1>2, <1>6, StaysWithin

\* A start of the worker ends all that asked; Redis loses what is kept.
LEMMA EndsWithin ==
    ASSUME QuotaInv, LimitsHeld, Restart \/ RedisLost
    PROVE  LimitsHeld'
<1>1. NoRefresh.got = 0 /\ NoQuota.limit = 0
    BY DEF NoRefresh, NoQuota
<1>2. CASE Restart
    <2>1. \A w \in Workers : ~Ours(QuotaOps, w)'
        <3>1. "restore tokens" \notin QuotaOps /\ "start monitors" \notin QuotaOps
            BY DEF QuotaOps
        <3> QED BY <1>2, <3>1, RestartStays DEF QuotaInv, Ours
    <2>2. UNCHANGED <<limit, quotaKey>> /\ refresh' = NoRefresh
        BY <1>2 DEF Restart
    <2>3. StoresWithin'
        BY <1>1, <2>2, OffersAre DEF LimitsHeld, StoresWithin
    <2> QED BY <2>1, <2>3 DEF LimitsHeld, Within
<1>3. CASE RedisLost
    <2>1. Aside(QuotaOps, {})
        BY <1>3, RedisLostAside DEF QuotaInv, TypedRequests
    <2>2. UNCHANGED <<limit, refresh>> /\ quotaKey' = NoQuota
        BY <1>3 DEF RedisLost
    <2>3. StoresWithin'
        BY <1>1, <2>2, OffersAre DEF LimitsHeld, StoresWithin
    <2> QED BY <2>1, <2>3, AsideWithin
<1> QED BY <1>2, <1>3

\* No step brings up another limit.
LEMMA LimitsNext ==
    ASSUME QuotaInv, LimitsHeld, [Next]_vars
    PROVE  LimitsHeld'
<1>1. RequestsOf(QuotaOps, {}) /\ StoresWithin
    BY DEF QuotaInv, TypedRequests, LimitsHeld
<1>2. CASE UNCHANGED vars
    <2>1. UNCHANGED <<req, menu, calls, doubt>> /\ UNCHANGED quotaVars /\ calls \in Nat
        BY <1>1, <1>2 DEF vars, baseVars, RequestsOf
    <2>2. Aside(QuotaOps, {}) /\ StoresWithin'
        BY <1>1, <2>1, IdleAside DEF quotaVars, StoresWithin
    <2> QED BY <2>2, AsideWithin
<1>3. CASE \E w \in Workers : QuotaStep(w)
    BY <1>3, ArriveWithin, ServeWithin, StoreWithin, EndWithin DEF QuotaStep
<1>4. ASSUME NEW w \in Workers, UNCHANGED quotaVars,
             \/ TokenStep(w) \/ HookStep(w) \/ MonitorStep(w) \/ StudioStep(w) \/ FileStep(w) \/ PlayerStep(w)
             \/ ProjectStep(w) \/ Deletion(w)
      PROVE  LimitsHeld'
    <2>1. /\ QuotaOps \cap TokenOps = {} /\ QuotaOps \cap HookRequests = {} /\ QuotaOps \cap (MonOps \cup {"start monitors"}) = {}
          /\ QuotaOps \cap FileOps = {}
        BY DEF QuotaOps, TokenOps, HookRequests, HookOps, MonOps, FileOps
    <2>2. /\ QuotaOps \cap StudioOps = {} /\ QuotaOps \cap PlayerOps = {} /\ QuotaOps \cap ProjectOps = {}
          /\ "delete project" \notin QuotaOps
        BY DEF QuotaOps, StudioOps, PluginOps, PlayerOps, UseOps, ProjectOps
    <2>3. Aside(QuotaOps, {})
        BY <1>1, <1>4, <2>1, <2>2, TokenStepAside, HookStepAside, MonitorStepAside, StudioStepAside, FileStepAside,
           PlayerStepAside, ProjectStepAside, DeletionAside
    <2>4. StoresWithin'
        BY <1>1, <1>4 DEF quotaVars, StoresWithin
    <2> QED BY <2>3, <2>4, AsideWithin
<1>5. ASSUME UNCHANGED quotaVars,
             TokenTime \/ Delivery \/ MonitorTimers \/ Counting \/ PlayerTime \/ ForgetProject \/ StudioStatement
      PROVE  LimitsHeld'
    <2>1. Aside(QuotaOps, {})
        BY <1>1, <1>5, OthersAside, StatementAside
    <2>2. StoresWithin'
        BY <1>1, <1>5 DEF quotaVars, StoresWithin
    <2> QED BY <2>1, <2>2, AsideWithin
<1> QED BY <1>2, <1>3, <1>4, <1>5, TimeWithin, EndsWithin DEF Next

\* The worker starts with a limit of these.
LEMMA LimitsStart ==
    ASSUME Init
    PROVE  LimitsHeld
<1>1. PICK s \in Scenarios : QuotasInit(s)
    BY DEF Init
<1>2. limit \in Limits /\ quotaKey = NoQuota /\ refresh = NoRefresh
    BY <1>1, LimitsArePositive DEF QuotasInit
<1>3. NoRefresh.got = 0 /\ NoQuota.limit = 0
    BY DEF NoRefresh, NoQuota
<1>4. \A w \in Workers : ~Ours(QuotaOps, w)
    BY NoneOurs
<1> QED BY <1>2, <1>3, <1>4, OffersAre DEF LimitsHeld, StoresWithin, Within

----------------------------------------------------------------------------
\* No object is one that there is not when the worker starts,
LEMMA ObjectsStart ==
    ASSUME Init
    PROVE  ObjectsKnown
<1>1. RequestsOf({}, {}) /\ doubt = {} /\ \A w \in Workers : req[w] = NoReq
    BY NoneOurs DEF TypedRequests
<1> QED BY <1>1 DEF ObjectsKnown, Unknown, RequestsOf

\* nor after a step.
LEMMA ObjectsNext ==
    ASSUME AllNamed, FilesHeld, ObjectsKnown, [Next]_vars
    PROVE  ObjectsKnown'
<1>1. ASSUME NEW o, o \notin Objects PROVE Unknown(o)'
    BY <1>1, UnknownStays DEF ObjectsKnown
<1> QED BY <1>1 DEF ObjectsKnown, Objects, TokenObjects, MonObjects, SessionObjects, FileObjects, PlayerObjects

\* The worker starts with files of these only.
LEMMA FilesHeldStart ==
    ASSUME Init
    PROVE  FilesHeld
<1>1. PICK s \in Scenarios : FilesInit(s)
    BY DEF Init
<1> QED BY <1>1, FilesAssumption DEF FilesInit, FilesHeld

\* The invariants of the components say what the types are.
LEMMA TypesFollow ==
    ASSUME FilesInv, TokensInv, PlayersInv, StudioInv, DeliveryInv, StatsInv, ObjectsKnown, FilesHeld, LimitsHeld
    PROVE  ControlTypeOK
<1>1. \A w \in Workers : req[w] # NoReq => req[w].sure \subseteq req[w].on
    BY DEF FilesInv, FileRequests, TypedRequests, RequestsOf
<1>2. doubt \subseteq Objects
    BY DEF ObjectsKnown, Unknown
<1>3. \A t \in Tokens : keys[t].rev \in Nat /\ rows[t].rev \in Nat /\ told[t].rev \in Nat
    <2> SUFFICES ASSUME NEW t \in Tokens PROVE keys[t].rev \in Nat /\ rows[t].rev \in Nat /\ told[t].rev \in Nat
        OBVIOUS
    <2>1. keys[t] \in TokenRow /\ rows[t] \in TokenRow /\ told[t] \in TokenRow
        BY DEF TokensInv, TokenTyped
    <2> QED BY ONLY <2>1 DEF TokenRow
<1>4. \A e \in Events, k \in Hooks :
        sends[e][k].at \in {"send", "log", "logError"} => sends[e][k].attempt \in 1 .. sends[e][k].retries + 1
    <2> SUFFICES ASSUME NEW e \in Events, NEW k \in Hooks, sends[e][k].at \in {"send", "log", "logError"}
                 PROVE  sends[e][k].attempt \in 1 .. sends[e][k].retries + 1
        OBVIOUS
    <2>1. StageOK(e, k)
        BY DEF DeliveryInv, PairOK
    <2>2. sends[e][k] \in SendRow
        BY DEF DeliveryInv, SendsOK
    <2>3. sends[e][k].attempt \in Nat /\ sends[e][k].retries \in Nat
        BY ONLY <2>2 DEF SendRow
    <2>4. received[e][k] \in Seq(Answered)
        BY DEF DeliveryInv, ReceivedOK
    <2>5. Len(received[e][k]) \in Nat
        BY ONLY <2>4, LenProperties
    <2> QED BY <2>1, <2>3, <2>5 DEF StageOK
<1>5. \A f \in Flushes : flush[f].at = "bucket" <=> flush[f].order # <<>>
    BY DEF StatsInv, FlushesOK, FlushOK
<1>6. disk \cup fileRows \subseteq Files /\ quotaKey.limit \in Limits \cup {0}
    BY DEF FilesHeld, LimitsHeld, StoresWithin, Offers
<1>7. \A r \in players : r.of \in Players /\ r.age \in 0 .. SessionTtl + 1
    BY DEF PlayersInv, PlayerTables, PlayerRow, Ages
<1>8. \A a \in active : a.left \in 1 .. ActiveTicks /\ \A b \in active : a.key = b.key => a = b
    BY DEF PlayersInv, PlayerTables
<1>9. \A s \in Sessions : Len(contexts[s].kept) <= MaxKept /\ contexts[s].tokens \in Nat
    <2> SUFFICES ASSUME NEW s \in Sessions PROVE Len(contexts[s].kept) <= MaxKept /\ contexts[s].tokens \in Nat
        OBVIOUS
    <2>1. contexts[s] \in ContextRow /\ Len(contexts[s].kept) <= MaxKept
        BY DEF StudioInv, TalksOK, Conversations
    <2> QED BY ONLY <2>1 DEF ContextRow
<1> QED BY <1>1, <1>2, <1>3, <1>4, <1>5, <1>6, <1>7, <1>8, <1>9 DEF ControlTypeOK

\* Every request is sure of what it works on only and no more than the project's objects are
\* ever in doubt; attempts, flushes, limits, ages and conversations stay within what the code
\* sets them: for any number of handlers, tokens, webhooks, monitors, files and players.
THEOREM ControlTypeCorrect == Spec => []ControlTypeOK
<1>1. Spec => [](FilesInv /\ QuotaInv /\ TokensInv /\ PlayersInv /\ StudioInv)
    <2>1. Spec => []FilesInv
        BY FilesStart, FilesStep, PTL DEF Spec
    <2>2. Spec => []QuotaInv
        BY QuotaStart, QuotaNext, PTL DEF Spec
    <2>3. Spec => []TokensInv
        BY TokensStart, TokensNext, PTL DEF Spec
    <2>4. Spec => []PlayersInv
        BY PlayersStart, PlayersNext, PTL DEF Spec
    <2>5. Spec => []StudioInv
        BY StudioStart, StudioNext, PTL DEF Spec
    <2> QED BY <2>1, <2>2, <2>3, <2>4, <2>5, PTL
<1>2. Spec => [](MonInv /\ DeliveryInv /\ StatsInv)
    <2>1. Spec => []MonInv
        BY InitBegins, BegunIsFine, NextKeeps, PTL DEF Spec
    <2>2. Spec => []DeliveryInv
        BY DeliveryInit, DeliveryNext, PTL DEF Spec
    <2>3. Init => StatsInv
        BY StatsStart DEF Init
    <2>4. Spec => []StatsInv
        BY <2>3, StatsNext, PTL DEF Spec
    <2> QED BY <2>1, <2>2, <2>4, PTL
<1>3. Spec => []AllNamed
    BY <1>1, <1>2, RequestsName, PTL
<1>4. Spec => []FilesHeld
    BY <1>3, FilesHeldStart, FilesHeldStay, PTL DEF Spec
<1>5. Spec => []ObjectsKnown
    BY <1>3, <1>4, ObjectsStart, ObjectsNext, PTL DEF Spec
<1>6. Spec => []LimitsHeld
    BY <1>1, LimitsStart, LimitsNext, PTL DEF Spec
<1> QED BY <1>1, <1>2, <1>4, <1>5, <1>6, TypesFollow, PTL
====
