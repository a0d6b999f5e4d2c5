---- MODULE Quotas ----
(***************************************************************************)
(* The quota of a project's API requests: the control plane keeps it, the  *)
(* worker asks for it and keeps the answer in Redis for an hour, asking    *)
(* again in the background after fifty minutes.  One fetch serves all      *)
(* requests that find nothing in Redis, and a notice of the control plane  *)
(* drops what is kept.  The requests of a day are counted in Redis.        *)
(***************************************************************************)
EXTENDS ControlBase

CONSTANT Limits  \* max_api_requests a project can have

ASSUME LimitsArePositive == Limits \subseteq Nat \ {0} /\ \A s \in Scenarios : s.limit \in Limits

VARIABLES
    limit,     \* the control plane's
    quotaKey,  \* project_quotas:<id>: the limit kept, and whether past its soft age or a fallback
    fetching,  \* inFlightQuotaFetch: the request whose fetch others wait for
    refresh,   \* the background refresh, which has a lock in Redis
    locked,    \* project_quotas_refresh:<id>
    daily,     \* api_req_count:<id>:<today>
    notices,   \* history: notices of the control plane so far
    behind,    \* history: what is kept was asked before the last notice, or survived it
    passed,    \* history: requests let through today after they were counted
    highest    \* history: the greatest limit there has been

quotaVars == <<limit, quotaKey, fetching, refresh, locked, daily, notices, behind, passed, highest>>

NoQuota == [limit |-> 0, age |-> "none"]
NoRefresh == [at |-> "none", got |-> 0, since |-> 0]

QuotasInit(s) ==
    /\ limit = s.limit /\ highest = limit
    /\ quotaKey = NoQuota
    /\ fetching = "none" /\ refresh = NoRefresh /\ locked = FALSE
    /\ daily = 0 /\ notices = 0 /\ behind = FALSE /\ passed = 0

----------------------------------------------------------------------------
\* A request of the dynamic API; a project that is switched off is refused before this.
Serve(h) ==
    /\ BeginIn("slugs", h, "serve", {}, "quota", [limit |-> 0, since |-> 0, of |-> h])
    /\ UNCHANGED quotaVars

\* getProjectQuota.  With nothing kept the request fetches, or waits for one that does.
ReadQuota(h) ==
    /\ At(h, "serve", "quota")
    /\ CASE quotaKey.age # "none" -> Go(h, "count", [req[h].data EXCEPT !.limit = quotaKey.limit])
         [] quotaKey.age = "none" /\ fetching = "none" -> GoOn(h, "fetch")
         [] OTHER -> Go(h, "wait", [req[h].data EXCEPT !.of = fetching])
    /\ fetching' = IF quotaKey.age = "none" /\ fetching = "none" THEN h ELSE fetching
    /\ LET refreshes == quotaKey.age = "soft" /\ ~locked IN
        /\ refresh' = IF refreshes THEN [NoRefresh EXCEPT !.at = "fetch"] ELSE refresh
        /\ locked' = (locked \/ refreshes)
    /\ UNCHANGED <<limit, quotaKey, daily, notices, behind, passed, highest>>

\* fetchQuotaFromCP: the limit as the control plane has it, or 0 for no answer in time.
Fetch(h) ==
    /\ At(h, "serve", "fetch")
    /\ \/ Go(h, "store", [req[h].data EXCEPT !.limit = limit, !.since = notices])
       \/ Swallow(h, "store", [req[h].data EXCEPT !.limit = 0, !.since = notices], {})
    /\ UNCHANGED quotaVars

Keep(got, since) ==
    /\ quotaKey' = [limit |-> got, age |-> IF got = 0 THEN "fallback" ELSE "fresh"]
    /\ behind' = (since # notices)

\* Those that wait go on with the answer of the fetch.
AnswerAll(h, got) ==
    /\ req' = [w \in Workers |->
          IF w = h \/ (At(w, "serve", "wait") /\ req[w].data.of = h)
          THEN [req[w] EXCEPT !.at = "count", !.data.limit = got]
          ELSE req[w]]
    /\ UNCHANGED <<menu, calls, known, doubt>>

\* The fetch leaves the map, or whichever is there now.
StoreQuota(h) ==
    /\ At(h, "serve", "store")
    /\ Keep(req[h].data.limit, req[h].data.since)
    /\ fetching' = "none"
    /\ AnswerAll(h, req[h].data.limit)
    /\ UNCHANGED <<faults, limit, refresh, locked, daily, notices, passed, highest>>

\* Redis fails, having done it or not: the route goes on as without a quota.
StoreQuotaFails(h) ==
    /\ At(h, "serve", "store")
    /\ Fault
    /\ Keep(req[h].data.limit, req[h].data.since) \/ UNCHANGED <<quotaKey, behind>>
    /\ fetching' = "none"
    /\ AnswerAll(h, 0)
    /\ UNCHANGED <<limit, refresh, locked, daily, notices, passed, highest>>

ReadQuotaFails(h) ==
    /\ At(h, "serve", "quota")
    /\ Swallow(h, "count", [req[h].data EXCEPT !.limit = 0], {})
    /\ UNCHANGED quotaVars

\* checkApiRequestQuota: INCR, and a refusal when that is past the limit.
Count(h) ==
    /\ At(h, "serve", "count")
    /\ LET l == req[h].data.limit IN
        /\ daily' = IF l = 0 THEN daily ELSE daily + 1
        /\ passed' = IF l # 0 /\ daily' <= l THEN passed + 1 ELSE passed
    /\ Finish(h, {})
    /\ UNCHANGED <<limit, quotaKey, fetching, refresh, locked, notices, behind, highest>>

\* INCR or EXPIRE fails, having counted or not: the request is let through whatever the
\* count, and no limit holds for it.
CountFails(h) ==
    /\ At(h, "serve", "count") /\ req[h].data.limit # 0
    /\ daily' \in {daily, daily + 1}
    /\ FinishAnyway(h, {})
    /\ UNCHANGED <<limit, quotaKey, fetching, refresh, locked, notices, behind, passed, highest>>

----------------------------------------------------------------------------
\* The refresh, of a process that no request waits for.
RefreshFetch ==
    /\ refresh.at = "fetch"
    /\ refresh' \in {[at |-> "store", got |-> limit, since |-> notices], NoRefresh}
    /\ UNCHANGED <<baseVars, limit, quotaKey, fetching, locked, daily, notices, behind, passed, highest>>

RefreshStore ==
    /\ refresh.at = "store"
    /\ Keep(refresh.got, refresh.since)
    /\ refresh' = NoRefresh
    /\ UNCHANGED <<baseVars, limit, fetching, locked, daily, notices, passed, highest>>

\* The kept quota ages and expires; the lock expires, long after its refresh has ended; and
\* a new day has a new counter.
Age ==
    /\ \/ quotaKey.age = "fresh" /\ quotaKey' = [quotaKey EXCEPT !.age = "soft"] /\ UNCHANGED behind
       \/ quotaKey.age \in {"soft", "fallback"} /\ quotaKey' = NoQuota /\ behind' = FALSE
    /\ UNCHANGED <<baseVars, limit, fetching, refresh, locked, daily, notices, passed, highest>>

Unlock ==
    /\ locked /\ refresh = NoRefresh
    /\ locked' = FALSE
    /\ UNCHANGED <<baseVars, limit, quotaKey, fetching, refresh, daily, notices, behind, passed, highest>>

NewDay ==
    /\ daily > 0
    /\ daily' = 0 /\ passed' = 0
    /\ UNCHANGED <<baseVars, limit, quotaKey, fetching, refresh, locked, notices, behind, highest>>

QuotaTime == RefreshFetch \/ RefreshStore \/ Age \/ Unlock \/ NewDay

----------------------------------------------------------------------------
\* The control plane changes the limit, and then tells the worker: quota/invalidate.
ChangeQuota(h) ==
    /\ Begin(h, "change quota", {}, "notice", NoData)
    /\ limit' \in Limits \ {limit}
    /\ highest' = IF limit' > highest THEN limit' ELSE highest
    /\ UNCHANGED <<quotaKey, fetching, refresh, locked, daily, notices, behind, passed>>

Invalidate(h) ==
    /\ At(h, "change quota", "notice")
    /\ quotaKey' = NoQuota /\ behind' = FALSE
    /\ fetching' = "none"
    /\ notices' = notices + 1
    /\ Finish(h, {})
    /\ UNCHANGED <<limit, refresh, locked, daily, passed, highest>>

\* The DEL is not awaited and its failure swallowed.
InvalidateFails(h) ==
    /\ At(h, "change quota", "notice")
    /\ quotaKey' \in {quotaKey, NoQuota} /\ behind' = TRUE
    /\ fetching' = "none"
    /\ notices' = notices + 1
    /\ FinishAnyway(h, {})
    /\ UNCHANGED <<limit, refresh, locked, daily, passed, highest>>

QuotaStep(h) ==
    \/ Serve(h) \/ ReadQuota(h) \/ ReadQuotaFails(h) \/ Fetch(h) \/ StoreQuota(h) \/ StoreQuotaFails(h)
    \/ Count(h) \/ CountFails(h) \/ ChangeQuota(h) \/ Invalidate(h) \/ InvalidateFails(h)
====
