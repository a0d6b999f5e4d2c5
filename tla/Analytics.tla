---- MODULE Analytics ----
(***************************************************************************)
(* The counters of requests: kept in memory per path, taken by a flush     *)
(* every minute, which adds them to api_request_stats one path after the   *)
(* other and then writes the raw entries to api_request_logs in batches    *)
(* and trims that table.  Flushes may overlap.                             *)
(***************************************************************************)
EXTENDS ControlBase, Functions, SequencesExt

CONSTANTS
    Paths,     \* keys of statsBuffer, of one project
    Refused,   \* those whose row PostgreSQL refuses, for instance too long for the unique index
    Flushes,   \* flushes at work at a time
    BatchSize, \* raw entries inserted by one statement
    RawLimit   \* RAW_LOG_LIMIT_PER_PROJECT

VARIABLES
    buffer,  \* statsBuffer: the paths in the order of insertion, and their counts
    raw,     \* rawBuffer: the number of entries
    flush,   \* flush[f]: what a flush has taken and not yet written
    stored,  \* api_request_stats
    batches, \* api_request_logs: sizes of the batches ever written, each of one created_at
    first,   \* the oldest of them still there
    seen,    \* history: requests answered
    broken,  \* history: paths some of whose counts a failed flush had taken
    trimmed  \* history: the last batch written was there when the table was last trimmed

ASSUME StatsAssumption == IsFiniteSet(Flushes) /\ BatchSize \in Nat /\ RawLimit \in Nat

statVars == <<buffer, raw, flush, stored, batches, first, seen, broken, trimmed>>

Zero == [p \in Paths |-> 0]
Empty == [order |-> <<>>, count |-> Zero]
NoFlush == [at |-> "none", order |-> <<>>, count |-> Zero, raw |-> 0, cut |-> 0, top |-> 0]

InFlight(p) == SumFunction([f \in Flushes |-> flush[f].count[p]])
RawRows(from) == SumFunctionOnSet(batches, from .. Len(batches))

StatsInit ==
    /\ buffer = Empty /\ raw = 0
    /\ flush = [f \in Flushes |-> NoFlush]
    /\ stored = Zero /\ seen = Zero
    /\ batches = <<>> /\ first = 1
    /\ broken = {} /\ trimmed = TRUE

----------------------------------------------------------------------------
\* onResponse.
Respond(p) ==
    /\ "respond" \in menu /\ calls > 0 /\ calls' = calls - 1
    /\ buffer' = [order |-> IF buffer.count[p] = 0 THEN Append(buffer.order, p) ELSE buffer.order,
                  count |-> [buffer.count EXCEPT ![p] = @ + 1]]
    /\ raw' = raw + 1
    /\ seen' = [seen EXCEPT ![p] = @ + 1]
    /\ UNCHANGED <<req, menu, faults, known, doubt, flush, stored, batches, first, broken, trimmed>>

\* flushStats takes both buffers at once.
Taken == [at |-> IF buffer.order = <<>> THEN "raw" ELSE "bucket",
          order |-> buffer.order, count |-> buffer.count, raw |-> raw, cut |-> 0, top |-> 0]

\* Mutant: clears the buffer only after the paths are written.
TakeCopy(f) ==
    /\ flush[f] = NoFlush /\ (buffer.order # <<>> \/ raw > 0)
    /\ flush' = [flush EXCEPT ![f] = Taken]
    /\ raw' = 0
    /\ UNCHANGED <<baseVars, buffer, stored, batches, first, seen, broken, trimmed>>

Take(f) ==
    /\ flush[f] = NoFlush /\ (buffer.order # <<>> \/ raw > 0)
    /\ flush' = [flush EXCEPT ![f] = Taken]
    /\ buffer' = Empty /\ raw' = 0
    /\ UNCHANGED <<baseVars, stored, batches, first, seen, broken, trimmed>>

\* INSERT ... ON CONFLICT DO UPDATE SET total_count = total_count + EXCLUDED.total_count.
Added(f) == [stored EXCEPT ![Head(flush[f].order)] = @ + flush[f].count[Head(flush[f].order)]]

StoreBucket(f) ==
    /\ flush[f].at = "bucket" /\ Head(flush[f].order) \notin Refused
    /\ stored' = Added(f)
    /\ LET rest == Tail(flush[f].order) IN
        flush' = [flush EXCEPT ![f].order = rest,
                               ![f].count[Head(flush[f].order)] = 0,
                               ![f].at = IF rest = <<>> THEN "raw" ELSE "bucket"]
    /\ UNCHANGED <<baseVars, buffer, raw, batches, first, seen, broken, trimmed>>

\* One path that cannot be written, for its row or for a failure that may come after the
\* write, takes the paths after it along.
StoreBucketFails(f) ==
    /\ flush[f].at = "bucket"
    /\ IF Head(flush[f].order) \in Refused
       THEN UNCHANGED <<faults, stored>>
       ELSE Fault /\ stored' \in {stored, Added(f)}
    /\ broken' = broken \cup ToSet(flush[f].order)
    /\ flush' = [flush EXCEPT ![f].order = <<>>, ![f].count = Zero, ![f].at = "raw"]
    /\ UNCHANGED <<req, menu, calls, known, doubt, buffer, raw, batches, first, seen, trimmed>>

InsertRaw(f) ==
    /\ flush[f].at = "raw"
    /\ LET n == IF flush[f].raw < BatchSize THEN flush[f].raw ELSE BatchSize IN
        /\ batches' = Append(batches, n)
        /\ flush' = [flush EXCEPT ![f].raw = @ - n, ![f].at = IF flush[f].raw = n THEN "count" ELSE "raw"]
    /\ trimmed' = FALSE
    /\ UNCHANGED <<baseVars, buffer, raw, stored, first, seen, broken>>

\* The oldest row to keep is the one after the newest RawLimit: what is as old as it stays.
Cutoff == CHOOSE i \in first .. Len(batches) :
              RawRows(i) > RawLimit /\ (i < Len(batches) => RawRows(i + 1) <= RawLimit)

CountRaw(f) ==
    /\ flush[f].at = "count"
    /\ flush' = [flush EXCEPT
          ![f] = IF RawRows(first) > RawLimit THEN [@ EXCEPT !.at = "trim", !.cut = Cutoff, !.top = Len(batches)]
                 ELSE NoFlush]
    /\ trimmed' = (trimmed \/ RawRows(first) <= RawLimit)
    /\ UNCHANGED <<baseVars, buffer, raw, stored, batches, first, seen, broken>>

TrimRaw(f) ==
    /\ flush[f].at = "trim"
    /\ first' = IF flush[f].cut > first THEN flush[f].cut ELSE first
    /\ trimmed' = (trimmed \/ flush[f].top = Len(batches))
    /\ flush' = [flush EXCEPT ![f] = NoFlush]
    /\ UNCHANGED <<baseVars, buffer, raw, stored, batches, seen, broken>>

\* The rest of the raw entries is dropped, and nothing is trimmed.
RawFails(f) ==
    /\ flush[f].at \in {"raw", "count", "trim"}
    /\ Fault
    /\ flush' = [flush EXCEPT ![f] = NoFlush]
    /\ UNCHANGED <<req, menu, calls, known, doubt, buffer, raw, stored, batches, first, seen, broken, trimmed>>

Counting ==
    \/ \E p \in Paths : Respond(p)
    \/ \E f \in Flushes : Take(f) \/ StoreBucket(f) \/ StoreBucketFails(f) \/ InsertRaw(f)
                          \/ CountRaw(f) \/ TrimRaw(f) \/ RawFails(f)

\* The worker stops: what is in memory is gone, a flush of the timer included.
CountersEnd ==
    /\ broken' = broken \cup {p \in Paths : buffer.count[p] > 0 \/ \E f \in Flushes : flush[f].count[p] > 0}
    /\ buffer' = Empty /\ raw' = 0
    /\ flush' = [f \in Flushes |-> NoFlush]
    /\ UNCHANGED <<stored, batches, first, seen, trimmed>>
====
