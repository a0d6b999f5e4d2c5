---- MODULE AtomicBatches ----
(***************************************************************************)
(* What cross-call transactions promise (mcp-tools.ts:357, 829): the       *)
(* writes of a batch become visible together or not at all, and a batch    *)
(* that was given up never becomes visible.                                *)
(***************************************************************************)
CONSTANTS Batches, Writes

VARIABLES status, members, visible

vars == <<status, members, visible>>

TypeOK ==
    /\ status \in [Batches -> {"open", "committed", "aborted"}]
    /\ members \in [Batches -> SUBSET Writes]
    /\ visible \subseteq Writes

Init ==
    /\ status = [b \in Batches |-> "open"]
    /\ members = [b \in Batches |-> {}]
    /\ visible = {}

\* A write is accepted into an open batch.
Join(b, w) ==
    /\ status[b] = "open"
    /\ \A c \in Batches : w \notin members[c]
    /\ members' = [members EXCEPT ![b] = @ \cup {w}]
    /\ UNCHANGED <<status, visible>>

Commit(b) ==
    /\ status[b] = "open"
    /\ status' = [status EXCEPT ![b] = "committed"]
    /\ visible' = visible \cup members[b]
    /\ UNCHANGED members

Abort(b) ==
    /\ status[b] = "open"
    /\ status' = [status EXCEPT ![b] = "aborted"]
    /\ UNCHANGED <<members, visible>>

Next == \E b \in Batches : Commit(b) \/ Abort(b) \/ \E w \in Writes : Join(b, w)

Spec == Init /\ [][Next]_vars
====
