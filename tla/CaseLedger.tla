----------------------------- MODULE CaseLedger -----------------------------
(***************************************************************************)
(* What the rows of a moderation case promise to their readers (staff, the *)
(* dashboard, the case list), without saying who does the work or how:     *)
(*                                                                         *)
(*   - a case opens with a set of rows that wait for their turn;           *)
(*   - at most one row of a case is being executed at a time;              *)
(*   - a row that ran ends succeeded, failed, or waits to be retried, and  *)
(*     a row that ended is never touched again;                            *)
(*   - a row is skipped only behind a row of its case that failed;         *)
(*   - the status of the case always summarises its rows.                  *)
(*                                                                         *)
(* ActionEngine implements this specification with workers, transactions,  *)
(* attempt counters, timers, store errors and crashes.                     *)
(***************************************************************************)
EXTENDS Naturals

CONSTANTS Cases,      \* cases that may be created
          Positions   \* execution positions a case may have rows at

VARIABLES rows,       \* [Cases -> [Positions -> RowStatus]]
          summary     \* [Cases -> CaseStatus]

ledgerVars == <<rows, summary>>

Waiting  == {"pending", "retrying"}
Ended    == {"succeeded", "failed", "skipped"}

\* The status that a row set stands for. A case none of whose rows has run is
\* open; one failed row makes the case failed whatever the others do.
Summarise(r) ==
    IF \A p \in Positions : r[p] \in {"absent", "pending"} THEN "open"
    ELSE IF \E p \in Positions : r[p] = "failed" THEN "failed"
    ELSE IF \E p \in Positions : r[p] \in Waiting \cup {"running"} THEN "action_running"
    ELSE "completed"

Init ==
    /\ rows = [c \in Cases |-> [p \in Positions |-> "absent"]]
    /\ summary = [c \in Cases |-> "none"]

\* The rows of c become r, and the case's status follows them.
Rewrite(c, r) ==
    /\ rows' = [rows EXCEPT ![c] = r]
    /\ summary' = [summary EXCEPT ![c] = Summarise(r)]

Open(c) ==
    /\ summary[c] = "none"
    /\ \E present \in SUBSET Positions :
          Rewrite(c, [p \in Positions |-> IF p \in present THEN "pending" ELSE "absent"])

Begin(c, p) ==
    /\ \A q \in Positions : rows[c][q] # "running"
    /\ rows[c][p] \in Waiting
    /\ Rewrite(c, [rows[c] EXCEPT ![p] = "running"])

End(c, p) ==
    /\ rows[c][p] = "running"
    /\ \E s \in {"succeeded", "failed", "retrying"} :
          Rewrite(c, [rows[c] EXCEPT ![p] = s])

\* Every row that still waits behind the failed row at p is given up.
Block(c, p) ==
    /\ rows[c][p] = "failed"
    /\ Rewrite(c, [q \in Positions |-> IF q > p /\ rows[c][q] \in Waiting
                                       THEN "skipped" ELSE rows[c][q]])

Next ==
    \E c \in Cases :
        \/ Open(c)
        \/ \E p \in Positions : Begin(c, p) \/ End(c, p) \/ Block(c, p)

Spec == Init /\ [][Next]_ledgerVars
=============================================================================
