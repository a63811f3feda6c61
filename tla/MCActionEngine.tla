--------------------------- MODULE MCActionEngine ---------------------------
(* Instances of ActionEngine for TLC. *)
EXTENDS ActionEngine

CONSTANTS c1, c2, w1, w2

DM == [safeForRetry |-> TRUE, maxRetries |-> 0, continueOnError |-> FALSE]
Moderation(goOn) == [safeForRetry |-> FALSE, maxRetries |-> 1, continueOnError |-> goOn]

\* What CaseService.create writes: the generated DM at position 0 or not, and
\* up to n moderation actions from position 1, all of them irreversible.
CreatedPlans(n) ==
    UNION {[P -> {DM} \cup {Moderation(b) : b \in BOOLEAN}] :
              P \in {0 .. k : k \in 0 .. n} \cup {1 .. k : k \in 0 .. n}}

CreatedPlan(pl) == \A p \in DOMAIN pl : (p = 0) <=> pl[p].safeForRetry

MCCreatedPlans2 == {pl \in CreatedPlans(2) : CreatedPlan(pl)}

\* Rows as the engine's storage tests write them: a DM that may be retried,
\* with a limit up to the last value of the counter, and an action behind it.
Retried(n, goOn) == [safeForRetry |-> TRUE, maxRetries |-> n, continueOnError |-> goOn]

MCRetryPlans ==
    {<<Retried(n, b), last>> : n \in Counts, b \in BOOLEAN,
                               last \in {Retried(1, FALSE), Moderation(FALSE)}}

\* The executors as they are: timeout, kick and ban fail permanently.
MCStubs == {[error |-> "permanent", effect |-> FALSE]}

\* Executors that may return whatever the Executor interface allows.
MCAnyResult == Outcomes
=============================================================================
