---------------------------- MODULE ActionEngine ----------------------------
(***************************************************************************)
(* The action engine of Quack: internal/quack/actions.go driving the case, *)
(* execution and attempt rows of internal/store/cases.go.                  *)
(*                                                                         *)
(* A case is created with a row (CaseActionExecution) per action. Queue    *)
(* workers call ProcessCaseActions, which loops: claim the next row, run   *)
(* its executor, complete the row, and, when the action failed and the     *)
(* snapshot says to stop, skip the rows behind it. Each of claim, complete *)
(* and skip is a MySQL transaction of its own; any other worker, a store   *)
(* error, a handler panic or the end of the process may come between two   *)
(* of them, and so each is an action here.                                 *)
(*                                                                         *)
(* Abstracted: identifiers, payloads, event and audit bodies, wall-clock   *)
(* values (next_retry_at is "in the future" or not). Hints reach workers   *)
(* through StartJob; the channel that carries them is module WorkQueue.    *)
(***************************************************************************)
EXTENDS Naturals, FiniteSets

CONSTANTS Cases,        \* cases the guilds may create
          Workers,      \* queue worker goroutines (EVENT_QUEUE_WORKERS)
          Positions,    \* positions of execution rows; 0 is the generated DM
          CountModulus, \* 2^w for the w-bit AttemptCount; 256 in the code
          Plans,        \* row sets that case creation may write
    ModerationResults, \* what the executors of timeout, kick and ban return
          FaultKinds,   \* faults that may occur: "job" (store error or panic), "process"
    MaxFaults,    \* bound on the faults of a behaviour
          None          \* a worker's case when it has none

Counts == 0 .. (CountModulus - 1)

\* What a row carries of its template action: SafeForRetry, MaxRetries, and
\* the continue_on_error that the case's template snapshot holds for it.
Policy == [safeForRetry : BOOLEAN, maxRetries : Counts, continueOnError : BOOLEAN]

\* actionmods.Result: success, a permanent error or a retryable one. An error
\* can follow the effect (the moderation succeeded and its notification did
\* not; a request timed out after Discord acted): effect says if it happened.
Results == [error : {"none", "permanent", "retryable"}, effect : BOOLEAN]
Outcomes == {r \in Results : r.error = "none" => r.effect}
NoResult == [error |-> "none", effect |-> FALSE]

ASSUME EngineAssumption ==
    /\ Positions \subseteq Nat
    /\ CountModulus \in Nat \ {0, 1}
    /\ Plans \subseteq UNION {[P -> Policy] : P \in SUBSET Positions}
    /\ ModerationResults \subseteq Outcomes
    /\ MaxFaults \in Nat
    /\ FaultKinds \subseteq {"job", "process"}
    /\ None \notin Cases

VARIABLES
    plan,        \* the rows and policies that creating a case writes
    status,      \* case_action_executions.status, by case and position
    attempts,    \* case_action_executions.attempt_count
    recorded,    \* attempt numbers in case_action_attempts
    backoff,     \* rows whose next_retry_at lies in the future
    caseStatus,  \* cases.status
    resolved,    \* cases with resolved_at set
    pc,          \* what each worker does next
    job,         \* the case a worker was handed
    at,          \* the position of the row it claimed
    try,         \* the attempt number it claimed the row with
    result,      \* what its executor returned
    effects,     \* ghost: times the outside effect of a row took place
    faults       \* ghost: faults so far

rowVars    == <<status, attempts, recorded, backoff, caseStatus, resolved>>
workerVars == <<pc, job, at, try, result>>
vars       == <<plan, rowVars, workerVars, effects, faults>>

Waiting   == {"pending", "retrying"}
Ended     == {"succeeded", "failed", "skipped"}
RowStatus == {"absent", "running"} \cup Waiting \cup Ended

PlannedAt(c) == DOMAIN plan[c]

TypeOK ==
    /\ plan \in [Cases -> Plans]
    /\ status \in [Cases -> [Positions -> RowStatus]]
    /\ attempts \in [Cases -> [Positions -> Counts]]
    /\ recorded \in [Cases -> [Positions -> SUBSET Counts]]
    /\ backoff \subseteq Cases \X Positions
    /\ caseStatus \in [Cases -> {"none", "open", "action_running", "completed", "failed"}]
    /\ resolved \subseteq Cases
    /\ pc \in [Workers -> {"idle", "claim", "execute", "complete", "skip"}]
    /\ job \in [Workers -> Cases \cup {None}]
    /\ at \in [Workers -> Positions \cup {None}]
    /\ try \in [Workers -> Counts]
    /\ result \in [Workers -> Results]
    /\ effects \in [Cases -> [Positions -> Nat]]
    /\ faults \in 0 .. MaxFaults

Init ==
    /\ plan \in [Cases -> Plans]
    /\ status = [c \in Cases |-> [p \in Positions |-> "absent"]]
    /\ attempts = [c \in Cases |-> [p \in Positions |-> 0]]
    /\ recorded = [c \in Cases |-> [p \in Positions |-> {}]]
    /\ backoff = {}
    /\ caseStatus = [c \in Cases |-> "none"]
    /\ resolved = {}
    /\ pc = [w \in Workers |-> "idle"]
    /\ job = [w \in Workers |-> None]
    /\ at = [w \in Workers |-> None]
    /\ try = [w \in Workers |-> 0]
    /\ result = [w \in Workers |-> NoResult]
    /\ effects = [c \in Cases |-> [p \in Positions |-> 0]]
    /\ faults = 0
-----------------------------------------------------------------------------
(* The rows of a case                                                      *)

\* Rows the claim query and the due-work query select.
ForgetsRetrying(c) ==
    {p \in Positions : status[c][p] = "pending" /\ <<c, p>> \notin backoff}
Claimable(c) ==
    {p \in Positions : status[c][p] \in Waiting /\ <<c, p>> \notin backoff}

\* The case is in ListExecutableCaseIDs. The query looks at waiting rows only:
\* a case with a running row is listed as well.
Listed(c) == Claimable(c) # {}

\* ClaimNextCaseAction counts the running rows of the case before it takes one.
NeverBusy(c) == FALSE
FailureKeepsBusy(c) == \E p \in Positions : status[c][p] \in {"running", "failed"}
Busy(c) == \E p \in Positions : status[c][p] = "running"

\* updateCaseStatusFromActions: a failed row decides, then unfinished rows.
\* A case without rows is left alone.
UnfinishedDecides(c, rows) ==
    IF \A p \in Positions : rows[p] = "absent" THEN caseStatus[c]
    ELSE IF \E p \in Positions : rows[p] \in Waiting \cup {"running"} THEN "action_running"
    ELSE IF \E p \in Positions : rows[p] = "failed" THEN "failed"
    ELSE "completed"
StatusFromActions(c, rows) ==
    IF \A p \in Positions : rows[p] = "absent" THEN caseStatus[c]
    ELSE IF \E p \in Positions : rows[p] = "failed" THEN "failed"
    ELSE IF \E p \in Positions : rows[p] \in Waiting \cup {"running"} THEN "action_running"
    ELSE "completed"

\* The rows of c become rows and the case is brought up to date with them;
\* resolved_at is set on a final status and never cleared.
SetRows(c, rows) ==
    LET s == StatusFromActions(c, rows) IN
    /\ status' = [status EXCEPT ![c] = rows]
    /\ caseStatus' = [caseStatus EXCEPT ![c] = s]
    /\ resolved' = IF s \in {"completed", "failed"} THEN resolved \cup {c} ELSE resolved

\* CreateCase: the case opens with its planned rows pending.
CreateCase(c) ==
    /\ caseStatus[c] = "none"
    /\ caseStatus' = [caseStatus EXCEPT ![c] = "open"]
    /\ status' = [status EXCEPT ![c] =
          [p \in Positions |-> IF p \in PlannedAt(c) THEN "pending" ELSE "absent"]]
    /\ UNCHANGED <<plan, attempts, recorded, backoff, resolved, workerVars, effects, faults>>

\* The clock passes a row's next_retry_at.
BackoffElapses(c, p) ==
    /\ <<c, p>> \in backoff
    /\ backoff' = backoff \ {<<c, p>>}
    /\ UNCHANGED <<plan, status, attempts, recorded, caseStatus, resolved,
                   workerVars, effects, faults>>
-----------------------------------------------------------------------------
(* A worker                                                                *)

\* The worker leaves ProcessCaseActions, with or without an error, and goes
\* back to the channel: what it knew of the claim is gone.
Leave(w) ==
    /\ pc' = [pc EXCEPT ![w] = "idle"]
    /\ job' = [job EXCEPT ![w] = None]
    /\ at' = [at EXCEPT ![w] = None]
    /\ try' = [try EXCEPT ![w] = 0]
    /\ result' = [result EXCEPT ![w] = NoResult]

\* A worker receives a hint. Creation hints and discovery hints repeat and go
\* stale: any case that exists may be handed to any worker at any time.
StartJob(w, c) ==
    /\ pc[w] = "idle"
    /\ caseStatus[c] # "none"
    /\ pc' = [pc EXCEPT ![w] = "claim"]
    /\ job' = [job EXCEPT ![w] = c]
    /\ UNCHANGED <<plan, rowVars, at, try, result, effects, faults>>

\* ClaimNextCaseAction finds a running row, or none that is due: the job ends.
ClaimNothing(w) ==
    LET c == job[w] IN
    /\ pc[w] = "claim"
    /\ Busy(c) \/ Claimable(c) = {}
    /\ Leave(w)
    /\ UNCHANGED <<plan, rowVars, effects, faults>>

\* ClaimNextCaseAction takes the lowest due row, under the lock of the case row.
\* AttemptCount++ on a counter of fixed width.
NextAttempt(n) == (n + 1) % CountModulus

ClaimRow(w) ==
    LET c == job[w] IN
    /\ pc[w] = "claim"
    /\ ~Busy(c)
    /\ \E p \in Claimable(c) :
          LET n == NextAttempt(attempts[c][p]) IN
          /\ \A q \in Claimable(c) : p <= q
          /\ status' = [status EXCEPT ![c][p] = "running"]
          /\ attempts' = [attempts EXCEPT ![c][p] = n]
          /\ at' = [at EXCEPT ![w] = p]
          /\ try' = [try EXCEPT ![w] = n]
    /\ caseStatus' = [caseStatus EXCEPT ![c] = IF @ = "open" THEN "action_running" ELSE @]
    /\ pc' = [pc EXCEPT ![w] = "execute"]
    /\ UNCHANGED <<plan, recorded, backoff, resolved, job, result, effects, faults>>

\* The rows of irreversible actions are those not safe to retry. A DM may have
\* any outcome; what the moderation executors return is a constant, because
\* the repository ships them as stubs that fail permanently.
ResultsOf(c, p) == IF plan[c][p].safeForRetry THEN Outcomes ELSE ModerationResults

\* executeAction: the executor, then the notification DM after a success.
Execute(w) ==
    LET c == job[w]  p == at[w] IN
    /\ pc[w] = "execute"
    /\ \E r \in ResultsOf(c, p) :
          /\ result' = [result EXCEPT ![w] = r]
          /\ effects' = [effects EXCEPT ![c][p] = IF r.effect THEN @ + 1 ELSE @]
    /\ pc' = [pc EXCEPT ![w] = "complete"]
    /\ UNCHANGED <<plan, rowVars, job, at, try, faults>>

\* shouldRetryAction, on the copies the worker took with its claim.
RetriesUnsafe(w) ==
    /\ result[w].error = "retryable"
    /\ try[w] <= plan[job[w]][at[w]].maxRetries
RetriesOnceMore(w) ==
    LET policy == plan[job[w]][at[w]] IN
    /\ result[w].error = "retryable"
    /\ policy.safeForRetry
    /\ try[w] <= policy.maxRetries + 1
ShouldRetry(w) ==
    LET policy == plan[job[w]][at[w]] IN
    /\ result[w].error = "retryable"
    /\ policy.safeForRetry
    /\ try[w] <= policy.maxRetries

RowOutcome(w) ==
    IF result[w].error = "none" THEN "succeeded"
    ELSE IF ShouldRetry(w) THEN "retrying"
    ELSE "failed"

\* The failure stops the case: processClaimedAction goes on to SkipCaseActions.
NeverSkips(w) == FALSE
MustSkip(w) == RowOutcome(w) = "failed" /\ ~plan[job[w]][at[w]].continueOnError

\* CompleteCaseAction: the attempt row, the execution row, the case event, the
\* audit row and the case status commit together.
Complete(w) ==
    LET c == job[w]  p == at[w] IN
    /\ pc[w] = "complete"
    /\ try[w] \notin recorded[c][p]
    /\ recorded' = [recorded EXCEPT ![c][p] = @ \cup {try[w]}]
    /\ SetRows(c, [status[c] EXCEPT ![p] = RowOutcome(w)])
    /\ backoff' = IF RowOutcome(w) = "retrying" THEN backoff \cup {<<c, p>>} ELSE backoff
    /\ pc' = [pc EXCEPT ![w] = IF MustSkip(w) THEN "skip" ELSE "claim"]
    /\ at' = [at EXCEPT ![w] = IF MustSkip(w) THEN @ ELSE None]
    /\ try' = [try EXCEPT ![w] = 0]
    /\ result' = [result EXCEPT ![w] = NoResult]
    /\ UNCHANGED <<plan, attempts, job, effects, faults>>

\* CompleteCaseAction fails on the unique (execution_id, attempt_number) index:
\* the transaction rolls back, the job ends, the row stays running.
CompleteDuplicate(w) ==
    /\ pc[w] = "complete"
    /\ try[w] \in recorded[job[w]][at[w]]
    /\ Leave(w)
    /\ UNCHANGED <<plan, rowVars, effects, faults>>

\* SkipCaseActions: rows still waiting behind the failed one are given up; the
\* job then looks for the next row.
Skip(w) ==
    LET c == job[w]
        blocked == {q \in Positions : q > at[w] /\ status[c][q] \in Waiting}
    IN
    /\ pc[w] = "skip"
    /\ SetRows(c, [q \in Positions |-> IF q \in blocked THEN "skipped" ELSE status[c][q]])
    /\ backoff' = backoff \ ({c} \X blocked)
    /\ pc' = [pc EXCEPT ![w] = "claim"]
    /\ at' = [at EXCEPT ![w] = None]
    /\ UNCHANGED <<plan, attempts, recorded, job, try, result, effects, faults>>
-----------------------------------------------------------------------------
(* Faults                                                                  *)

\* A store error (a lost connection, a transaction chosen as the victim of a
\* deadlock) rolls back the transaction a worker is about to commit, or its
\* handler panics and the queue recovers: either way the job ends there.
JobFails(w) ==
    /\ "job" \in FaultKinds
    /\ pc[w] # "idle"
    /\ faults < MaxFaults
    /\ faults' = faults + 1
    /\ Leave(w)
    /\ UNCHANGED <<plan, rowVars, effects>>

\* The process ends without draining its workers; a new one starts idle.
Crash ==
    /\ "process" \in FaultKinds
    /\ \E w \in Workers : pc[w] # "idle"
    /\ faults < MaxFaults
    /\ faults' = faults + 1
    /\ pc' = [w \in Workers |-> "idle"]
    /\ job' = [w \in Workers |-> None]
    /\ at' = [w \in Workers |-> None]
    /\ try' = [w \in Workers |-> 0]
    /\ result' = [w \in Workers |-> NoResult]
    /\ UNCHANGED <<plan, rowVars, effects>>

\* What a worker inside ProcessCaseActions does when nothing goes wrong.
Step(w) ==
    \/ ClaimNothing(w)
    \/ ClaimRow(w)
    \/ Execute(w)
    \/ Complete(w)
    \/ CompleteDuplicate(w)
    \/ Skip(w)

Next ==
    \/ \E c \in Cases : CreateCase(c)
    \/ \E c \in Cases, p \in Positions : BackoffElapses(c, p)
    \/ \E w \in Workers, c \in Cases : StartJob(w, c)
    \/ \E w \in Workers : Step(w)
    \/ \E w \in Workers : JobFails(w)
    \/ Crash

Spec == Init /\ [][Next]_vars

\* Workers run, time passes, and the discovery pass of every second keeps
\* handing out a case for as long as it is listed. Nothing makes staff create
\* cases and nothing makes faults happen.
Fairness ==
    /\ \A w \in Workers : WF_vars(Step(w))
    /\ \A c \in Cases : SF_vars(\E w \in Workers : Listed(c) /\ StartJob(w, c))
    /\ \A c \in Cases, p \in Positions : WF_vars(BackoffElapses(c, p))

FairSpec == Spec /\ Fairness
-----------------------------------------------------------------------------
(* Properties                                                              *)

InFlight(w) == pc[w] \in {"execute", "complete"}

\* Every worker between its claim and its completion is the only one working
\* on its case, on a row that is running under the attempt number it holds:
\* the case lock of the claim is all that protects a completion, which checks
\* neither the row's status nor who claimed it.
ClaimsExclusive ==
    /\ \A w \in Workers : InFlight(w) =>
          /\ status[job[w]][at[w]] = "running"
          /\ attempts[job[w]][at[w]] = try[w]
    /\ \A v, w \in Workers : InFlight(v) /\ InFlight(w) /\ v # w => job[v] # job[w]

\* The outside effect of an action that is not safe to retry (timeout, kick,
\* ban) takes place at most once, whatever fails, crashes or is handed out
\* again.
UnsafeAtMostOnce ==
    \A c \in Cases : \A p \in PlannedAt(c) :
        ~plan[c][p].safeForRetry => effects[c][p] <= 1

\* The attempt rows of an execution are numbered 1, 2, ... without a gap up to
\* its attempt count; only the number of an unfinished attempt is missing. The
\* last value of the counter is excluded: there it wraps.
AttemptsGapless ==
    \A c \in Cases : \A p \in PlannedAt(c) :
        plan[c][p].maxRetries + 1 < CountModulus =>
            recorded[c][p] = (1 .. attempts[c][p])
                             \ (IF status[c][p] = "running" THEN {attempts[c][p]} ELSE {})

\* "Total attempts equal initial execution plus the configured retry count":
\* no more attempts, and no more effects, than MaxRetries + 1, for every limit
\* below the last value of the counter.
RetryBudget ==
    \A c \in Cases : \A p \in PlannedAt(c) :
        plan[c][p].maxRetries + 1 < CountModulus =>
            /\ attempts[c][p] <= plan[c][p].maxRetries + 1
            /\ effects[c][p] <= plan[c][p].maxRetries + 1

\* Both together.
AttemptsAddUp == AttemptsGapless /\ RetryBudget

\* The row at p failed and the snapshot says that the case stops there.
StopsCase(c, p) ==
    /\ status[c][p] = "failed"
    /\ ~plan[c][p].continueOnError

\* A row is skipped only behind a failed row whose policy stops the case: a
\* continue_on_error failure, or another worker's progress, gives nothing up.
SkippedBehindFailure ==
    \A c \in Cases, q \in Positions : status[c][q] = "skipped" =>
        \E p \in Positions : p < q /\ StopsCase(c, p)

\* The engine implements the promises of CaseLedger.
Ledger == INSTANCE CaseLedger WITH rows <- status, summary <- caseStatus
LedgerSpec == Ledger!Spec

\* "Skip later actions when a failure should stop the pipeline"
\* (docs/modules/action-engine.md): no row behind a failure that stops the
\* case has run or is running.
StopsAtFailure ==
    \A c \in Cases, p, q \in Positions :
        p < q /\ p \in PlannedAt(c) /\ StopsCase(c, p) => attempts[c][q] = 0

Settled(c) == \A p \in PlannedAt(c) : status[c][p] \in Ended

\* A retry limit below the last value of the counter, which can pass it.
Bounded(c) == \A p \in PlannedAt(c) : plan[c][p].maxRetries < CountModulus - 1

\* If no fault happens, every case that is created is worked to its end: hints
\* may be lost and workers may collide, the discovery pass makes up for it. A
\* row that may be retried up to the counter's last value is retried for ever.
CasesSettle ==
    [](faults = 0) =>
        \A c \in Cases : caseStatus[c] # "none" /\ Bounded(c) ~> Settled(c)

\* A running row that no worker holds.
Orphaned(c) ==
    \E p \in Positions :
        /\ status[c][p] = "running"
        /\ ~\E w \in Workers : InFlight(w) /\ job[w] = c /\ at[w] = p

\* Faults included, work that is due is done, unless a worker died between the
\* claim and the completion of a row of that case.
DueWorkMoves == \A c \in Cases : Listed(c) ~> (~Listed(c) \/ Orphaned(c))

\* "Action rows are persisted so work can recover after queue saturation or
\* process restart" (docs/v5-scope-drift.md): a case whose actions are under way
\* when the process ends is still worked to its end by the next one.
RecoversAfterRestart ==
    \A c \in Cases : caseStatus[c] = "action_running" ~> caseStatus[c] # "action_running"
=============================================================================
