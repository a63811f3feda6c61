------------------------- MODULE ActionEngineProofs -------------------------
(***************************************************************************)
(* Proofs about ActionEngine for every set of cases, workers, positions    *)
(* and plans, every counter width and every number of faults.              *)
(***************************************************************************)
EXTENDS EngineCrews, TLAPS

CaseStatuses == {"none", "open", "action_running", "completed", "failed"}

\* A busy worker has a case that exists, and a position from its claim on.
WorkerOK ==
    \A w \in Workers :
        /\ pc[w] # "idle" => job[w] \in Cases /\ caseStatus[job[w]] # "none"
        /\ pc[w] \in {"execute", "complete", "skip"} => at[w] \in Positions

Typed == TypeOK /\ WorkerOK

-----------------------------------------------------------------------------
(* What the helpers return                                                 *)

\* The rows of a plan lie at positions, and hold policies.
LEMMA PlannedInPositions ==
    ASSUME TypeOK, NEW c \in Cases, NEW p \in PlannedAt(c)
    PROVE  p \in Positions /\ plan[c][p] \in Policy
<1>1. plan[c] \in Plans
  BY DEF TypeOK
<1>2. PICK P \in SUBSET Positions : plan[c] \in [P -> Policy]
  BY <1>1, EngineAssumption
<1>3. DOMAIN plan[c] = P
  BY <1>2
<1>4. QED
  BY <1>2, <1>3 DEF PlannedAt

\* Claiming increments the attempt counter within its width.
LEMMA NextAttemptType ==
    ASSUME NEW n \in Counts
    PROVE  NextAttempt(n) \in Counts
BY EngineAssumption DEF NextAttempt, Counts

\* The recomputed status is a case status, and leaves "none" only behind for
\* a case that was "none".
LEMMA StatusFromActionsType ==
    ASSUME TypeOK, NEW c \in Cases, NEW rows \in [Positions -> RowStatus]
    PROVE  /\ StatusFromActions(c, rows) \in CaseStatuses
           /\ caseStatus[c] # "none" => StatusFromActions(c, rows) # "none"
BY DEF TypeOK, StatusFromActions, CaseStatuses

\* Writing the rows of one case keeps the types and touches no other case.
LEMMA SetRowsFrame ==
    ASSUME TypeOK, NEW c \in Cases, NEW rows \in [Positions -> RowStatus],
           SetRows(c, rows)
    PROVE  /\ status' \in [Cases -> [Positions -> RowStatus]]
           /\ status'[c] = rows
           /\ \A d \in Cases : d # c => status'[d] = status[d] /\ caseStatus'[d] = caseStatus[d]
           /\ caseStatus' \in [Cases -> CaseStatuses]
           /\ caseStatus'[c] = StatusFromActions(c, rows)
           /\ caseStatus[c] # "none" => caseStatus'[c] # "none"
           /\ resolved' \subseteq Cases
<1>1. /\ StatusFromActions(c, rows) \in CaseStatuses
      /\ caseStatus[c] # "none" => StatusFromActions(c, rows) # "none"
  BY StatusFromActionsType
<1>2. /\ status' = [status EXCEPT ![c] = rows]
      /\ caseStatus' = [caseStatus EXCEPT ![c] = StatusFromActions(c, rows)]
      /\ resolved' \in {resolved, resolved \cup {c}}
  BY DEF SetRows
<1>3. QED
  BY <1>1, <1>2 DEF TypeOK, CaseStatuses

\* The outcome of a completed attempt is a row status, and a failure, a
\* success or a retry.
LEMMA RowOutcomeType ==
    ASSUME NEW w
    PROVE  RowOutcome(w) \in {"succeeded", "retrying", "failed"}
BY DEF RowOutcome

-----------------------------------------------------------------------------
(* Type correctness                                                        *)

LEMMA InitTyped == Init => Typed
BY EngineAssumption DEF Init, Typed, TypeOK, WorkerOK, RowStatus, Waiting, Ended,
   Counts, NoResult, Results

LEMMA LeaveTyped ==
    ASSUME Typed, NEW w \in Workers, Leave(w), UNCHANGED caseStatus
    PROVE  /\ WorkerOK'
           /\ pc' \in [Workers -> {"idle", "claim", "execute", "complete", "skip"}]
           /\ job' \in [Workers -> Cases \cup {None}]
           /\ at' \in [Workers -> Positions \cup {None}]
           /\ try' \in [Workers -> Counts]
           /\ result' \in [Workers -> Results]
BY EngineAssumption DEF Typed, TypeOK, WorkerOK, Leave, Counts, NoResult, Results

LEMMA NextTyped == Typed /\ [Next]_vars => Typed'
<1> SUFFICES ASSUME Typed, [Next]_vars
             PROVE  Typed'
  OBVIOUS
<1> USE DEF Typed
<1>1. ASSUME NEW c \in Cases, CreateCase(c)
      PROVE  Typed'
  <2>1. [p \in Positions |-> IF p \in PlannedAt(c) THEN "pending" ELSE "absent"]
          \in [Positions -> RowStatus]
    BY DEF RowStatus, Waiting
  <2>2. TypeOK'
    BY <1>1, <2>1 DEF CreateCase, TypeOK, workerVars
  <2>3. WorkerOK'
    BY <1>1 DEF CreateCase, TypeOK, WorkerOK, workerVars
  <2>4. QED
    BY <2>2, <2>3
<1>2. ASSUME NEW c \in Cases, NEW p \in Positions, BackoffElapses(c, p)
      PROVE  Typed'
  BY <1>2 DEF BackoffElapses, TypeOK, WorkerOK, workerVars
<1>3. ASSUME NEW w \in Workers, NEW c \in Cases, StartJob(w, c)
      PROVE  Typed'
  BY <1>3 DEF StartJob, TypeOK, WorkerOK, rowVars
<1>4. ASSUME NEW w \in Workers, ClaimNothing(w)
      PROVE  Typed'
  BY <1>4, LeaveTyped DEF ClaimNothing, TypeOK, rowVars
<1>5. ASSUME NEW w \in Workers, ClaimRow(w)
      PROVE  Typed'
  <2>1. PICK p \in Claimable(job[w]) :
          /\ status' = [status EXCEPT ![job[w]][p] = "running"]
          /\ attempts' = [attempts EXCEPT ![job[w]][p] = NextAttempt(attempts[job[w]][p])]
          /\ at' = [at EXCEPT ![w] = p]
          /\ try' = [try EXCEPT ![w] = NextAttempt(attempts[job[w]][p])]
    BY <1>5 DEF ClaimRow
  <2>2. p \in Positions /\ job[w] \in Cases
    BY <1>5 DEF Claimable, ClaimRow, WorkerOK
  <2>3. NextAttempt(attempts[job[w]][p]) \in Counts
    BY <2>2, NextAttemptType DEF TypeOK
  <2>4. TypeOK'
    BY <1>5, <2>1, <2>2, <2>3 DEF ClaimRow, TypeOK, RowStatus
  <2>5. WorkerOK'
    BY <1>5, <2>1, <2>2 DEF ClaimRow, TypeOK, WorkerOK
  <2>6. QED
    BY <2>4, <2>5
<1>6. ASSUME NEW w \in Workers, Execute(w)
      PROVE  Typed'
  <2>1. PICK r \in ResultsOf(job[w], at[w]) :
          /\ result' = [result EXCEPT ![w] = r]
          /\ effects' = [effects EXCEPT ![job[w]][at[w]] = IF r.effect THEN @ + 1 ELSE @]
    BY <1>6 DEF Execute
  <2>2. r \in Results
    BY EngineAssumption DEF ResultsOf, Outcomes
  <2>3. job[w] \in Cases /\ at[w] \in Positions
    BY <1>6 DEF Execute, WorkerOK
  <2>4. effects' \in [Cases -> [Positions -> Nat]]
    BY <2>1, <2>3 DEF TypeOK
  <2>5. QED
    BY <1>6, <2>1, <2>2, <2>4 DEF Execute, TypeOK, WorkerOK, rowVars
<1>7. ASSUME NEW w \in Workers, Complete(w)
      PROVE  Typed'
  <2> DEFINE rows == [status[job[w]] EXCEPT ![at[w]] = RowOutcome(w)]
  <2>1. job[w] \in Cases /\ at[w] \in Positions /\ caseStatus[job[w]] # "none"
    BY <1>7 DEF Complete, WorkerOK
  <2>2. rows \in [Positions -> RowStatus]
    BY <2>1, RowOutcomeType DEF TypeOK, RowStatus, Waiting, Ended
  <2>3. SetRows(job[w], rows)
    BY <1>7 DEF Complete
  <2>4. /\ status' \in [Cases -> [Positions -> RowStatus]]
        /\ caseStatus' \in [Cases -> CaseStatuses]
        /\ \A d \in Cases : caseStatus[d] # "none" => caseStatus'[d] # "none"
        /\ resolved' \subseteq Cases
    BY <2>1, <2>2, <2>3, SetRowsFrame
  <2>5. recorded' \in [Cases -> [Positions -> SUBSET Counts]]
    BY <1>7, <2>1 DEF Complete, TypeOK
  <2>6. backoff' \subseteq Cases \X Positions
    BY <1>7, <2>1 DEF Complete, TypeOK
  <2>7. TypeOK'
    BY <1>7, <2>4, <2>5, <2>6, EngineAssumption
       DEF Complete, TypeOK, CaseStatuses, NoResult, Results, Counts
  <2>8. WorkerOK'
    BY <1>7, <2>1, <2>4 DEF Complete, TypeOK, WorkerOK
  <2>9. QED
    BY <2>7, <2>8
<1>8. ASSUME NEW w \in Workers, CompleteDuplicate(w)
      PROVE  Typed'
  BY <1>8, LeaveTyped DEF CompleteDuplicate, TypeOK, rowVars
<1>9. ASSUME NEW w \in Workers, Skip(w)
      PROVE  Typed'
  <2> DEFINE blocked == {q \in Positions : q > at[w] /\ status[job[w]][q] \in Waiting}
  <2> DEFINE rows == [q \in Positions |-> IF q \in blocked THEN "skipped" ELSE status[job[w]][q]]
  <2>1. job[w] \in Cases /\ caseStatus[job[w]] # "none"
    BY <1>9 DEF Skip, WorkerOK
  <2>2. rows \in [Positions -> RowStatus]
    BY <2>1 DEF TypeOK, RowStatus, Ended
  <2>3. SetRows(job[w], rows)
    BY <1>9 DEF Skip
  <2>4. /\ status' \in [Cases -> [Positions -> RowStatus]]
        /\ caseStatus' \in [Cases -> CaseStatuses]
        /\ \A d \in Cases : caseStatus[d] # "none" => caseStatus'[d] # "none"
        /\ resolved' \subseteq Cases
    BY <2>1, <2>2, <2>3, SetRowsFrame
  <2>5. backoff' \subseteq Cases \X Positions
    BY <1>9 DEF Skip, TypeOK
  <2>6. TypeOK'
    BY <1>9, <2>4, <2>5 DEF Skip, TypeOK, CaseStatuses
  <2>7. WorkerOK'
    BY <1>9, <2>1, <2>4 DEF Skip, TypeOK, WorkerOK
  <2>8. QED
    BY <2>6, <2>7
<1>10. ASSUME NEW w \in Workers, JobFails(w)
       PROVE  Typed'
  <2>1. faults' \in 0 .. MaxFaults
    BY <1>10, EngineAssumption DEF JobFails, TypeOK
  <2>2. QED
    BY <1>10, <2>1, LeaveTyped DEF JobFails, TypeOK, rowVars
<1>11. ASSUME Crash
       PROVE  Typed'
  <2>1. faults' \in 0 .. MaxFaults
    BY <1>11, EngineAssumption DEF Crash, TypeOK
  <2>2. QED
    BY <1>11, <2>1, EngineAssumption
       DEF Crash, TypeOK, WorkerOK, rowVars, NoResult, Results, Counts
<1>12. CASE UNCHANGED vars
  BY <1>12 DEF vars, rowVars, workerVars, TypeOK, WorkerOK
<1>13. QED
  BY <1>1, <1>2, <1>3, <1>4, <1>5, <1>6, <1>7, <1>8, <1>9, <1>10, <1>11, <1>12
     DEF Next, Step

\* Every variable keeps its type; a worker past its claim has a case that
\* exists and a position.
THEOREM TypeCorrect == Spec => []TypeOK
<1>1. Spec => []Typed
  BY InitTyped, NextTyped, PTL DEF Spec
<1>2. Typed => TypeOK
  BY DEF Typed
<1>3. QED
  BY <1>1, <1>2, PTL

-----------------------------------------------------------------------------
(* Claims exclude each other                                               *)

\* At most one row of a case is running: the claim counts the running rows
\* under the case lock. With it, ClaimsExclusive is inductive.
Serial ==
    \A c \in Cases : \A p, q \in Positions :
        status[c][p] = "running" /\ status[c][q] = "running" => p = q

ExclusiveInv == Typed /\ Serial /\ ClaimsExclusive

LEMMA InitExclusive == Init => ExclusiveInv
<1>1. Init => Serial /\ ClaimsExclusive
  BY DEF Init, Serial, ClaimsExclusive, InFlight
<1>2. QED
  BY <1>1, InitTyped DEF ExclusiveInv

LEMMA LeaveExclusive ==
    ASSUME ExclusiveInv, NEW w \in Workers, Leave(w), UNCHANGED <<status, attempts>>
    PROVE  Serial' /\ ClaimsExclusive'
BY DEF ExclusiveInv, Typed, TypeOK, Serial, ClaimsExclusive, InFlight, Leave

LEMMA NextExclusive == ExclusiveInv /\ [Next]_vars => ExclusiveInv'
<1> SUFFICES ASSUME ExclusiveInv, [Next]_vars
             PROVE  Serial' /\ ClaimsExclusive'
  BY NextTyped DEF ExclusiveInv
<1> USE DEF ExclusiveInv, Typed
<1>1. ASSUME NEW c \in Cases, CreateCase(c)
      PROVE  Serial' /\ ClaimsExclusive'
  BY <1>1 DEF CreateCase, TypeOK, WorkerOK, Serial, ClaimsExclusive, InFlight, workerVars
<1>2. ASSUME NEW c \in Cases, NEW p \in Positions, BackoffElapses(c, p)
      PROVE  Serial' /\ ClaimsExclusive'
  BY <1>2 DEF BackoffElapses, Serial, ClaimsExclusive, InFlight, workerVars
<1>3. ASSUME NEW w \in Workers, NEW c \in Cases, StartJob(w, c)
      PROVE  Serial' /\ ClaimsExclusive'
  BY <1>3 DEF StartJob, TypeOK, Serial, ClaimsExclusive, InFlight, rowVars
<1>4. ASSUME NEW w \in Workers, ClaimNothing(w)
      PROVE  Serial' /\ ClaimsExclusive'
  BY <1>4, LeaveExclusive DEF ClaimNothing, rowVars
<1>5. ASSUME NEW w \in Workers, ClaimRow(w)
      PROVE  Serial' /\ ClaimsExclusive'
  <2>1. PICK p \in Claimable(job[w]) :
          /\ status' = [status EXCEPT ![job[w]][p] = "running"]
          /\ attempts' = [attempts EXCEPT ![job[w]][p] = NextAttempt(attempts[job[w]][p])]
          /\ at' = [at EXCEPT ![w] = p]
          /\ try' = [try EXCEPT ![w] = NextAttempt(attempts[job[w]][p])]
    BY <1>5 DEF ClaimRow
  <2>2. p \in Positions /\ job[w] \in Cases
    BY <1>5 DEF Claimable, ClaimRow, WorkerOK
  <2>3. \A q \in Positions : status[job[w]][q] # "running"
    BY <1>5 DEF ClaimRow, Busy
  <2>4. \A v \in Workers : InFlight(v) => job[v] # job[w]
    BY <2>3 DEF ClaimsExclusive, WorkerOK, InFlight
  <2>5. Serial'
    BY <2>1, <2>2, <2>3 DEF TypeOK, Serial
  <2>6. ClaimsExclusive'
    BY <1>5, <2>1, <2>2, <2>4 DEF ClaimRow, TypeOK, WorkerOK, ClaimsExclusive, InFlight
  <2>7. QED
    BY <2>5, <2>6
<1>6. ASSUME NEW w \in Workers, Execute(w)
      PROVE  Serial' /\ ClaimsExclusive'
  BY <1>6 DEF Execute, TypeOK, Serial, ClaimsExclusive, InFlight, rowVars
<1>7. ASSUME NEW w \in Workers, Complete(w)
      PROVE  Serial' /\ ClaimsExclusive'
  <2>1. job[w] \in Cases /\ at[w] \in Positions
    BY <1>7 DEF Complete, WorkerOK
  <2>2. status' = [status EXCEPT ![job[w]] = [@ EXCEPT ![at[w]] = RowOutcome(w)]]
    BY <1>7 DEF Complete, SetRows
  <2>3. RowOutcome(w) # "running"
    BY RowOutcomeType
  <2>4. Serial'
    BY <2>1, <2>2, <2>3 DEF TypeOK, Serial
  <2>5. /\ \A v \in Workers \ {w} : InFlight(v) => job[v] # job[w]
        /\ \A v \in Workers \ {w} : InFlight(v)' <=> InFlight(v)
        /\ ~InFlight(w)'
    BY <1>7 DEF Complete, TypeOK, ClaimsExclusive, InFlight
  <2>6. ClaimsExclusive'
    <3>1. UNCHANGED <<job, attempts>> /\ \A v \in Workers \ {w} : at'[v] = at[v] /\ try'[v] = try[v]
      BY <1>7 DEF Complete, TypeOK
    <3>2. \A v \in Workers \ {w} : InFlight(v) => status'[job[v]][at[v]] = status[job[v]][at[v]]
      BY <2>2, <2>5 DEF TypeOK, WorkerOK, InFlight
    <3>3. QED
      BY <2>5, <3>1, <3>2 DEF ClaimsExclusive
  <2>7. QED
    BY <2>4, <2>6
<1>8. ASSUME NEW w \in Workers, CompleteDuplicate(w)
      PROVE  Serial' /\ ClaimsExclusive'
  BY <1>8, LeaveExclusive DEF CompleteDuplicate, rowVars
<1>9. ASSUME NEW w \in Workers, Skip(w)
      PROVE  Serial' /\ ClaimsExclusive'
  <2>1. job[w] \in Cases
    BY <1>9 DEF Skip, WorkerOK
  <2>2. \A d \in Cases : \A q \in Positions :
          (status'[d][q] = "running") <=> (status[d][q] = "running")
    BY <1>9, <2>1 DEF Skip, SetRows, TypeOK, Waiting
  <2>3. \A v \in Workers : InFlight(v)' => InFlight(v)
    BY <1>9 DEF Skip, TypeOK, InFlight
  <2>4. \A v \in Workers : InFlight(v)' => job'[v] = job[v] /\ at'[v] = at[v] /\ try'[v] = try[v]
    BY <1>9 DEF Skip, TypeOK, InFlight
  <2>5. QED
    BY <1>9, <2>2, <2>3, <2>4 DEF Skip, WorkerOK, Serial, ClaimsExclusive, InFlight
<1>10. ASSUME NEW w \in Workers, JobFails(w)
       PROVE  Serial' /\ ClaimsExclusive'
  BY <1>10, LeaveExclusive DEF JobFails, rowVars
<1>11. ASSUME Crash
       PROVE  Serial' /\ ClaimsExclusive'
  BY <1>11 DEF Crash, Serial, ClaimsExclusive, InFlight, rowVars
<1>12. CASE UNCHANGED vars
  BY <1>12 DEF vars, rowVars, workerVars, Serial, ClaimsExclusive, InFlight
<1>13. QED
  BY <1>1, <1>2, <1>3, <1>4, <1>5, <1>6, <1>7, <1>8, <1>9, <1>10, <1>11, <1>12
     DEF Next, Step

LEMMA AlwaysExclusive == Spec => []ExclusiveInv
BY InitExclusive, NextExclusive, PTL DEF Spec

\* A worker between claim and completion is alone on its case, on a row that is
\* running under the attempt number it holds. This is what a completion, which
\* checks nothing, relies on.
THEOREM ClaimsExclude == Spec => []ClaimsExclusive
BY AlwaysExclusive, PTL DEF ExclusiveInv

-----------------------------------------------------------------------------
(* The status of a case summarises its rows                                *)

\* A case that was not created has no rows; the status of any other is the
\* summary of its rows.
SummaryOK ==
    \A c \in Cases :
        IF caseStatus[c] = "none"
        THEN \A p \in Positions : status[c][p] = "absent"
        ELSE caseStatus[c] = Ledger!Summarise(status[c])

\* A worker that is about to skip has a failed row behind it.
SkipOK ==
    \A w \in Workers : pc[w] = "skip" => status[job[w]][at[w]] = "failed"

LedgerInv == ExclusiveInv /\ SummaryOK /\ SkipOK

\* Where a row has run, the code's recomputation is the summary.
LEMMA StatusIsSummary ==
    ASSUME NEW c, NEW rows, NEW p \in Positions,
           rows[p] \in {"running", "succeeded", "failed", "retrying"}
    PROVE  StatusFromActions(c, rows) = Ledger!Summarise(rows)
BY DEF StatusFromActions, Ledger!Summarise, Waiting, Ledger!Waiting

\* Rewriting one case's rows with the right status keeps SummaryOK.
LEMMA RewriteSummary ==
    ASSUME LedgerInv, NEW c \in Cases, NEW r \in [Positions -> RowStatus],
           status' = [status EXCEPT ![c] = r],
           caseStatus' = [caseStatus EXCEPT ![c] = Ledger!Summarise(r)]
    PROVE  SummaryOK'
<1>1. Ledger!Summarise(r) # "none"
  BY DEF Ledger!Summarise
<1>2. \A d \in Cases : /\ status'[d] = IF d = c THEN r ELSE status[d]
                       /\ caseStatus'[d] = IF d = c THEN Ledger!Summarise(r) ELSE caseStatus[d]
  BY DEF LedgerInv, ExclusiveInv, Typed, TypeOK
<1>3. ASSUME NEW d \in Cases
      PROVE  IF caseStatus'[d] = "none"
             THEN \A p \in Positions : status'[d][p] = "absent"
             ELSE caseStatus'[d] = Ledger!Summarise(status'[d])
  BY <1>1, <1>2 DEF LedgerInv, SummaryOK
<1>4. QED
  BY <1>3 DEF SummaryOK, Ledger!Summarise, Ledger!Waiting

-----------------------------------------------------------------------------
(* What the four actions that write rows do to the ledger                  *)

LEMMA CreateRewrites ==
    ASSUME LedgerInv, NEW c \in Cases, CreateCase(c)
    PROVE  \E r \in [Positions -> RowStatus] :
              /\ status' = [status EXCEPT ![c] = r]
              /\ caseStatus' = [caseStatus EXCEPT ![c] = Ledger!Summarise(r)]
              /\ Ledger!Open(c)
<1> DEFINE r == [p \in Positions |-> IF p \in PlannedAt(c) THEN "pending" ELSE "absent"]
<1>1. r \in [Positions -> RowStatus]
  BY DEF RowStatus, Waiting
<1>2. Ledger!Summarise(r) = "open"
  BY DEF Ledger!Summarise
<1>3. status' = [status EXCEPT ![c] = r] /\ caseStatus' = [caseStatus EXCEPT ![c] = "open"]
  BY DEF CreateCase
<1> DEFINE present == PlannedAt(c) \cap Positions
<1>4. r = [p \in Positions |-> IF p \in present THEN "pending" ELSE "absent"]
  OBVIOUS
<1>5. Ledger!Rewrite(c, r)
  BY <1>2, <1>3 DEF Ledger!Rewrite
<1>6. Ledger!Open(c)
  <2>1. present \in SUBSET Positions
    OBVIOUS
  <2>2. Ledger!Rewrite(c, [p \in Positions |-> IF p \in present THEN "pending" ELSE "absent"])
    BY <1>4, <1>5
  <2>3. caseStatus[c] = "none"
    BY DEF CreateCase
  <2> HIDE DEF present
  <2>4. QED
    BY <2>1, <2>2, <2>3 DEF Ledger!Open
<1> HIDE DEF r
<1>7. QED
  BY <1>1, <1>2, <1>3, <1>6

LEMMA ClaimRewrites ==
    ASSUME LedgerInv, NEW w \in Workers, ClaimRow(w)
    PROVE  \E p \in Positions, r \in [Positions -> RowStatus] :
              /\ status' = [status EXCEPT ![job[w]] = r]
              /\ caseStatus' = [caseStatus EXCEPT ![job[w]] = Ledger!Summarise(r)]
              /\ r = [status[job[w]] EXCEPT ![p] = "running"]
              /\ status[job[w]][p] \in Waiting
              /\ Ledger!Begin(job[w], p)
<1> DEFINE c == job[w]
<1>1. PICK p \in Claimable(c) : status' = [status EXCEPT ![c][p] = "running"]
  BY DEF ClaimRow
<1>2. /\ c \in Cases
      /\ p \in Positions
      /\ status[c][p] \in Waiting
      /\ caseStatus[c] # "none"
  BY DEF Claimable, ClaimRow, LedgerInv, ExclusiveInv, Typed, WorkerOK
<1> DEFINE r == [status[c] EXCEPT ![p] = "running"]
<1>3. status[c] \in [Positions -> RowStatus] /\ r \in [Positions -> RowStatus]
  BY <1>2 DEF LedgerInv, ExclusiveInv, Typed, TypeOK, RowStatus
<1>4. status' = [status EXCEPT ![c] = r]
  BY <1>1
<1>5. caseStatus[c] = Ledger!Summarise(status[c])
  BY <1>2 DEF LedgerInv, SummaryOK
<1>6. Ledger!Summarise(r) = IF caseStatus[c] = "open" THEN "action_running" ELSE caseStatus[c]
  BY <1>2, <1>3, <1>5 DEF Ledger!Summarise, Waiting, Ledger!Waiting
<1>7. caseStatus' = [caseStatus EXCEPT ![c] = Ledger!Summarise(r)]
  BY <1>6 DEF ClaimRow
<1>8. Ledger!Begin(c, p)
  BY <1>2, <1>4, <1>7 DEF ClaimRow, Busy, Ledger!Begin, Ledger!Rewrite, Waiting, Ledger!Waiting
<1> HIDE DEF r
<1>9. r = [status[c] EXCEPT ![p] = "running"]
  BY DEF r
<1>10. QED
  BY <1>2, <1>3, <1>4, <1>7, <1>8, <1>9

LEMMA CompleteRewrites ==
    ASSUME LedgerInv, NEW w \in Workers, Complete(w)
    PROVE  \E r \in [Positions -> RowStatus] :
              /\ status' = [status EXCEPT ![job[w]] = r]
              /\ caseStatus' = [caseStatus EXCEPT ![job[w]] = Ledger!Summarise(r)]
              /\ r = [status[job[w]] EXCEPT ![at[w]] = RowOutcome(w)]
              /\ Ledger!End(job[w], at[w])
<1> DEFINE c == job[w]  r == [status[c] EXCEPT ![at[w]] = RowOutcome(w)]
<1>1. /\ c \in Cases /\ at[w] \in Positions
      /\ status[c][at[w]] = "running"
  BY DEF Complete, LedgerInv, ExclusiveInv, Typed, WorkerOK, ClaimsExclusive, InFlight
<1>2. r \in [Positions -> RowStatus] /\ r[at[w]] = RowOutcome(w)
  BY <1>1, RowOutcomeType DEF LedgerInv, ExclusiveInv, Typed, TypeOK, RowStatus, Waiting, Ended
<1>3. StatusFromActions(c, r) = Ledger!Summarise(r)
  BY <1>1, <1>2, StatusIsSummary, RowOutcomeType
<1>4. /\ status' = [status EXCEPT ![c] = r]
      /\ caseStatus' = [caseStatus EXCEPT ![c] = Ledger!Summarise(r)]
  BY <1>3 DEF Complete, SetRows
<1>5. Ledger!End(c, at[w])
  BY <1>1, <1>4, RowOutcomeType DEF Ledger!End, Ledger!Rewrite
<1>6. r = [status[c] EXCEPT ![at[w]] = RowOutcome(w)]
  OBVIOUS
<1> HIDE DEF r
<1>7. QED
  BY <1>2, <1>4, <1>5, <1>6

LEMMA SkipRewrites ==
    ASSUME LedgerInv, NEW w \in Workers, Skip(w)
    PROVE  \E r \in [Positions -> RowStatus] :
              /\ status' = [status EXCEPT ![job[w]] = r]
              /\ caseStatus' = [caseStatus EXCEPT ![job[w]] = Ledger!Summarise(r)]
              /\ \A q \in Positions :
                    \/ r[q] = status[job[w]][q]
                    \/ status[job[w]][q] \in Waiting /\ r[q] = "skipped"
              /\ Ledger!Block(job[w], at[w])
<1> DEFINE c == job[w]
           blocked == {q \in Positions : q > at[w] /\ status[c][q] \in Waiting}
           r == [q \in Positions |-> IF q \in blocked THEN "skipped" ELSE status[c][q]]
<1>1. /\ c \in Cases /\ at[w] \in Positions
      /\ status[c][at[w]] = "failed"
  BY DEF Skip, LedgerInv, ExclusiveInv, Typed, WorkerOK, SkipOK
<1>2. r \in [Positions -> RowStatus]
  BY <1>1 DEF LedgerInv, ExclusiveInv, Typed, TypeOK, RowStatus, Ended
<1>3. r[at[w]] = "failed"
  BY <1>1 DEF Waiting
<1>4. StatusFromActions(c, r) = Ledger!Summarise(r)
  <2> HIDE DEF r
  <2>1. QED
    BY <1>1, <1>3, StatusIsSummary
<1>5. /\ status' = [status EXCEPT ![c] = r]
      /\ caseStatus' = [caseStatus EXCEPT ![c] = Ledger!Summarise(r)]
  BY <1>4 DEF Skip, SetRows
<1>6. r = [q \in Positions |-> IF q > at[w] /\ status[c][q] \in Ledger!Waiting
                              THEN "skipped" ELSE status[c][q]]
  BY DEF Waiting, Ledger!Waiting
<1>7. Ledger!Block(c, at[w])
  BY <1>1, <1>5, <1>6 DEF Ledger!Block, Ledger!Rewrite
<1>8. \A q \in Positions :
         \/ r[q] = status[c][q]
         \/ status[c][q] \in Waiting /\ r[q] = "skipped"
  OBVIOUS
<1> HIDE DEF r
<1>9. QED
  BY <1>2, <1>5, <1>7, <1>8

-----------------------------------------------------------------------------
(* The engine implements the ledger                                        *)

LEMMA InitLedger == Init => LedgerInv
BY InitExclusive DEF Init, LedgerInv, SummaryOK, SkipOK

\* Steps that write no row and send no worker to its skip.
LEMMA NoRowsWritten ==
    ASSUME LedgerInv, UNCHANGED <<status, caseStatus>>,
           \A w \in Workers : pc'[w] = "skip" =>
               pc[w] = "skip" /\ job'[w] = job[w] /\ at'[w] = at[w]
    PROVE  SummaryOK' /\ SkipOK'
BY DEF LedgerInv, SummaryOK, SkipOK, Ledger!Summarise, Ledger!Waiting

LEMMA LeaveWritesNothing ==
    ASSUME LedgerInv, NEW w \in Workers, Leave(w), UNCHANGED <<status, caseStatus>>
    PROVE  SummaryOK' /\ SkipOK'
<1>1. \A v \in Workers : pc'[v] = "skip" =>
         pc[v] = "skip" /\ job'[v] = job[v] /\ at'[v] = at[v]
  BY DEF Leave, LedgerInv, ExclusiveInv, Typed, TypeOK
<1>2. QED
  BY <1>1, NoRowsWritten

LEMMA NextLedger == LedgerInv /\ [Next]_vars => LedgerInv'
<1> SUFFICES ASSUME LedgerInv, [Next]_vars
             PROVE  SummaryOK' /\ SkipOK'
  BY NextExclusive DEF LedgerInv
<1>0. Typed /\ TypeOK /\ WorkerOK /\ ClaimsExclusive /\ SummaryOK /\ SkipOK
  BY DEF LedgerInv, ExclusiveInv, Typed
<1>1. ASSUME NEW c \in Cases, CreateCase(c)
      PROVE  SummaryOK' /\ SkipOK'
  <2>1. PICK r \in [Positions -> RowStatus] :
          /\ status' = [status EXCEPT ![c] = r]
          /\ caseStatus' = [caseStatus EXCEPT ![c] = Ledger!Summarise(r)]
    BY <1>1, CreateRewrites
  <2>2. SummaryOK'
    BY <2>1, RewriteSummary
  <2>3. SkipOK'
    BY <1>0, <1>1, <2>1 DEF CreateCase, TypeOK, WorkerOK, SkipOK, workerVars
  <2>4. QED
    BY <2>2, <2>3
<1>2. ASSUME NEW c \in Cases, NEW p \in Positions, BackoffElapses(c, p)
      PROVE  SummaryOK' /\ SkipOK'
  BY <1>2, NoRowsWritten DEF BackoffElapses, workerVars
<1>3. ASSUME NEW w \in Workers, NEW c \in Cases, StartJob(w, c)
      PROVE  SummaryOK' /\ SkipOK'
  BY <1>0, <1>3, NoRowsWritten DEF StartJob, TypeOK, rowVars
<1>4. ASSUME NEW w \in Workers, ClaimNothing(w)
      PROVE  SummaryOK' /\ SkipOK'
  BY <1>4, LeaveWritesNothing DEF ClaimNothing, rowVars
<1>5. ASSUME NEW w \in Workers, ClaimRow(w)
      PROVE  SummaryOK' /\ SkipOK'
  <2>1. PICK p \in Positions, r \in [Positions -> RowStatus] :
          /\ status' = [status EXCEPT ![job[w]] = r]
          /\ caseStatus' = [caseStatus EXCEPT ![job[w]] = Ledger!Summarise(r)]
          /\ r = [status[job[w]] EXCEPT ![p] = "running"]
          /\ status[job[w]][p] \in Waiting
    BY <1>5, ClaimRewrites
  <2>2. job[w] \in Cases
    BY <1>0, <1>5 DEF ClaimRow, WorkerOK
  <2>3. SummaryOK'
    BY <2>1, <2>2, RewriteSummary
  <2>4. \A v \in Workers : pc'[v] = "skip" =>
          pc[v] = "skip" /\ job'[v] = job[v] /\ at'[v] = at[v]
    BY <1>0, <1>5 DEF ClaimRow, TypeOK
  <2>5. SkipOK'
    BY <1>0, <2>1, <2>2, <2>4 DEF TypeOK, WorkerOK, SkipOK, Waiting
  <2>6. QED
    BY <2>3, <2>5
<1>6. ASSUME NEW w \in Workers, Execute(w)
      PROVE  SummaryOK' /\ SkipOK'
  BY <1>0, <1>6, NoRowsWritten DEF Execute, TypeOK, rowVars
<1>7. ASSUME NEW w \in Workers, Complete(w)
      PROVE  SummaryOK' /\ SkipOK'
  <2>1. PICK r \in [Positions -> RowStatus] :
          /\ status' = [status EXCEPT ![job[w]] = r]
          /\ caseStatus' = [caseStatus EXCEPT ![job[w]] = Ledger!Summarise(r)]
          /\ r = [status[job[w]] EXCEPT ![at[w]] = RowOutcome(w)]
    BY <1>7, CompleteRewrites
  <2>2. /\ job[w] \in Cases /\ at[w] \in Positions
        /\ status[job[w]][at[w]] = "running"
    BY <1>0, <1>7 DEF Complete, WorkerOK, ClaimsExclusive, InFlight
  <2>3. SummaryOK'
    BY <2>1, <2>2, RewriteSummary
  <2>4. ASSUME NEW v \in Workers, pc'[v] = "skip"
        PROVE  status'[job'[v]][at'[v]] = "failed"
    <3>1. CASE v = w
      BY <1>0, <1>7, <2>1, <2>2, <2>4, <3>1 DEF Complete, MustSkip, TypeOK
    <3>2. CASE v # w
      <4>1. pc[v] = "skip" /\ job'[v] = job[v] /\ at'[v] = at[v]
        BY <1>0, <1>7, <2>4, <3>2 DEF Complete, TypeOK
      <4>2. QED
        BY <1>0, <2>1, <2>2, <4>1 DEF TypeOK, WorkerOK, SkipOK
    <3>3. QED
      BY <3>1, <3>2
  <2>5. QED
    BY <2>3, <2>4 DEF SkipOK
<1>8. ASSUME NEW w \in Workers, CompleteDuplicate(w)
      PROVE  SummaryOK' /\ SkipOK'
  BY <1>8, LeaveWritesNothing DEF CompleteDuplicate, rowVars
<1>9. ASSUME NEW w \in Workers, Skip(w)
      PROVE  SummaryOK' /\ SkipOK'
  <2>1. PICK r \in [Positions -> RowStatus] :
          /\ status' = [status EXCEPT ![job[w]] = r]
          /\ caseStatus' = [caseStatus EXCEPT ![job[w]] = Ledger!Summarise(r)]
          /\ \A q \in Positions :
                \/ r[q] = status[job[w]][q]
                \/ status[job[w]][q] \in Waiting /\ r[q] = "skipped"
    BY <1>9, SkipRewrites
  <2>2. job[w] \in Cases
    BY <1>0, <1>9 DEF Skip, WorkerOK
  <2>3. SummaryOK'
    BY <2>1, <2>2, RewriteSummary
  <2>4. \A v \in Workers : pc'[v] = "skip" =>
          pc[v] = "skip" /\ job'[v] = job[v] /\ at'[v] = at[v]
    BY <1>0, <1>9 DEF Skip, TypeOK
  <2>5. ASSUME NEW v \in Workers, pc'[v] = "skip"
        PROVE  status'[job'[v]][at'[v]] = "failed"
    <3>1. /\ job'[v] = job[v] /\ at'[v] = at[v]
          /\ job[v] \in Cases /\ at[v] \in Positions
          /\ status[job[v]][at[v]] = "failed"
      BY <1>0, <2>4, <2>5 DEF WorkerOK, SkipOK
    <3>2. CASE job[v] = job[w]
      <4>1. r[at[v]] = status[job[w]][at[v]]
        BY <2>1, <3>1, <3>2 DEF Waiting
      <4>2. QED
        BY <1>0, <2>1, <2>2, <3>1, <3>2, <4>1 DEF TypeOK
    <3>3. CASE job[v] # job[w]
      BY <1>0, <2>1, <2>2, <3>1, <3>3 DEF TypeOK
    <3>4. QED
      BY <3>2, <3>3
  <2>6. QED
    BY <2>3, <2>5 DEF SkipOK
<1>10. ASSUME NEW w \in Workers, JobFails(w)
       PROVE  SummaryOK' /\ SkipOK'
  BY <1>10, LeaveWritesNothing DEF JobFails, rowVars
<1>11. ASSUME Crash
       PROVE  SummaryOK' /\ SkipOK'
  BY <1>11, NoRowsWritten DEF Crash, rowVars
<1>12. CASE UNCHANGED vars
  BY <1>12, NoRowsWritten DEF vars, rowVars, workerVars
<1>13. QED
  BY <1>1, <1>2, <1>3, <1>4, <1>5, <1>6, <1>7, <1>8, <1>9, <1>10, <1>11, <1>12
     DEF Next, Step

LEMMA AlwaysLedger == Spec => []LedgerInv
BY InitLedger, NextLedger, PTL DEF Spec

LEMMA InitRefines == Init => Ledger!Init
BY DEF Init, Ledger!Init

LEMMA NextRefines == LedgerInv /\ [Next]_vars => [Ledger!Next]_(Ledger!ledgerVars)
<1> SUFFICES ASSUME LedgerInv, [Next]_vars, ~UNCHANGED <<status, caseStatus>>
             PROVE  Ledger!Next
  BY DEF Ledger!ledgerVars
<1>0. WorkerOK
  BY DEF LedgerInv, ExclusiveInv, Typed
<1>1. ASSUME NEW c \in Cases, CreateCase(c)
      PROVE  Ledger!Next
  BY <1>1, CreateRewrites DEF Ledger!Next
<1>2. ASSUME NEW w \in Workers, ClaimRow(w)
      PROVE  Ledger!Next
  <2>1. job[w] \in Cases
    BY <1>0, <1>2 DEF ClaimRow, WorkerOK
  <2>2. QED
    BY <1>2, <2>1, ClaimRewrites DEF Ledger!Next
<1>3. ASSUME NEW w \in Workers, Complete(w)
      PROVE  Ledger!Next
  <2>1. job[w] \in Cases /\ at[w] \in Positions
    BY <1>0, <1>3 DEF Complete, WorkerOK
  <2>2. QED
    BY <1>3, <2>1, CompleteRewrites DEF Ledger!Next
<1>4. ASSUME NEW w \in Workers, Skip(w)
      PROVE  Ledger!Next
  <2>1. job[w] \in Cases /\ at[w] \in Positions
    BY <1>0, <1>4 DEF Skip, WorkerOK
  <2>2. QED
    BY <1>4, <2>1, SkipRewrites DEF Ledger!Next
<1>5. QED
  BY <1>1, <1>2, <1>3, <1>4
     DEF Next, Step, vars, rowVars, workerVars, BackoffElapses, StartJob,
         ClaimNothing, Execute, CompleteDuplicate, JobFails, Crash

\* The engine keeps every promise of CaseLedger, whatever its workers, faults
\* and retries: one row of a case at a time, ended rows are never touched again,
\* rows are skipped behind a failure only, the status summarises the rows.
THEOREM EngineImplementsLedger == Spec => LedgerSpec
<1>1. Init => Ledger!Init
  BY InitRefines
<1>2. LedgerInv /\ [Next]_vars => [Ledger!Next]_(Ledger!ledgerVars)
  BY NextRefines
<1>3. QED
  BY <1>1, <1>2, AlwaysLedger, PTL DEF Spec, LedgerSpec, Ledger!Spec

-----------------------------------------------------------------------------
(* Irreversible actions take effect at most once                           *)

Unsafe(c, p) == p \in PlannedAt(c) /\ ~plan[c][p].safeForRetry

\* UnsafeAtMostOnce is not inductive: that the one effect is the last one needs
\* the row to be past its only claim, and the worker about to execute it to be
\* the first.
OnceOK ==
    /\ \A c \in Cases, p \in Positions : Unsafe(c, p) =>
          /\ status[c][p] # "retrying"
          /\ status[c][p] \in {"absent", "pending"} => effects[c][p] = 0
          /\ effects[c][p] <= 1
    /\ \A w \in Workers : pc[w] = "execute" /\ Unsafe(job[w], at[w]) =>
          effects[job[w]][at[w]] = 0

OnceInv == LedgerInv /\ OnceOK

LEMMA InitOnce == Init => OnceInv
<1>1. Init => OnceOK
  BY EngineAssumption DEF Init, OnceOK, Unsafe, PlannedAt
<1>2. QED
  BY <1>1, InitLedger DEF OnceInv

\* A step that executes nothing, claims nothing and leaves every row as it is
\* or ends it.
LEMMA NothingExecuted ==
    ASSUME OnceInv, UNCHANGED <<plan, effects>>,
           \A c \in Cases, p \in Positions :
              \/ status'[c][p] = status[c][p]
              \/ status'[c][p] \in Ended,
           \A w \in Workers : pc'[w] = "execute" =>
              pc[w] = "execute" /\ job'[w] = job[w] /\ at'[w] = at[w]
    PROVE  OnceOK'
BY DEF OnceInv, OnceOK, Unsafe, PlannedAt, Ended

LEMMA NextOnce == OnceInv /\ [Next]_vars => OnceInv'
<1> SUFFICES ASSUME OnceInv, [Next]_vars
             PROVE  OnceOK'
  BY NextLedger DEF OnceInv
<1>0. TypeOK /\ WorkerOK /\ ClaimsExclusive /\ SummaryOK /\ OnceOK
  BY DEF OnceInv, LedgerInv, ExclusiveInv, Typed
<1>1. ASSUME NEW c \in Cases, CreateCase(c)
      PROVE  OnceOK'
  <2>1. \A p \in Positions : status[c][p] = "absent"
    BY <1>0, <1>1 DEF CreateCase, SummaryOK
  <2>2. \A p \in Positions : Unsafe(c, p) => effects[c][p] = 0
    BY <1>0, <2>1 DEF OnceOK
  <2>3. \A d \in Cases, p \in Positions :
          IF d = c THEN status'[d][p] \in {"absent", "pending"}
                   ELSE status'[d][p] = status[d][p]
    BY <1>0, <1>1 DEF CreateCase, TypeOK
  <2>4. QED
    BY <1>0, <1>1, <2>2, <2>3 DEF CreateCase, OnceOK, Unsafe, PlannedAt, workerVars
<1>2. ASSUME NEW c \in Cases, NEW p \in Positions, BackoffElapses(c, p)
      PROVE  OnceOK'
  BY <1>2, NothingExecuted DEF BackoffElapses, workerVars
<1>3. ASSUME NEW w \in Workers, NEW c \in Cases, StartJob(w, c)
      PROVE  OnceOK'
  BY <1>0, <1>3, NothingExecuted DEF StartJob, TypeOK, rowVars
<1>4. ASSUME NEW w \in Workers, ClaimNothing(w)
      PROVE  OnceOK'
  BY <1>0, <1>4, NothingExecuted DEF ClaimNothing, Leave, TypeOK, rowVars
<1>5. ASSUME NEW w \in Workers, ClaimRow(w)
      PROVE  OnceOK'
  <2>1. PICK p \in Positions :
          /\ status' = [status EXCEPT ![job[w]][p] = "running"]
          /\ at' = [at EXCEPT ![w] = p]
          /\ status[job[w]][p] \in Waiting
    BY <1>5 DEF ClaimRow, Claimable
  <2>2. job[w] \in Cases
    BY <1>0, <1>5 DEF ClaimRow, WorkerOK
  <2>3. Unsafe(job[w], p) => effects[job[w]][p] = 0
    BY <1>0, <2>1, <2>2 DEF OnceOK, Waiting
  <2>4. \A c \in Cases, q \in Positions :
          status'[c][q] = status[c][q] \/ status'[c][q] = "running"
    BY <1>0, <2>1, <2>2 DEF TypeOK
  <2>5. QED
    BY <1>0, <1>5, <2>1, <2>3, <2>4 DEF ClaimRow, OnceOK, Unsafe, PlannedAt, TypeOK
<1>6. ASSUME NEW w \in Workers, Execute(w)
      PROVE  OnceOK'
  <2>1. /\ job[w] \in Cases /\ at[w] \in Positions
        /\ status[job[w]][at[w]] = "running"
        /\ \A v \in Workers : pc[v] = "execute" /\ v # w => job[v] # job[w]
    BY <1>0, <1>6 DEF Execute, WorkerOK, ClaimsExclusive, InFlight
  <2>2. PICK r \in ResultsOf(job[w], at[w]) :
          effects' = [effects EXCEPT ![job[w]][at[w]] = IF r.effect THEN @ + 1 ELSE @]
    BY <1>6 DEF Execute
  <2>3. Unsafe(job[w], at[w]) => effects[job[w]][at[w]] = 0
    BY <1>0, <1>6 DEF Execute, OnceOK
  <2>4. \A c \in Cases, p \in Positions : Unsafe(c, p) =>
          effects'[c][p] = effects[c][p] \/ (c = job[w] /\ p = at[w] /\ effects'[c][p] <= 1)
    BY <1>0, <2>1, <2>2, <2>3 DEF TypeOK
  <2>5. \A v \in Workers : pc'[v] = "execute" =>
          /\ v # w /\ pc[v] = "execute" /\ job[v] \in Cases /\ at[v] \in Positions
          /\ job'[v] = job[v] /\ at'[v] = at[v] /\ job[v] # job[w]
    BY <1>0, <1>6, <2>1 DEF Execute, TypeOK, WorkerOK
  <2>6. QED
    BY <1>0, <1>6, <2>1, <2>4, <2>5 DEF Execute, OnceOK, Unsafe, PlannedAt, rowVars
<1>7. ASSUME NEW w \in Workers, Complete(w)
      PROVE  OnceOK'
  <2>1. job[w] \in Cases /\ at[w] \in Positions
    BY <1>0, <1>7 DEF Complete, WorkerOK
  <2>2. status' = [status EXCEPT ![job[w]] = [status[job[w]] EXCEPT ![at[w]] = RowOutcome(w)]]
    BY <1>7 DEF Complete, SetRows
  <2>3. Unsafe(job[w], at[w]) => RowOutcome(w) \in {"succeeded", "failed"}
    BY DEF Unsafe, RowOutcome, ShouldRetry
  <2>4. \A c \in Cases, p \in Positions :
          \/ status'[c][p] = status[c][p]
          \/ c = job[w] /\ p = at[w] /\ status'[c][p] = RowOutcome(w)
    BY <1>0, <2>1, <2>2 DEF TypeOK
  <2>5. \A v \in Workers : pc'[v] = "execute" =>
          pc[v] = "execute" /\ job'[v] = job[v] /\ at'[v] = at[v]
    BY <1>0, <1>7 DEF Complete, TypeOK
  <2>6. QED
    BY <1>0, <1>7, <2>3, <2>4, <2>5, RowOutcomeType DEF Complete, OnceOK, Unsafe, PlannedAt
<1>8. ASSUME NEW w \in Workers, CompleteDuplicate(w)
      PROVE  OnceOK'
  BY <1>0, <1>8, NothingExecuted DEF CompleteDuplicate, Leave, TypeOK, rowVars
<1>9. ASSUME NEW w \in Workers, Skip(w)
      PROVE  OnceOK'
  <2>1. PICK r \in [Positions -> RowStatus] :
          /\ status' = [status EXCEPT ![job[w]] = r]
          /\ \A q \in Positions : r[q] = status[job[w]][q] \/ r[q] = "skipped"
    BY <1>0, <1>9, SkipRewrites DEF OnceInv
  <2>2. \A c \in Cases, p \in Positions :
          status'[c][p] = status[c][p] \/ status'[c][p] \in Ended
    BY <1>0, <2>1 DEF TypeOK, Ended
  <2>3. QED
    BY <1>0, <1>9, <2>2, NothingExecuted DEF Skip, TypeOK
<1>10. ASSUME NEW w \in Workers, JobFails(w)
       PROVE  OnceOK'
  BY <1>0, <1>10, NothingExecuted DEF JobFails, Leave, TypeOK, rowVars
<1>11. ASSUME Crash
       PROVE  OnceOK'
  BY <1>11, NothingExecuted DEF Crash, rowVars
<1>12. CASE UNCHANGED vars
  BY <1>12, NothingExecuted DEF vars, rowVars, workerVars
<1>13. QED
  BY <1>1, <1>2, <1>3, <1>4, <1>5, <1>6, <1>7, <1>8, <1>9, <1>10, <1>11, <1>12
     DEF Next, Step

\* The outside effect of an irreversible action takes place at most once, for
\* any number of workers, hints, faults, crashes and any executor results.
THEOREM UnsafeOnce == Spec => []UnsafeAtMostOnce
<1>1. OnceInv => UnsafeAtMostOnce
  <2> SUFFICES ASSUME OnceInv, NEW c \in Cases, NEW p \in PlannedAt(c)
               PROVE  ~plan[c][p].safeForRetry => effects[c][p] <= 1
    BY DEF UnsafeAtMostOnce
  <2>2. p \in Positions
    BY PlannedInPositions DEF OnceInv, LedgerInv, ExclusiveInv, Typed
  <2>3. QED
    BY <2>2 DEF OnceInv, OnceOK, Unsafe
<1>2. QED
  BY <1>1, InitOnce, NextOnce, PTL DEF Spec

-----------------------------------------------------------------------------
(* Rows are given up behind a failure that stops the case only             *)

\* The worker that goes on to skip holds a failure that stops the case: with
\* it, SkippedBehindFailure is inductive.
StopOK == \A w \in Workers : pc[w] = "skip" => StopsCase(job[w], at[w])

SkipInv == LedgerInv /\ SkippedBehindFailure /\ StopOK

\* A failed row stays failed: what stopped a case keeps it stopped.
LEMMA StopsForGood ==
    ASSUME LedgerInv, [Next]_vars, NEW c \in Cases, NEW p \in Positions, StopsCase(c, p)
    PROVE  StopsCase(c, p)'
<1>0. TypeOK /\ WorkerOK /\ ClaimsExclusive
  BY DEF LedgerInv, ExclusiveInv, Typed
<1>1. plan' = plan
  BY DEF Next, Step, vars, rowVars, workerVars, CreateCase, BackoffElapses, StartJob, ClaimNothing,
     ClaimRow, Execute, Complete, CompleteDuplicate, Skip, JobFails, Crash
<1>2. status[c][p] = "failed"
  BY DEF StopsCase
<1>3. status'[c][p] = "failed"
  <2>1. ASSUME NEW d \in Cases, CreateCase(d) PROVE status'[c][p] = "failed"
    <3>1. status[d][p] = "absent"
      BY <2>1 DEF LedgerInv, SummaryOK, CreateCase
    <3>2. QED
      BY <1>0, <1>2, <2>1, <3>1 DEF CreateCase, TypeOK
  <2>2. ASSUME NEW w \in Workers, ClaimRow(w) PROVE status'[c][p] = "failed"
    BY <1>0, <1>2, <2>2 DEF ClaimRow, Claimable, Waiting, TypeOK, WorkerOK
  <2>3. ASSUME NEW w \in Workers, Complete(w) PROVE status'[c][p] = "failed"
    <3>1. status[job[w]][at[w]] = "running"
      BY <1>0, <2>3 DEF Complete, ClaimsExclusive, InFlight
    <3>2. QED
      BY <1>0, <1>2, <2>3, <3>1 DEF Complete, SetRows, TypeOK, WorkerOK
  <2>4. ASSUME NEW w \in Workers, Skip(w) PROVE status'[c][p] = "failed"
    BY <1>0, <1>2, <2>4 DEF Skip, SetRows, Waiting, TypeOK, WorkerOK
  <2>5. QED
    BY <1>2, <2>1, <2>2, <2>3, <2>4 DEF Next, Step, vars, rowVars, workerVars, BackoffElapses,
       StartJob, ClaimNothing, Execute, CompleteDuplicate, JobFails, Crash
<1>4. QED
  BY <1>1, <1>3 DEF StopsCase

\* A row becomes skipped in Skip only, behind the row its worker holds.
LEMMA SkippedBySkip ==
    ASSUME LedgerInv, [Next]_vars, NEW c \in Cases, NEW q \in Positions,
           status'[c][q] = "skipped", status[c][q] # "skipped"
    PROVE  \E w \in Workers : pc[w] = "skip" /\ job[w] = c /\ q > at[w]
<1>0. TypeOK /\ WorkerOK
  BY DEF LedgerInv, ExclusiveInv, Typed
<1>1. ASSUME NEW d \in Cases, CreateCase(d) PROVE FALSE
  BY <1>0, <1>1 DEF CreateCase, TypeOK
<1>2. ASSUME NEW w \in Workers, ClaimRow(w) PROVE FALSE
  BY <1>0, <1>2 DEF ClaimRow, Claimable, TypeOK, WorkerOK
<1>3. ASSUME NEW w \in Workers, Complete(w) PROVE FALSE
  BY <1>0, <1>3, RowOutcomeType DEF Complete, SetRows, TypeOK, WorkerOK
<1>4. ASSUME NEW w \in Workers, Skip(w)
      PROVE  pc[w] = "skip" /\ job[w] = c /\ q > at[w]
  BY <1>0, <1>4 DEF Skip, SetRows, TypeOK, WorkerOK
<1>5. status' # status
  OBVIOUS
<1>6. QED
  BY <1>1, <1>2, <1>3, <1>4, <1>5 DEF Next, Step, vars, rowVars, workerVars, BackoffElapses,
     StartJob, ClaimNothing, Execute, CompleteDuplicate, JobFails, Crash

\* A worker goes on to skip in Complete only, with a failure that stops.
LEMMA SkipsAfterFailure ==
    ASSUME LedgerInv, [Next]_vars, NEW w \in Workers, pc'[w] = "skip"
    PROVE  \/ pc[w] = "skip" /\ job'[w] = job[w] /\ at'[w] = at[w]
           \/ StopsCase(job[w], at[w])' /\ job'[w] = job[w] /\ at'[w] = at[w]
<1>0. TypeOK /\ WorkerOK
  BY DEF LedgerInv, ExclusiveInv, Typed
<1>1. CASE pc[w] = "skip"
  <2>1. ASSUME NEW v \in Workers, v # w, Step(v) \/ JobFails(v) \/ \E c \in Cases : StartJob(v, c)
        PROVE  job'[w] = job[w] /\ at'[w] = at[w]
    BY <1>0, <2>1 DEF Step, StartJob, ClaimNothing, ClaimRow, Execute, Complete, CompleteDuplicate,
       Skip, Leave, JobFails, TypeOK
  <2>2. ~Step(w) /\ ~JobFails(w) /\ \A c \in Cases : ~StartJob(w, c)
    BY <1>0, <1>1 DEF Step, StartJob, ClaimNothing, ClaimRow, Execute, Complete, CompleteDuplicate,
       Skip, Leave, JobFails, TypeOK
  <2>3. ~Crash
    BY DEF Crash
  <2>4. QED
    BY <1>1, <2>1, <2>2, <2>3 DEF Next, vars, workerVars, CreateCase, BackoffElapses
<1>2. CASE pc[w] # "skip"
  <2>1. Complete(w) /\ MustSkip(w)
    <3>1. ASSUME NEW v \in Workers, Complete(v) PROVE Complete(w) /\ MustSkip(w)
      BY <1>0, <1>2, <3>1 DEF Complete, TypeOK
    <3>2. ASSUME NEW v \in Workers,
                 \/ ClaimNothing(v) \/ ClaimRow(v) \/ Execute(v) \/ CompleteDuplicate(v)
                 \/ Skip(v) \/ JobFails(v) \/ \E c \in Cases : StartJob(v, c)
          PROVE  FALSE
      BY <1>0, <1>2, <3>2 DEF ClaimNothing, ClaimRow, Execute, CompleteDuplicate, Skip, JobFails,
         StartJob, Leave, TypeOK
    <3>3. pc' # pc /\ ~Crash
      BY <1>0, <1>2 DEF Crash
    <3>4. QED
      BY <3>1, <3>2, <3>3 DEF Next, Step, vars, workerVars, CreateCase, BackoffElapses
  <2>2. job'[w] = job[w] /\ at'[w] = at[w] /\ plan' = plan
    BY <1>0, <2>1 DEF Complete, TypeOK
  <2>3. status'[job[w]][at[w]] = "failed"
    BY <1>0, <2>1 DEF Complete, SetRows, MustSkip, TypeOK, WorkerOK
  <2>4. ~plan[job[w]][at[w]].continueOnError
    BY <2>1 DEF MustSkip
  <2>5. QED
    BY <2>2, <2>3, <2>4 DEF StopsCase
<1>3. QED
  BY <1>1, <1>2

LEMMA NextSkip == SkipInv /\ [Next]_vars => SkipInv'
<1> SUFFICES ASSUME SkipInv, [Next]_vars
             PROVE  SkippedBehindFailure' /\ StopOK'
  BY NextLedger DEF SkipInv
<1>0. LedgerInv /\ WorkerOK /\ SkippedBehindFailure /\ StopOK
  BY DEF SkipInv, LedgerInv, ExclusiveInv, Typed
<1>1. ASSUME NEW c \in Cases, NEW q \in Positions, status'[c][q] = "skipped"
      PROVE  \E p \in Positions : p < q /\ StopsCase(c, p)'
  <2>1. \E p \in Positions : p < q /\ StopsCase(c, p)
    <3>1. CASE status[c][q] = "skipped"
      BY <1>0, <3>1 DEF SkippedBehindFailure
    <3>2. CASE status[c][q] # "skipped"
      <4>1. PICK w \in Workers : pc[w] = "skip" /\ job[w] = c /\ q > at[w]
        BY <1>0, <1>1, <3>2, SkippedBySkip
      <4>2. at[w] \in Positions /\ StopsCase(c, at[w])
        BY <1>0, <4>1 DEF WorkerOK, StopOK
      <4>3. QED
        BY <4>1, <4>2, EngineAssumption
    <3>3. QED
      BY <3>1, <3>2
  <2>2. QED
    BY <1>0, <2>1, StopsForGood
<1>2. ASSUME NEW w \in Workers, pc'[w] = "skip"
      PROVE  StopsCase(job[w], at[w])'
  <2>1. CASE pc[w] = "skip" /\ job'[w] = job[w] /\ at'[w] = at[w]
    <3>1. StopsCase(job[w], at[w]) /\ job[w] \in Cases /\ at[w] \in Positions
      BY <1>0, <2>1 DEF StopOK, WorkerOK
    <3>2. QED
      BY <1>0, <2>1, <3>1, StopsForGood DEF StopsCase
  <2>2. QED
    BY <1>0, <1>2, <2>1, SkipsAfterFailure
<1>3. QED
  BY <1>1, <1>2 DEF SkippedBehindFailure, StopOK

\* A row is given up only behind a failed row whose policy stops the case,
\* however workers interleave, fail and crash.
THEOREM SkipsBehindFailureOnly == Spec => []SkippedBehindFailure
<1>1. Init => SkipInv
  BY InitLedger DEF Init, SkipInv, SkippedBehindFailure, StopOK
<1>2. SkipInv => SkippedBehindFailure
  BY DEF SkipInv
<1>3. QED
  BY <1>1, <1>2, NextSkip, PTL DEF Spec

-----------------------------------------------------------------------------
(* Attempts add up                                                         *)

\* The policy of a row bounds its counter below the value where it wraps.
Metered(c, p) == p \in PlannedAt(c) /\ plan[c][p].maxRetries + 1 < CountModulus

\* The count of a row runs from nothing up to its budget. That a claim stays in
\* the budget needs a waiting row to have an attempt left; that an execution
\* does, needs the worker about to execute to hold an attempt with no effect.
CountOK(c, p) ==
    /\ recorded[c][p] = (1 .. attempts[c][p])
                         \ (IF status[c][p] = "running" THEN {attempts[c][p]} ELSE {})
    /\ attempts[c][p] <= plan[c][p].maxRetries + 1
    /\ status[c][p] \in Waiting => attempts[c][p] <= plan[c][p].maxRetries
    /\ status[c][p] = "running" => attempts[c][p] # 0
    /\ effects[c][p] <= attempts[c][p]

MeterOK ==
    /\ \A c \in Cases, p \in Positions :
          /\ status[c][p] = "absent" => attempts[c][p] = 0
          /\ Metered(c, p) => CountOK(c, p)
    /\ \A w \in Workers : pc[w] = "execute" /\ Metered(job[w], at[w]) =>
          effects[job[w]][at[w]] < attempts[job[w]][at[w]]

MeterInv == LedgerInv /\ MeterOK

LEMMA InitMeter == Init => MeterInv
<1>1. Init => MeterOK
  <2> SUFFICES ASSUME Init PROVE MeterOK
    OBVIOUS
  <2>1. \A c \in Cases, p \in Positions : Metered(c, p) => plan[c][p].maxRetries \in Nat
    <3>1. TypeOK
      BY InitLedger DEF LedgerInv, ExclusiveInv, Typed
    <3>2. QED
      BY <3>1, PlannedInPositions DEF Metered, Policy, Counts
  <2>2. QED
    <3>1. 1 .. 0 = {}
      OBVIOUS
    <3>2. \A c \in Cases, p \in Positions :
            /\ status[c][p] = "absent" /\ attempts[c][p] = 0
            /\ recorded[c][p] = {} /\ effects[c][p] = 0
      BY DEF Init
    <3>3. \A w \in Workers : pc[w] = "idle"
      BY DEF Init
    <3>4. ASSUME NEW c \in Cases, NEW p \in Positions, Metered(c, p)
          PROVE  CountOK(c, p)
      BY <2>1, <3>1, <3>2, <3>4 DEF CountOK, Waiting
    <3>5. QED
      BY <3>2, <3>3, <3>4 DEF MeterOK
<1>2. QED
  BY <1>1, InitLedger DEF MeterInv

\* A step that counts nothing: rows may be opened, waiting rows given up.
LEMMA NothingCounted ==
    ASSUME MeterInv, UNCHANGED <<plan, attempts, recorded, effects>>,
           \A c \in Cases, p \in Positions :
              \/ status'[c][p] = status[c][p]
              \/ status[c][p] = "absent" /\ status'[c][p] = "pending"
              \/ status[c][p] \in Waiting /\ status'[c][p] = "skipped",
           \A w \in Workers : pc'[w] = "execute" =>
              pc[w] = "execute" /\ job'[w] = job[w] /\ at'[w] = at[w]
    PROVE  MeterOK'
<1>1. \A c \in Cases, p \in Positions : Metered(c, p) => plan[c][p].maxRetries \in Nat
  BY PlannedInPositions DEF Metered, Policy, Counts, MeterInv, LedgerInv, ExclusiveInv, Typed
<1>2. \A c, p : Metered(c, p)' <=> Metered(c, p)
  BY DEF Metered, PlannedAt
<1>3. MeterOK
  BY DEF MeterInv
<1>4. \A c \in Cases, p \in Positions : status'[c][p] = "absent" => attempts'[c][p] = 0
  BY <1>3 DEF MeterOK, Waiting
<1>5. ASSUME NEW c \in Cases, NEW p \in Positions, Metered(c, p)
      PROVE  CountOK(c, p)'
  BY <1>1, <1>3, <1>5 DEF MeterOK, CountOK, Waiting
<1>6. \A w \in Workers : pc'[w] = "execute" /\ Metered(job'[w], at'[w]) =>
          effects'[job'[w]][at'[w]] < attempts'[job'[w]][at'[w]]
  BY <1>3 DEF MeterOK
<1>7. QED
  BY <1>2, <1>4, <1>5, <1>6 DEF MeterOK

LEMMA NextMeter == MeterInv /\ [Next]_vars => MeterInv'
<1> SUFFICES ASSUME MeterInv, [Next]_vars
             PROVE  MeterOK'
  BY NextLedger DEF MeterInv
<1>0. TypeOK /\ WorkerOK /\ ClaimsExclusive /\ SummaryOK /\ MeterOK
  BY DEF MeterInv, LedgerInv, ExclusiveInv, Typed
<1>a. \A c \in Cases, p \in Positions : Metered(c, p) => plan[c][p].maxRetries \in Nat
  BY <1>0, PlannedInPositions DEF Metered, Policy, Counts
<1>1. ASSUME NEW c \in Cases, CreateCase(c)
      PROVE  MeterOK'
  <2>1. \A p \in Positions : status[c][p] = "absent"
    BY <1>0, <1>1 DEF CreateCase, SummaryOK
  <2>2. \A d \in Cases, p \in Positions :
          \/ status'[d][p] = status[d][p]
          \/ status[d][p] = "absent" /\ status'[d][p] = "pending"
    BY <1>0, <1>1, <2>1 DEF CreateCase, TypeOK
  <2>3. QED
    BY <1>1, <2>2, NothingCounted DEF CreateCase, workerVars
<1>2. ASSUME NEW c \in Cases, NEW p \in Positions, BackoffElapses(c, p)
      PROVE  MeterOK'
  BY <1>2, NothingCounted DEF BackoffElapses, workerVars
<1>3. ASSUME NEW w \in Workers, NEW c \in Cases, StartJob(w, c)
      PROVE  MeterOK'
  BY <1>0, <1>3, NothingCounted DEF StartJob, TypeOK, rowVars
<1>4. ASSUME NEW w \in Workers, ClaimNothing(w)
      PROVE  MeterOK'
  BY <1>0, <1>4, NothingCounted DEF ClaimNothing, Leave, TypeOK, rowVars
<1>5. ASSUME NEW w \in Workers, ClaimRow(w)
      PROVE  MeterOK'
  <2> DEFINE c == job[w]
  <2>1. PICK p \in Positions :
          /\ status' = [status EXCEPT ![c][p] = "running"]
          /\ attempts' = [attempts EXCEPT ![c][p] = NextAttempt(attempts[c][p])]
          /\ at' = [at EXCEPT ![w] = p]
          /\ status[c][p] \in Waiting
    BY <1>5 DEF ClaimRow, Claimable
  <2>2. /\ c \in Cases
        /\ pc' = [pc EXCEPT ![w] = "execute"]
        /\ UNCHANGED <<plan, recorded, job, effects>>
    BY <1>0, <1>5 DEF ClaimRow, WorkerOK
  <2> HIDE DEF c
  <2>3. \A d \in Cases, q \in Positions :
          IF d = c /\ q = p
          THEN status'[d][q] = "running" /\ attempts'[d][q] = NextAttempt(attempts[d][q])
          ELSE status'[d][q] = status[d][q] /\ attempts'[d][q] = attempts[d][q]
    BY <1>0, <2>1, <2>2 DEF TypeOK
  <2>4. \A d, q : Metered(d, q)' <=> Metered(d, q)
    BY <2>2 DEF Metered, PlannedAt
  <2>5. ASSUME Metered(c, p)
        PROVE  /\ attempts[c][p] \in Nat
               /\ attempts'[c][p] = attempts[c][p] + 1
               /\ attempts'[c][p] <= plan[c][p].maxRetries + 1
               /\ recorded[c][p] = 1 .. attempts[c][p]
               /\ effects[c][p] <= attempts[c][p] /\ effects[c][p] \in Nat
    <3>1. /\ attempts[c][p] \in Nat /\ plan[c][p].maxRetries \in Nat
          /\ attempts[c][p] <= plan[c][p].maxRetries
          /\ plan[c][p].maxRetries + 1 < CountModulus
      <4>1. plan[c][p].maxRetries + 1 < CountModulus /\ p \in PlannedAt(c)
        BY <2>5 DEF Metered
      <4>2. attempts[c][p] <= plan[c][p].maxRetries
        <5>1. CountOK(c, p)
          BY <1>0, <2>1, <2>2, <2>5 DEF MeterOK
        <5>2. QED
          BY <2>1, <5>1 DEF CountOK
      <4>3. attempts[c][p] \in Nat /\ plan[c][p].maxRetries \in Nat
        <5>1. attempts[c][p] \in Nat
          BY <1>0, <2>1, <2>2 DEF TypeOK, Counts
        <5>2. QED
          BY <1>a, <2>1, <2>2, <2>5, <5>1
      <4>4. QED
        BY <4>1, <4>2, <4>3
    <3>2. NextAttempt(attempts[c][p]) = attempts[c][p] + 1
      BY <3>1, EngineAssumption DEF NextAttempt
    <3>3. /\ recorded[c][p] = 1 .. attempts[c][p]
          /\ effects[c][p] <= attempts[c][p] /\ effects[c][p] \in Nat
      <4>1. CountOK(c, p)
        BY <1>0, <2>1, <2>2, <2>5 DEF MeterOK
      <4>2. effects[c][p] \in Nat
        BY <1>0, <2>1, <2>2 DEF TypeOK, Counts
      <4>3. status[c][p] # "running"
        BY <2>1 DEF Waiting
      <4>4. recorded[c][p] = 1 .. attempts[c][p]
        BY <4>1, <4>3 DEF CountOK
      <4>5. QED
        BY <4>1, <4>2, <4>4 DEF CountOK
    <3>4. QED
      BY <2>2, <2>3, <3>1, <3>2, <3>3
  <2>6. ASSUME NEW d \in Cases, NEW q \in Positions, Metered(d, q)
        PROVE  CountOK(d, q)'
    <3>1. CASE d = c /\ q = p
      <4>1. \A n \in Nat : 1 .. n = (1 .. n + 1) \ {n + 1}
        OBVIOUS
      <4>2. recorded'[c][p] = (1 .. attempts'[c][p]) \ {attempts'[c][p]}
        BY <2>2, <2>5, <2>6, <3>1, <4>1
      <4>3. status'[c][p] = "running" /\ "running" \notin Waiting
        BY <2>2, <2>3 DEF Waiting
      <4>4. effects'[c][p] <= attempts'[c][p] /\ attempts'[c][p] <= plan'[c][p].maxRetries + 1
        BY <2>2, <2>5, <2>6, <3>1
      <4>5. QED
        <5>1. attempts'[c][p] # 0
          BY <2>5, <2>6, <3>1
        <5>2. QED
          BY <3>1, <4>2, <4>3, <4>4, <5>1 DEF CountOK
    <3>2. CASE ~(d = c /\ q = p)
      BY <1>0, <2>2, <2>3, <2>6, <3>2 DEF MeterOK, CountOK
    <3>3. QED
      BY <3>1, <3>2
  <2>7. ASSUME NEW v \in Workers, pc'[v] = "execute", Metered(job'[v], at'[v])
        PROVE  effects'[job'[v]][at'[v]] < attempts'[job'[v]][at'[v]]
    <3>1. CASE v = w
      <4>1. job'[v] = c /\ at'[v] = p
        BY <1>0, <2>1, <2>2, <3>1 DEF TypeOK, c
      <4>2. QED
        BY <2>2, <2>5, <2>7, <4>1
    <3>2. CASE v # w
      <4>1. /\ pc[v] = "execute" /\ job'[v] = job[v] /\ at'[v] = at[v]
            /\ job[v] \in Cases /\ at[v] \in Positions
        BY <1>0, <2>1, <2>2, <2>7, <3>2 DEF TypeOK, WorkerOK
      <4>2. job[v] # c
        <5>1. status[job[v]][at[v]] = "running"
          BY <1>0, <4>1 DEF ClaimsExclusive, InFlight
        <5>2. QED
          BY <1>5, <4>1, <5>1 DEF ClaimRow, Busy, c
      <4>3. QED
        BY <1>0, <2>2, <2>3, <2>7, <4>1, <4>2 DEF MeterOK
    <3>3. QED
      BY <3>1, <3>2
  <2>8. \A d \in Cases, q \in Positions : status'[d][q] = "absent" => attempts'[d][q] = 0
    BY <1>0, <2>3 DEF MeterOK
  <2>9. QED
    BY <2>4, <2>6, <2>7, <2>8 DEF MeterOK
<1>6. ASSUME NEW w \in Workers, Execute(w)
      PROVE  MeterOK'
  <2>1. /\ job[w] \in Cases /\ at[w] \in Positions
        /\ \A v \in Workers : pc[v] = "execute" /\ v # w => job[v] # job[w]
    BY <1>0, <1>6 DEF Execute, WorkerOK, ClaimsExclusive, InFlight
  <2>2. PICK r \in ResultsOf(job[w], at[w]) :
          effects' = [effects EXCEPT ![job[w]][at[w]] = IF r.effect THEN @ + 1 ELSE @]
    BY <1>6 DEF Execute
  <2>3. /\ UNCHANGED <<plan, status, attempts, recorded, job, at>>
        /\ pc' = [pc EXCEPT ![w] = "complete"]
    BY <1>6 DEF Execute, rowVars
  <2>4. Metered(job[w], at[w]) => effects[job[w]][at[w]] < attempts[job[w]][at[w]]
    BY <1>0, <1>6 DEF Execute, MeterOK
  <2>5. \A c \in Cases, p \in Positions :
          /\ effects[c][p] \in Nat /\ attempts[c][p] \in Nat
          /\ IF c = job[w] /\ p = at[w] THEN effects'[c][p] <= effects[c][p] + 1
                                        ELSE effects'[c][p] = effects[c][p]
          /\ effects'[c][p] \in Nat
    BY <1>0, <2>1, <2>2 DEF TypeOK, Counts
  <2>6. \A c, p : Metered(c, p)' <=> Metered(c, p)
    BY <2>3 DEF Metered, PlannedAt
  <2>7. \A c \in Cases, p \in Positions : Metered(c, p) => effects'[c][p] <= attempts[c][p]
    BY <1>0, <2>4, <2>5 DEF MeterOK, CountOK
  <2>8. ASSUME NEW v \in Workers, pc'[v] = "execute", Metered(job[v], at[v])
        PROVE  effects'[job[v]][at[v]] < attempts[job[v]][at[v]]
    <3>1. v # w /\ pc[v] = "execute" /\ job[v] \in Cases /\ at[v] \in Positions
      BY <1>0, <2>3, <2>8 DEF TypeOK, WorkerOK
    <3>2. job[v] # job[w]
      BY <2>1, <3>1
    <3>3. QED
      BY <1>0, <2>5, <2>8, <3>1, <3>2 DEF MeterOK
  <2>9. QED
    BY <1>0, <2>3, <2>6, <2>7, <2>8 DEF MeterOK, CountOK
<1>7. ASSUME NEW w \in Workers, Complete(w)
      PROVE  MeterOK'
  <2> DEFINE c == job[w]  p == at[w]
  <2>1. /\ c \in Cases /\ p \in Positions
        /\ status[c][p] = "running" /\ attempts[c][p] = try[w]
    BY <1>0, <1>7 DEF Complete, WorkerOK, ClaimsExclusive, InFlight
  <2>2. /\ status' = [status EXCEPT ![c] = [status[c] EXCEPT ![p] = RowOutcome(w)]]
        /\ recorded' = [recorded EXCEPT ![c][p] = @ \cup {try[w]}]
        /\ UNCHANGED <<plan, attempts, job, effects>>
    BY <1>7 DEF Complete, SetRows
  <2>3. RowOutcome(w) \in Waiting => try[w] <= plan[c][p].maxRetries
    BY DEF RowOutcome, ShouldRetry, Waiting
  <2>4. RowOutcome(w) \notin {"running", "absent"}
    BY RowOutcomeType
  <2>5. \A v \in Workers : pc'[v] = "execute" =>
          pc[v] = "execute" /\ job'[v] = job[v] /\ at'[v] = at[v]
    BY <1>0, <1>7 DEF Complete, TypeOK
  <2> HIDE DEF c, p
  <2>6. \A d \in Cases, q \in Positions :
          IF d = c /\ q = p
          THEN status'[d][q] = RowOutcome(w) /\ recorded'[d][q] = recorded[d][q] \cup {try[w]}
          ELSE status'[d][q] = status[d][q] /\ recorded'[d][q] = recorded[d][q]
    BY <1>0, <2>1, <2>2 DEF TypeOK
  <2>7. \A d, q : Metered(d, q)' <=> Metered(d, q)
    BY <2>2 DEF Metered, PlannedAt
  <2>8. ASSUME NEW d \in Cases, NEW q \in Positions, Metered(d, q)
        PROVE  CountOK(d, q)'
    <3>1. CASE d = c /\ q = p
      <4>1. /\ recorded[c][p] = (1 .. attempts[c][p]) \ {attempts[c][p]}
            /\ effects[c][p] <= attempts[c][p] /\ attempts[c][p] <= plan[c][p].maxRetries + 1
        BY <1>0, <2>1, <2>8, <3>1 DEF MeterOK, CountOK
      <4>2. attempts[c][p] \in 1 .. attempts[c][p]
        <5>1. attempts[c][p] \in Nat
          BY <1>0, <2>1 DEF TypeOK, Counts
        <5>2. attempts[c][p] # 0
          BY <1>0, <2>1, <2>8, <3>1 DEF MeterOK, CountOK
        <5>3. QED
          BY <5>1, <5>2
      <4>3. recorded'[c][p] = 1 .. attempts[c][p]
        BY <2>1, <2>6, <4>1, <4>2
      <4>4. QED
        <5>1. attempts'[d][q] = try[w] /\ attempts'[d][q] = attempts[d][q]
          BY <2>1, <2>2, <3>1
        <5>2. status'[d][q] = RowOutcome(w) /\ plan' = plan /\ effects' = effects
          BY <2>1, <2>2, <2>6, <3>1
        <5>3. QED
          BY <2>3, <2>4, <3>1, <4>1, <4>3, <5>1, <5>2 DEF CountOK
    <3>2. CASE ~(d = c /\ q = p)
      BY <1>0, <2>2, <2>6, <2>8, <3>2 DEF MeterOK, CountOK
    <3>3. QED
      BY <3>1, <3>2
  <2>9. \A v \in Workers : pc'[v] = "execute" /\ Metered(job'[v], at'[v]) =>
          effects'[job'[v]][at'[v]] < attempts'[job'[v]][at'[v]]
    BY <1>0, <2>2, <2>5 DEF MeterOK
  <2>10. \A d \in Cases, q \in Positions : status'[d][q] = "absent" => attempts'[d][q] = 0
    BY <1>0, <2>2, <2>4, <2>6 DEF MeterOK
  <2>11. QED
    BY <2>7, <2>8, <2>9, <2>10 DEF MeterOK
<1>8. ASSUME NEW w \in Workers, CompleteDuplicate(w)
      PROVE  MeterOK'
  BY <1>0, <1>8, NothingCounted DEF CompleteDuplicate, Leave, TypeOK, rowVars
<1>9. ASSUME NEW w \in Workers, Skip(w)
      PROVE  MeterOK'
  <2>1. PICK r \in [Positions -> RowStatus] :
          /\ status' = [status EXCEPT ![job[w]] = r]
          /\ \A q \in Positions :
                \/ r[q] = status[job[w]][q]
                \/ status[job[w]][q] \in Waiting /\ r[q] = "skipped"
    BY <1>0, <1>9, SkipRewrites DEF MeterInv
  <2>2. \A d \in Cases, q \in Positions :
          \/ status'[d][q] = status[d][q]
          \/ status[d][q] \in Waiting /\ status'[d][q] = "skipped"
    BY <1>0, <2>1 DEF TypeOK
  <2>3. QED
    BY <1>0, <1>9, <2>2, NothingCounted DEF Skip, TypeOK
<1>10. ASSUME NEW w \in Workers, JobFails(w)
       PROVE  MeterOK'
  BY <1>0, <1>10, NothingCounted DEF JobFails, Leave, TypeOK, rowVars
<1>11. ASSUME Crash
       PROVE  MeterOK'
  BY <1>11, NothingCounted DEF Crash, rowVars
<1>12. CASE UNCHANGED vars
  BY <1>12, NothingCounted DEF vars, rowVars, workerVars
<1>13. QED
  BY <1>1, <1>2, <1>3, <1>4, <1>5, <1>6, <1>7, <1>8, <1>9, <1>10, <1>11, <1>12
     DEF Next, Step

\* No row is attempted more often than the retry limit of its policy allows, and
\* its attempt rows have no gap, for any limit below the counter's last value.
THEOREM AttemptsAlwaysAddUp == Spec => []AttemptsAddUp
<1>1. MeterInv => AttemptsAddUp
  <2> SUFFICES ASSUME MeterInv, NEW c \in Cases, NEW p \in PlannedAt(c),
                      plan[c][p].maxRetries + 1 < CountModulus
               PROVE  /\ recorded[c][p] = (1 .. attempts[c][p])
                             \ (IF status[c][p] = "running" THEN {attempts[c][p]} ELSE {})
                      /\ attempts[c][p] <= plan[c][p].maxRetries + 1
                      /\ effects[c][p] <= plan[c][p].maxRetries + 1
    BY DEF AttemptsAddUp, AttemptsGapless, RetryBudget
  <2>1. TypeOK
    BY DEF MeterInv, LedgerInv, ExclusiveInv, Typed
  <2>2. p \in Positions /\ plan[c][p].maxRetries \in Nat
    BY <2>1, PlannedInPositions DEF Policy, Counts
  <2>3. /\ recorded[c][p] = (1 .. attempts[c][p])
              \ (IF status[c][p] = "running" THEN {attempts[c][p]} ELSE {})
        /\ attempts[c][p] <= plan[c][p].maxRetries + 1
        /\ effects[c][p] <= attempts[c][p]
    BY <2>2 DEF MeterInv, MeterOK, CountOK, Metered
  <2>4. attempts[c][p] \in Nat /\ effects[c][p] \in Nat
    BY <2>1, <2>2 DEF TypeOK, Counts
  <2>5. QED
    BY <2>2, <2>3, <2>4
<1>2. QED
  BY <1>1, InitMeter, NextMeter, PTL DEF Spec

-----------------------------------------------------------------------------
(* One worker alone keeps the order of the rows                            *)

\* What a worker leaves behind that works alone, without faults and on rows
\* that are tried once. Rows run in the order of their positions, so nothing
\* behind a row that waits or runs has run; and what waits behind a failure that
\* stops the case waits for the worker that has just recorded it.
SoloRow(w, c, p) ==
    /\ status[c][p] # "absent" => p \in PlannedAt(c)
    /\ status[c][p] # "retrying"
    /\ status[c][p] \in {"absent", "pending"} => attempts[c][p] = 0
    /\ status[c][p] \in {"absent", "pending", "running"} => recorded[c][p] = {}
    /\ status[c][p] = "running" => attempts[c][p] = 1 /\ InFlight(w) /\ job[w] = c /\ at[w] = p

SoloPair(w, c, p, q) ==
    /\ status[c][p] \in {"pending", "running"} => attempts[c][q] = 0
    /\ StopsCase(c, p) =>
          /\ attempts[c][q] = 0
          /\ status[c][q] = "pending" => pc[w] = "skip" /\ job[w] = c /\ at[w] = p

SoloOK(w) ==
    /\ backoff = {}
    /\ \A v \in Workers \ {w} : pc[v] = "idle"
    /\ \A c \in Cases, p \in Positions : SoloRow(w, c, p)
    /\ \A c \in Cases : \A p, q \in Positions : p < q => SoloPair(w, c, p, q)

Alone(w) == crew = {w} /\ faults = 0 /\ TriedOnce

SoloInv == SkipInv /\ \A w \in Workers : Alone(w) => SoloOK(w)

\* Where the rows and the worker's place do not change, nothing does.
LEMMA SoloStays ==
    ASSUME NEW w \in Workers, SoloOK(w), UNCHANGED <<plan, rowVars>>,
           \A v \in Workers \ {w} : pc'[v] = "idle",
           \/ UNCHANGED <<pc, job, at>>
           \/ pc[w] = "execute" /\ pc'[w] = "complete" /\ UNCHANGED <<job, at>>
           \/ pc[w] \in {"idle", "claim"}
    PROVE  SoloOK(w)'
<1>1. UNCHANGED <<plan, status, attempts, recorded, backoff>>
  BY DEF rowVars
<1>2. ASSUME NEW c \in Cases, NEW p \in Positions PROVE SoloRow(w, c, p)'
  <2>1. SoloRow(w, c, p)
    BY DEF SoloOK
  <2>2. QED
    BY <1>1, <2>1 DEF SoloRow, InFlight, PlannedAt
<1>3. ASSUME NEW c \in Cases, NEW p \in Positions, NEW q \in Positions, p < q PROVE SoloPair(w, c, p, q)'
  <2>1. SoloPair(w, c, p, q)
    BY <1>3 DEF SoloOK
  <2>2. QED
    BY <1>1, <2>1 DEF SoloPair, StopsCase
<1>4. QED
  BY <1>1, <1>2, <1>3 DEF SoloOK

\* The worker records an attempt, which is the first of its row and the last.
LEMMA SoloComplete ==
    ASSUME SkipInv, NEW w \in Workers, SoloOK(w), TriedOnce, Complete(w),
           \A v \in Workers \ {w} : pc'[v] = "idle"
    PROVE  SoloOK(w)'
<1>0. TypeOK /\ WorkerOK /\ ClaimsExclusive
  BY DEF SkipInv, LedgerInv, ExclusiveInv, Typed
<1>1. PICK c \in Cases, p \in Positions : c = job[w] /\ p = at[w] /\ status[c][p] = "running"
  BY <1>0 DEF Complete, WorkerOK, ClaimsExclusive, InFlight
<1>2. /\ try[w] = 1 /\ p \in PlannedAt(c) /\ recorded[c][p] = {} /\ attempts[c][p] = 1
      /\ \A q \in Positions : p < q => attempts[c][q] = 0
  <2>1. SoloRow(w, c, p) /\ \A q \in Positions : p < q => SoloPair(w, c, p, q)
    BY DEF SoloOK
  <2>2. QED
    BY <1>0, <1>1, <2>1 DEF SoloRow, SoloPair, Complete, ClaimsExclusive, InFlight
<1>3. RowOutcome(w) \in {"succeeded", "failed"}
  <2>1. plan[c][p].safeForRetry => plan[c][p].maxRetries = 0
    BY <1>2 DEF TriedOnce
  <2>2. ~ShouldRetry(w)
    BY <1>1, <1>2, <2>1 DEF ShouldRetry
  <2>3. QED
    BY <2>2 DEF RowOutcome
<1>4. PICK o \in {"succeeded", "failed"} :
        /\ o = RowOutcome(w) /\ status' = [status EXCEPT ![c][p] = o]
        /\ UNCHANGED <<plan, attempts, job, backoff>>
        /\ recorded' = [recorded EXCEPT ![c][p] = recorded[c][p] \cup {try[w]}]
        /\ pc' = [pc EXCEPT ![w] = IF MustSkip(w) THEN "skip" ELSE "claim"]
        /\ at' = [at EXCEPT ![w] = IF MustSkip(w) THEN at[w] ELSE None]
  BY <1>1, <1>3 DEF Complete, SetRows
<1>5. MustSkip(w) <=> o = "failed" /\ ~plan[c][p].continueOnError
  BY <1>1, <1>4 DEF MustSkip
<1>6. /\ status'[c][p] = o
      /\ \A d \in Cases, q \in Positions : d # c \/ q # p =>
            status'[d][q] = status[d][q] /\ recorded'[d][q] = recorded[d][q]
  BY <1>0, <1>4 DEF TypeOK
<1>7. ASSUME NEW d \in Cases, NEW q \in Positions PROVE SoloRow(w, d, q)'
  <2>1. SoloRow(w, d, q)
    BY DEF SoloOK
  <2>2. CASE d = c /\ q = p
    BY <1>2, <1>4, <1>6, <2>2 DEF SoloRow, PlannedAt
  <2>3. CASE d # c \/ q # p
    <3>1. status[d][q] # "running"
      BY <1>1, <2>1, <2>3 DEF SoloRow
    <3>2. QED
      BY <1>4, <1>6, <2>1, <2>3, <3>1 DEF SoloRow, PlannedAt
  <2>4. QED
    BY <2>2, <2>3
<1>8. ASSUME NEW d \in Cases, NEW r \in Positions, NEW q \in Positions, r < q PROVE SoloPair(w, d, r, q)'
  <2>1. SoloPair(w, d, r, q) /\ pc[w] # "skip"
    BY <1>8 DEF SoloOK, Complete
  <2>2. status'[d][q] = "pending" => status[d][q] = "pending"
    BY <1>4, <1>6
  <2>3. CASE d = c /\ r = p
    <3>1. StopsCase(d, r)' => pc'[w] = "skip" /\ job'[w] = d /\ at'[w] = r
      BY <1>0, <1>1, <1>4, <1>5, <1>6, <2>3 DEF StopsCase, TypeOK
    <3>2. QED
      BY <1>2, <1>4, <1>6, <1>8, <2>3, <3>1 DEF SoloPair
  <2>4. CASE d # c \/ r # p
    BY <1>4, <1>6, <2>1, <2>2, <2>4 DEF SoloPair, StopsCase
  <2>5. QED
    BY <2>3, <2>4
<1>9. backoff' = {}
  BY <1>4 DEF SoloOK
<1>10. QED
  BY <1>7, <1>8, <1>9 DEF SoloOK

LEMMA SoloClaim ==
    ASSUME SkipInv, NEW w \in Workers, SoloOK(w), ClaimRow(w),
           \A v \in Workers \ {w} : pc'[v] = "idle"
    PROVE  SoloOK(w)'
<1>0. TypeOK /\ WorkerOK
  BY DEF SkipInv, LedgerInv, ExclusiveInv, Typed
<1>1. PICK c \in Cases : c = job[w] /\ \A q \in Positions : status[c][q] # "running"
  BY <1>0 DEF ClaimRow, WorkerOK, Busy
<1>2. PICK p \in Claimable(c) :
        /\ \A q \in Claimable(c) : p <= q
        /\ status' = [status EXCEPT ![c][p] = "running"]
        /\ attempts' = [attempts EXCEPT ![c][p] = NextAttempt(attempts[c][p])]
        /\ at' = [at EXCEPT ![w] = p]
  BY <1>1 DEF ClaimRow
<1>3. /\ UNCHANGED <<plan, recorded, backoff, job>> /\ backoff = {}
      /\ pc' = [pc EXCEPT ![w] = "execute"] /\ pc[w] = "claim"
  BY DEF ClaimRow, SoloOK
<1>4. p \in Positions /\ status[c][p] = "pending" /\ attempts[c][p] = 0 /\ recorded[c][p] = {}
  <2>1. p \in Positions /\ status[c][p] \in Waiting
    BY <1>2 DEF Claimable
  <2>2. SoloRow(w, c, p)
    BY <2>1 DEF SoloOK
  <2>3. QED
    BY <2>1, <2>2 DEF SoloRow, Waiting
<1>5. /\ status'[c][p] = "running" /\ attempts'[c][p] = 1
      /\ pc'[w] = "execute" /\ job'[w] = c /\ at'[w] = p
      /\ \A d \in Cases, q \in Positions : d # c \/ q # p =>
            status'[d][q] = status[d][q] /\ attempts'[d][q] = attempts[d][q]
  <2>1. NextAttempt(attempts[c][p]) = 1
    BY <1>4, EngineAssumption DEF NextAttempt
  <2>2. QED
    BY <1>0, <1>1, <1>2, <1>3, <1>4, <2>1 DEF TypeOK
<1>6. \A q \in Positions : q < p => status[c][q] # "pending"
  <2> SUFFICES ASSUME NEW q \in Positions, q < p, status[c][q] = "pending" PROVE FALSE
    OBVIOUS
  <2>1. q \in Claimable(c)
    BY <1>3 DEF Claimable, Waiting
  <2>2. p <= q
    BY <1>2, <2>1
  <2>3. QED
    BY <1>4, <2>2, EngineAssumption
<1>7. ASSUME NEW d \in Cases, NEW q \in Positions PROVE SoloRow(w, d, q)'
  <2>1. SoloRow(w, d, q) /\ SoloRow(w, c, p)
    BY <1>4 DEF SoloOK
  <2>2. CASE d = c /\ q = p
    BY <1>3, <1>4, <1>5, <2>1, <2>2 DEF SoloRow, PlannedAt, InFlight
  <2>3. CASE d # c \/ q # p
    <3>1. status[d][q] # "running"
      BY <1>3, <2>1 DEF SoloRow, InFlight
    <3>2. QED
      BY <1>3, <1>5, <2>1, <2>3, <3>1 DEF SoloRow, PlannedAt
  <2>4. QED
    BY <2>2, <2>3
<1>8. ASSUME NEW d \in Cases, NEW r \in Positions, NEW q \in Positions, r < q PROVE SoloPair(w, d, r, q)'
  <2>1. SoloPair(w, d, r, q)
    BY <1>8 DEF SoloOK
  <2>2. CASE d = c /\ r = p
    <3>1. attempts[c][q] = 0 /\ attempts'[c][q] = 0
      BY <1>4, <1>5, <1>8, <2>1, <2>2, EngineAssumption DEF SoloPair
    <3>2. QED
      BY <1>5, <2>2, <3>1 DEF SoloPair, StopsCase
  <2>3. CASE d = c /\ q = p
    <3>1. status[c][r] \notin {"pending", "running"} /\ r # p
      BY <1>1, <1>4, <1>6, <1>8, <2>3, EngineAssumption
    <3>2. ~StopsCase(c, r)
      BY <1>3, <1>4, <2>1, <2>3 DEF SoloPair
    <3>3. QED
      BY <1>3, <1>5, <2>3, <3>1, <3>2 DEF SoloPair, StopsCase
  <2>4. CASE d # c \/ (r # p /\ q # p)
    BY <1>3, <1>5, <2>1, <2>4 DEF SoloPair, StopsCase
  <2>5. QED
    BY <2>2, <2>3, <2>4
<1>9. QED
  BY <1>3, <1>7, <1>8 DEF SoloOK

LEMMA SoloSkip ==
    ASSUME SkipInv, NEW w \in Workers, SoloOK(w), Skip(w),
           \A v \in Workers \ {w} : pc'[v] = "idle"
    PROVE  SoloOK(w)'
<1>0. TypeOK /\ WorkerOK
  BY DEF SkipInv, LedgerInv, ExclusiveInv, Typed
<1>1. PICK c \in Cases, p \in Positions : c = job[w] /\ p = at[w] /\ StopsCase(c, p)
  BY <1>0 DEF Skip, WorkerOK, SkipInv, StopOK
<1>2. /\ \A d \in Cases, q \in Positions :
            status'[d][q] = IF d = c /\ p < q /\ status[d][q] \in Waiting THEN "skipped" ELSE status[d][q]
      /\ UNCHANGED <<plan, attempts, recorded, job>> /\ pc'[w] = "claim" /\ pc[w] = "skip"
      /\ backoff' = {} 
  <2>1. /\ pc'[w] = "claim" /\ pc[w] = "skip" /\ UNCHANGED <<plan, attempts, recorded, job>>
    BY <1>0 DEF Skip, TypeOK
  <2>2. backoff' = {}
    BY DEF Skip, SoloOK
  <2>3. ASSUME NEW d \in Cases, NEW q \in Positions
        PROVE  status'[d][q] = IF d = c /\ p < q /\ status[d][q] \in Waiting THEN "skipped" ELSE status[d][q]
    <3>1. status' = [status EXCEPT ![c] =
             [s \in Positions |-> IF s > p /\ status[c][s] \in Waiting THEN "skipped" ELSE status[c][s]]]
      BY <1>1 DEF Skip, SetRows
    <3>2. q > p <=> p < q
      BY EngineAssumption
    <3>3. QED
      BY <1>0, <3>1, <3>2 DEF TypeOK
  <2>4. QED
    BY <2>1, <2>2, <2>3
<1>3. ASSUME NEW d \in Cases, NEW q \in Positions PROVE SoloRow(w, d, q)'
  <2>1. SoloRow(w, d, q) /\ status[d][q] # "running"
    BY <1>2 DEF SoloOK, SoloRow, InFlight
  <2>2. QED
    BY <1>2, <2>1 DEF SoloRow, PlannedAt, Waiting
<1>4. ASSUME NEW d \in Cases, NEW r \in Positions, NEW q \in Positions, r < q PROVE SoloPair(w, d, r, q)'
  <2>1. SoloPair(w, d, r, q)
    BY <1>4 DEF SoloOK
  <2>2. (StopsCase(d, r)' => StopsCase(d, r)) /\ (status'[d][r] \in {"pending", "running"} => status'[d][r] = status[d][r])
    BY <1>2 DEF StopsCase
  <2>3. StopsCase(d, r) => status'[d][q] # "pending"
    <3> SUFFICES ASSUME StopsCase(d, r), status'[d][q] = "pending" PROVE FALSE
      OBVIOUS
    <3>1. status[d][q] = "pending"
      BY <1>2
    <3>2. d = c /\ r = p
      BY <1>1, <2>1, <3>1 DEF SoloPair
    <3>3. QED
      BY <1>2, <1>4, <3>1, <3>2 DEF Waiting
  <2>4. QED
    BY <1>2, <2>1, <2>2, <2>3 DEF SoloPair
<1>5. QED
  BY <1>2, <1>3, <1>4 DEF SoloOK

LEMMA SoloCreate ==
    ASSUME SkipInv, NEW w \in Workers, SoloOK(w), NEW c \in Cases, CreateCase(c)
    PROVE  SoloOK(w)'
<1>0. TypeOK /\ WorkerOK
  BY DEF SkipInv, LedgerInv, ExclusiveInv, Typed
<1>1. \A p \in Positions : status[c][p] = "absent"
  BY DEF SkipInv, LedgerInv, SummaryOK, CreateCase
<1>2. \A d \in Cases, p \in Positions :
         status'[d][p] = IF d = c THEN (IF p \in PlannedAt(c) THEN "pending" ELSE "absent") ELSE status[d][p]
  BY <1>0 DEF CreateCase, TypeOK
<1>3. UNCHANGED <<plan, attempts, recorded, backoff, pc, job, at>>
  BY DEF CreateCase, workerVars
<1>4. \A p \in Positions : attempts[c][p] = 0 /\ recorded[c][p] = {}
  BY <1>1 DEF SoloOK, SoloRow
<1>5. ASSUME NEW d \in Cases, NEW p \in Positions PROVE SoloRow(w, d, p)'
  <2>1. SoloRow(w, d, p)
    BY DEF SoloOK
  <2>2. QED
    BY <1>2, <1>3, <1>4, <2>1 DEF SoloRow, PlannedAt, InFlight
<1>6. ASSUME NEW d \in Cases, NEW r \in Positions, NEW q \in Positions, r < q PROVE SoloPair(w, d, r, q)'
  <2>1. SoloPair(w, d, r, q)
    BY <1>6 DEF SoloOK
  <2>2. QED
    BY <1>2, <1>3, <1>4, <2>1 DEF SoloPair, StopsCase
<1>7. QED
  BY <1>3, <1>5, <1>6 DEF SoloOK

LEMMA SoloNext == SoloInv /\ [CrewNext]_<<vars, crew>> => SoloInv'
<1> SUFFICES ASSUME SoloInv, [CrewNext]_<<vars, crew>>, NEW w \in Workers, Alone(w)'
             PROVE  SoloOK(w)'
  <2>1. SkipInv /\ [CrewNext]_<<vars, crew>> => SkipInv'
    BY NextSkip DEF CrewNext, vars
  <2>2. QED
    BY <2>1 DEF SoloInv
<1>1. SkipInv /\ TypeOK /\ WorkerOK /\ ClaimsExclusive
  BY DEF SoloInv, SkipInv, LedgerInv, ExclusiveInv, Typed
<1>2. CASE UNCHANGED <<vars, crew>>
  <2>1. Alone(w) /\ UNCHANGED <<plan, rowVars, pc, job, at>>
    BY <1>2 DEF Alone, vars, workerVars, TriedOnce, PlannedAt
  <2>2. SoloOK(w) /\ \A v \in Workers \ {w} : pc'[v] = "idle"
    BY <2>1 DEF SoloInv, SoloOK
  <2>3. QED
    BY <2>1, <2>2, SoloStays
<1>3. CASE CrewNext
  <2>1. plan' = plan /\ crew' = crew /\ crew = {w}
    BY <1>3 DEF CrewNext, Alone, Next, Step, vars, rowVars, workerVars, CreateCase, BackoffElapses, StartJob,
       ClaimNothing, ClaimRow, Execute, Complete, CompleteDuplicate, Skip, JobFails, Crash
  <2>2. ~Crash /\ (\A v \in Workers : ~JobFails(v)) /\ faults = 0
    <3>1. faults' = 0 /\ faults \in Nat
      BY <1>1, EngineAssumption DEF Alone, TypeOK
    <3>2. ~Crash /\ \A v \in Workers : ~JobFails(v)
      BY <3>1 DEF Crash, JobFails
    <3>3. faults' = faults
      BY <1>3, <3>2 DEF CrewNext, Next, Step, CreateCase, BackoffElapses, StartJob,
         ClaimNothing, ClaimRow, Execute, Complete, CompleteDuplicate, Skip
    <3>4. QED
      BY <3>1, <3>2, <3>3
  <2>3. TriedOnce /\ SoloOK(w)
    BY <2>1, <2>2 DEF Alone, TriedOnce, PlannedAt, SoloInv
  <2>4. \A v \in Workers \ {w} : pc'[v] = "idle" /\ pc[v] = "idle"
    BY <1>3, <2>1, <2>3 DEF CrewNext, SoloOK
  <2>5. ASSUME NEW c \in Cases, CreateCase(c) PROVE SoloOK(w)'
    BY <1>1, <2>3, <2>5, SoloCreate
  <2>6. ASSUME NEW c \in Cases, NEW p \in Positions, BackoffElapses(c, p) PROVE SoloOK(w)'
    BY <2>3, <2>6 DEF BackoffElapses, SoloOK
  <2>7. ASSUME NEW v \in Workers, NEW c \in Cases, StartJob(v, c) PROVE SoloOK(w)'
    <3>1. v = w /\ pc[w] = "idle" /\ UNCHANGED <<plan, rowVars>>
      BY <1>1, <2>4, <2>7 DEF StartJob, TypeOK
    <3>2. QED
      BY <2>3, <2>4, <3>1, SoloStays
  <2>8. ASSUME NEW v \in Workers, Step(v) PROVE SoloOK(w)'
    <3>0. pc[v] # "idle"
      BY <2>8 DEF Step, ClaimNothing, ClaimRow, Execute, Complete, CompleteDuplicate, Skip
    <3>1. v = w
      BY <2>4, <3>0
    <3>2. CASE ClaimNothing(w)
      <4>1. UNCHANGED <<plan, rowVars>> /\ pc[w] = "claim"
        BY <3>2 DEF ClaimNothing
      <4>2. QED
        BY <2>3, <2>4, <4>1, SoloStays
    <3>3. CASE Execute(w)
      <4>1. UNCHANGED <<plan, rowVars, job, at>> /\ pc[w] = "execute" /\ pc'[w] = "complete"
        BY <1>1, <3>3 DEF Execute, TypeOK
      <4>2. QED
        BY <2>3, <2>4, <4>1, SoloStays
    <3>4. CASE CompleteDuplicate(w)
      <4>1. /\ job[w] \in Cases /\ at[w] \in Positions /\ status[job[w]][at[w]] = "running"
            /\ recorded[job[w]][at[w]] # {}
        BY <1>1, <3>4 DEF CompleteDuplicate, WorkerOK, ClaimsExclusive, InFlight
      <4>2. QED
        BY <2>3, <4>1 DEF SoloOK, SoloRow
    <3>5. QED
      BY <1>1, <2>3, <2>4, <2>8, <3>1, <3>2, <3>3, <3>4, SoloClaim, SoloComplete, SoloSkip DEF Step
  <2>9. QED
    BY <1>3, <2>2, <2>5, <2>6, <2>7, <2>8 DEF CrewNext, Next
<1>4. QED
  BY <1>2, <1>3

\* The order of a case's rows holds for one worker, whatever the rows are, as
\* long as none of them is tried again: behind a failure that stops the case
\* nothing ever runs. What breaks the order is a second worker between the
\* completion and the skip, a fault there, or a retry.
THEOREM OneWorkerKeepsOrder == CrewSpec => []OneWorkerStopsAtFailure
<1>1. CrewInit => SoloInv
  <2> SUFFICES ASSUME CrewInit PROVE SoloInv
    OBVIOUS
  <2>1. SkipInv
    BY InitLedger DEF CrewInit, Init, SkipInv, SkippedBehindFailure, StopOK
  <2>2. \A w \in Workers : SoloOK(w)
    BY DEF CrewInit, Init, SoloOK, SoloRow, SoloPair, StopsCase
  <2>3. QED
    BY <2>1, <2>2 DEF SoloInv
<1>2. SoloInv => OneWorkerStopsAtFailure
  <2> SUFFICES ASSUME SoloInv, NEW w \in Workers, crew = {w}, faults = 0, TriedOnce PROVE StopsAtFailure
    BY DEF OneWorkerStopsAtFailure
  <2>1. SoloOK(w)
    BY DEF SoloInv, Alone
  <2>2. QED
    BY <2>1 DEF SoloOK, SoloPair, StopsAtFailure
<1>3. QED
  BY <1>1, <1>2, SoloNext, PTL DEF CrewSpec
=============================================================================
