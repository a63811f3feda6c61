------------------------------ MODULE CaseReads ------------------------------
(***************************************************************************)
(* The reads of the dashboard and of /ops: CaseService.Get, UserHistory    *)
(* and OpsService.status (internal/quack) over the queries of              *)
(* internal/store. A read is a sequence of queries without a transaction;  *)
(* each sees what is committed when it runs, while cases are created and   *)
(* worked on.                                                              *)
(*                                                                         *)
(* The rows that are read move as CaseLedger says, which ActionEngine is   *)
(* shown to implement, and cases are created in the order of their         *)
(* numbers. The conversions to response types copy columns and are left    *)
(* out; a member's history is asked for without a filter, one page of it,  *)
(* and walking a list page by page is module Paging.                       *)
(***************************************************************************)
EXTENDS CaseLedger, FiniteSets, Sequences

CONSTANTS MaxAttempts,  \* bound on the attempts of a row
          PageLimit,    \* the limit and the offset that a history is asked for with
          PageOffset,
          MaxFailures   \* recent failures that /ops shows; 10 in the code

ASSUME ReadsAssumption ==
    /\ IsFiniteSet(Cases) /\ Cases = 1 .. Cardinality(Cases) /\ IsFiniteSet(Positions)
    /\ MaxAttempts \in Nat /\ MaxFailures \in Nat
    /\ PageLimit \in Nat \ {0} /\ PageOffset \in Nat

VARIABLES
    journal,  \* attempts of each row, each with its case event and audit entry
    read,     \* the read under way, or "none"
    subject,  \* the case it is about
    results   \* what its queries have returned so far

readsVars == <<ledgerVars, journal, read, subject, results>>

ReadsInit ==
    /\ Init
    /\ journal = [c \in Cases |-> [p \in Positions |-> 0]]
    /\ read = "none"
    /\ subject \in Cases
    /\ results = <<>>
-----------------------------------------------------------------------------
(* What the queries return                                                 *)

Created == {c \in Cases : summary[c] # "none"}
AllRows == Cases \X Positions
StatusOf(row) == rows[row[1]][row[2]]
RowsIn(s) == {row \in AllRows : StatusOf(row) \in s}
Lesser(m, n) == IF m < n THEN m ELSE n

Statuses == {"open", "action_running", "completed", "failed"}
RowStatuses == Waiting \cup Ended \cup {"running"}

\* A row shows an error from a failed attempt on until one succeeds, and when it
\* was skipped.
Errored ==
    RowsIn({"failed", "retrying", "skipped"}) \cup
    {row \in RowsIn({"running"}) : journal[row[1]][row[2]] > 0}

\* The queries of a case's detail. Attempts are asked for by the executions that
\* were listed before.
GetCaseByIDOrNumber == summary[subject]
ListCaseActionExecutions == rows[subject]
ListCaseEvents == journal[subject]
ListCaseActionAttempts(listed) ==
    [p \in Positions |-> IF listed[p] = "absent" THEN 0 ELSE journal[subject][p]]

\* The queries of a member's history: the list with its count, the actions of
\* each case listed, and the three counts of TargetCaseSummary. Every case is
\* about the member here. The list is ordered by number, the newest first.
CountCases == Cardinality(Created)
Newer(c) == {d \in Created : d > c}
ListCases == {c \in Created : Cardinality(Newer(c)) \in PageOffset .. PageOffset + PageLimit - 1}
ByStatus == [s \in Statuses |-> Cardinality({c \in Created : summary[c] = s})]
ByTemplate == CountCases

\* The queries of ActionQueueSnapshot: rows by status, whether one waits, and as
\* many of the newest errors as are asked for.
RowsByStatus == [s \in RowStatuses |-> Cardinality(RowsIn({s}))]
OldestPendingOrRetry == RowsIn(Waiting) # {}
RecentFailures == Lesser(Cardinality(Errored), MaxFailures)

Asked(q) == \E i \in DOMAIN results : results[i].of = q
Got(q) == results[CHOOSE i \in DOMAIN results : results[i].of = q].is

Answer(q) ==
    CASE q = "case" -> GetCaseByIDOrNumber
      [] q = "actions" -> ListCaseActionExecutions
      [] q = "events" -> ListCaseEvents
      [] q = "attempts" -> ListCaseActionAttempts(IF Asked("actions") THEN Got("actions") ELSE rows[subject])
      [] q \in {"total", "listed"} -> CountCases
      [] q = "page" -> ListCases
      [] q = "byStatus" -> ByStatus
      [] q = "byTemplate" -> ByTemplate
      [] q = "counts" -> RowsByStatus
      [] q = "oldest" -> OldestPendingOrRetry
      [] q = "errors" -> RecentFailures

\* The queries of each read, in the order the code sends them.
AttemptsFirst == <<"case", "attempts", "actions", "events">>
Detail == <<"case", "actions", "events", "attempts">>
History == <<"listed", "page", "total", "byStatus", "byTemplate">>
Snapshot == <<"counts", "oldest", "errors">>

Queries == [detail |-> Detail, history |-> History, ops |-> Snapshot]
-----------------------------------------------------------------------------
(* Steps                                                                   *)

\* A reader asks for a case that exists, or for counts.
Ask ==
    /\ read = "none"
    /\ read' \in {r \in DOMAIN Queries : r = "detail" => subject \in Created}
    /\ UNCHANGED <<ledgerVars, journal, subject, results>>

\* The next query of the read.
Query ==
    /\ read # "none"
    /\ Len(results) < Len(Queries[read])
    /\ results' = Append(results, LET q == Queries[read][Len(results) + 1] IN [of |-> q, is |-> Answer(q)])
    /\ UNCHANGED <<ledgerVars, journal, read, subject>>

\* Cases are opened in the order of their numbers.
OpenNext(c) ==
    /\ \A d \in Cases : d < c => d \in Created
    /\ Open(c)
    /\ UNCHANGED <<journal, read, subject, results>>

\* CompleteCaseAction writes the attempt and the event with the row.
EndRow(c, p) ==
    /\ journal[c][p] < MaxAttempts
    /\ End(c, p)
    /\ journal' = [journal EXCEPT ![c][p] = @ + 1]
    /\ UNCHANGED <<read, subject, results>>

WorkRow(c, p) ==
    /\ Begin(c, p) \/ Block(c, p)
    /\ UNCHANGED <<journal, read, subject, results>>

ReadsNext ==
    \/ Ask \/ Query
    \/ \E c \in Cases : OpenNext(c)
    \/ \E c \in Cases, p \in Positions : EndRow(c, p) \/ WorkRow(c, p)

ReadsSpec == ReadsInit /\ [][ReadsNext]_readsVars
-----------------------------------------------------------------------------
(* Properties                                                              *)

\* caseActionDetailResponses: attempts go under their action.
CaseActionDetails(actions, attempts) ==
    [p \in {q \in Positions : actions[q] # "absent"} |->
        [status |-> actions[p], attempts |-> attempts[p]]]

Answered(r) == read = r /\ Len(results) = Len(Queries[r])
\* The parts of a case's detail are read one after the other and never show a
\* status that the actions below it contradict: a completed case has only
\* ended actions, a failed case a failed one, and an action that ran to its
\* end has an event, and every event its attempt.
DetailNotTorn ==
    Answered("detail") =>
        LET actions == CaseActionDetails(Got("actions"), Got("attempts")) IN
        /\ Got("case") = "completed" => \A p \in DOMAIN actions : actions[p].status \in Ended
        /\ Got("case") = "failed" => \E p \in DOMAIN actions : actions[p].status = "failed"
        /\ \A p \in DOMAIN actions :
              /\ actions[p].status \in {"succeeded", "failed"} => Got("events")[p] > 0
              /\ Got("events")[p] <= actions[p].attempts

Total(counts) == counts["open"] + counts["action_running"] + counts["completed"] + counts["failed"]

\* A member's history is five queries; cases created between them make later
\* counts larger, never smaller. So the page holds what the total beside it
\* promises, as far as the limit goes, and the parts of the summary account for
\* at least the page and the total above them.
HistoryAddsUp ==
    Answered("history") =>
        /\ Cardinality(Got("page")) <= PageLimit
        /\ Cardinality(Got("page")) >= Lesser(Got("listed") - PageOffset, PageLimit)
        /\ Got("page") # {} => Cardinality(Got("page")) + PageOffset <= Got("total")
        /\ Got("listed") <= Got("total")
        /\ Got("total") <= Total(Got("byStatus"))
        /\ Total(Got("byStatus")) <= Got("byTemplate")

\* /ops never counts failed actions that its list of errors leaves out, up to
\* the length of that list.
OpsShowsFailures ==
    Answered("ops") => Got("errors") >= Lesser(Got("counts")["failed"], MaxFailures)

\* No read contradicts itself.
ReadsAgree == DetailNotTorn /\ HistoryAddsUp /\ OpsShowsFailures
=============================================================================
