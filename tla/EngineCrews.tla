----------------------------- MODULE EngineCrews -----------------------------
(* The engine behind a queue of some number of workers: Start gives hints to  *)
(* as many goroutines as EVENT_QUEUE_WORKERS says, and the others of Workers  *)
(* never get one. One behaviour has one crew.                                 *)
EXTENDS ActionEngine

CONSTANT Crews    \* the sets of workers that a queue may start

ASSUME CrewsAssumption == Crews \subseteq SUBSET Workers

VARIABLE crew     \* the workers that get hints

CrewInit == Init /\ crew \in Crews

CrewNext == /\ Next /\ UNCHANGED crew
            /\ \A w \in Workers \ crew : pc'[w] = "idle"

CrewSpec == CrewInit /\ [][CrewNext]_<<vars, crew>>

\* Rows that are tried once, as those of every case that CaseService.create
\* writes: its DM has no retries and its other actions are not safe to retry.
TriedOnce ==
    \A c \in Cases : \A p \in PlannedAt(c) :
        plan[c][p].safeForRetry => plan[c][p].maxRetries = 0

\* One worker alone, no fault and no retry: no row behind a failure that stops
\* the case ever runs, so it takes a second worker, a fault, or a row that waits
\* for its retry while the next one runs, to break the order.
OneWorkerStopsAtFailure ==
    (\E w \in Workers : crew = {w}) /\ faults = 0 /\ TriedOnce => StopsAtFailure
=============================================================================
