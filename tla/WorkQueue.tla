------------------------------ MODULE WorkQueue ------------------------------
(***************************************************************************)
(* The in-process work queue, internal/workqueue/queue.go: a bounded       *)
(* channel of case hints, worker goroutines that range over it, a poller   *)
(* that submits what the database lists as due, and a Stop that drains.    *)
(*                                                                         *)
(* Requests (HTTP handlers and Discord tasks) and the poller call Submit,  *)
(* which checks the active flag and offers to the channel under one read   *)
(* lock; Stop clears the flag under the write lock, cancels the poller,    *)
(* closes the channel outside the lock and waits. The counters are atomic: *)
(* a hint is in the channel, and may be handled, before it is counted.     *)
(*                                                                         *)
(* Abstracted: which case a hint names (a submission is told apart by its  *)
(* trace id), the handler's work (module ActionEngine), the log.           *)
(***************************************************************************)
EXTENDS Naturals, Sequences, FiniteSets

CONSTANTS Requests,   \* goroutines that create a case and submit its hint
          Poller,     \* the discovery goroutine
          Workers,    \* worker goroutines (EVENT_QUEUE_WORKERS)
          Size,       \* capacity of the channel (EVENT_QUEUE_SIZE)
          BatchSize,  \* most cases one discovery pass lists; 100 in the code
          MaxPasses   \* bound on the discovery passes of a behaviour

Producers == Requests \cup {Poller}

ASSUME QueueAssumption ==
    /\ Poller \notin Requests
    /\ Requests \cap (Nat \X Nat) = {}
    /\ Workers # {}
    /\ Size \in Nat \ {0}
    /\ BatchSize \in Nat
    /\ MaxPasses \in Nat \ {0}

\* A submission is told apart by its trace id: a request submits once, the
\* poller once for each case of each pass.
Hints == Requests \cup ((1 .. MaxPasses) \X (1 .. BatchSize))

VARIABLES
    life,      \* how far Start and Stop have come
    jobs,      \* the channel's buffer
    pc,        \* where each producer is in Submit
    poll,      \* where the poller is
    batch,     \* listed cases the poller has still to submit
    passes,    \* discovery passes begun
    cancelled, \* pollCtx is done
    work,      \* where each worker is
    holds,     \* the hint a worker handles, as a set of at most one
    stats,     \* EnqueuedTotal, DroppedTotal, ProcessedTotal, FailedTotal
    over       \* ghost: hints refused or worked off

pollVars   == <<poll, batch, passes>>
workVars   == <<work, holds>>
vars == <<life, jobs, pc, pollVars, cancelled, workVars, stats, over>>

Counters == {"enqueued", "dropped", "processed", "failed"}

TypeOK ==
    /\ life \in {"new", "serving", "stopping", "flagged", "draining", "stopped"}
    /\ jobs \in Seq(Hints) /\ Len(jobs) <= Size
    /\ pc \in [Producers -> {"ready", "offer", "sent", "done"}]
    /\ poll \in {"off", "list", "submit", "done"}
    /\ batch \in 0 .. BatchSize
    /\ passes \in 1 .. MaxPasses
    /\ cancelled \in BOOLEAN
    /\ work \in [Workers -> {"off", "receive", "handle", "note", "done"}]
    /\ holds \in [Workers -> SUBSET Hints]
    /\ stats \in [Counters -> Nat]
    /\ over \subseteq Hints

Init ==
    /\ life = "new"
    /\ jobs = <<>>
    /\ pc = [p \in Producers |-> "ready"]
    /\ poll = "off"
    /\ batch = 0
    /\ passes = 1
    /\ cancelled = FALSE
    /\ work = [w \in Workers |-> "off"]
    /\ holds = [w \in Workers |-> {}]
    /\ stats = [k \in Counters |-> 0]
    /\ over = {}
-----------------------------------------------------------------------------
(* The flag, the channel and the lock                                      *)

Active == life \in {"serving", "stopping"}
ChannelClosed == life \in {"draining", "stopped"}

\* Submit keeps the read lock from its check of the flag until it returns.
UnlocksAfterCheck == {}
Readers == {p \in Producers : pc[p] \in {"offer", "sent"}}

\* Stop has released the write lock before it cancels, closes and waits.
HoldsWhileDraining == life \in {"flagged", "draining"}
StopHoldsLock == FALSE

ForgetsFailures(k) == stats' = IF k = "failed" THEN stats ELSE [stats EXCEPT ![k] = @ + 1]
Count(k) == stats' = [stats EXCEPT ![k] = @ + 1]

\* Start: the workers and the poller begin. The runtime calls it once.
Start ==
    /\ life = "new"
    /\ life' = "serving"
    /\ work' = [w \in Workers |-> "receive"]
    /\ poll' = "list"
    /\ UNCHANGED <<jobs, pc, batch, passes, cancelled, holds, stats, over>>
-----------------------------------------------------------------------------
(* Submit                                                                  *)

HintOf(p) == IF p = Poller THEN <<passes, batch>> ELSE p

\* A request comes once; the poller as long as its batch lasts.
HasWork(p) == p = Poller => poll = "submit" /\ batch > 0

\* A request is done when Submit returns, the poller turns to its next case.
Return(p) ==
    /\ pc' = [pc EXCEPT ![p] = IF p = Poller THEN "ready" ELSE "done"]
    /\ batch' = IF p = Poller THEN batch - 1 ELSE batch

Refuse(p) ==
    /\ Count("dropped")
    /\ over' = over \cup {HintOf(p)}
    /\ Return(p)

\* The read lock is taken; an inactive queue refuses at once.
Submit(p) ==
    /\ pc[p] = "ready"
    /\ HasWork(p)
    /\ ~StopHoldsLock
    /\ IF Active
       THEN pc' = [pc EXCEPT ![p] = "offer"] /\ UNCHANGED <<batch, stats, over>>
       ELSE Refuse(p)
    /\ UNCHANGED <<life, jobs, poll, passes, cancelled, workVars>>

\* The select: send while the buffer has room, else refuse.
Room == Len(jobs) < Size

Offer(p) ==
    /\ pc[p] = "offer"
    /\ IF Room
       THEN /\ jobs' = Append(jobs, HintOf(p))
            /\ pc' = [pc EXCEPT ![p] = "sent"]
            /\ UNCHANGED <<batch, stats, over>>
       ELSE Refuse(p) /\ UNCHANGED jobs
    /\ UNCHANGED <<life, poll, passes, cancelled, workVars>>

\* The counter follows the send; the read lock is released.
Sent(p) ==
    /\ pc[p] = "sent"
    /\ Count("enqueued")
    /\ Return(p)
    /\ UNCHANGED <<life, jobs, poll, passes, cancelled, workVars, over>>
-----------------------------------------------------------------------------
(* The poller                                                              *)

\* enqueueDue: ListExecutableCaseIDs lists some due cases, or none, or fails.
List ==
    /\ poll = "list"
    /\ batch' \in 0 .. BatchSize
    /\ poll' = "submit"
    /\ UNCHANGED <<life, jobs, pc, passes, cancelled, workVars, stats, over>>

\* The select of poll, once the batch is submitted: either case may win when
\* both are ready.
InSelect == poll = "submit" /\ batch = 0

Tick ==
    /\ InSelect
    /\ passes < MaxPasses
    /\ passes' = passes + 1
    /\ poll' = "list"
    /\ UNCHANGED <<life, jobs, pc, batch, cancelled, workVars, stats, over>>

PollerExits ==
    /\ InSelect
    /\ cancelled
    /\ poll' = "done"
    /\ UNCHANGED <<life, jobs, pc, batch, passes, cancelled, workVars, stats, over>>
-----------------------------------------------------------------------------
(* The workers                                                             *)

Receive(w) ==
    /\ work[w] = "receive"
    /\ jobs # <<>>
    /\ work' = [work EXCEPT ![w] = "handle"]
    /\ holds' = [holds EXCEPT ![w] = {Head(jobs)}]
    /\ jobs' = Tail(jobs)
    /\ UNCHANGED <<life, pc, pollVars, cancelled, stats, over>>

\* The handler returns and the counter of its outcome goes up; a failure, or a
\* panic that process recovers, is counted and goes straight back.
HandlerReturns(w, outcome) ==
    /\ work[w] = "handle"
    /\ Count(outcome)
    /\ over' = over \cup holds[w]
    /\ holds' = [holds EXCEPT ![w] = {}]
    /\ work' = [work EXCEPT ![w] = IF outcome = "processed" THEN "note" ELSE "receive"]
    /\ UNCHANGED <<life, jobs, pc, pollVars, cancelled>>

\* LastProcessedID is written under the write lock.
Note(w) ==
    /\ work[w] = "note"
    /\ Readers = {} /\ ~StopHoldsLock
    /\ work' = [work EXCEPT ![w] = "receive"]
    /\ UNCHANGED <<life, jobs, pc, pollVars, cancelled, holds, stats, over>>

\* The range over the channel ends when it is closed and empty.
EndsWhenClosed == ChannelClosed
RangeOver == ChannelClosed /\ jobs = <<>>

WorkerExits(w) ==
    /\ work[w] = "receive"
    /\ RangeOver
    /\ work' = [work EXCEPT ![w] = "done"]
    /\ UNCHANGED <<life, jobs, pc, pollVars, cancelled, holds, stats, over>>
-----------------------------------------------------------------------------
(* Stop                                                                    *)

\* The context given to Start ends; the poller's context is derived from it.
ContextEnds ==
    /\ life # "new"
    /\ ~cancelled
    /\ cancelled' = TRUE
    /\ UNCHANGED <<life, jobs, pc, pollVars, workVars, stats, over>>

CallStop ==
    /\ life = "serving"
    /\ life' = "stopping"
    /\ UNCHANGED <<jobs, pc, pollVars, cancelled, workVars, stats, over>>

\* The write lock is free of readers: the flag is cleared under it.
ClearFlag ==
    /\ life = "stopping"
    /\ Readers = {}
    /\ life' = "flagged"
    /\ UNCHANGED <<jobs, pc, pollVars, cancelled, workVars, stats, over>>

\* The lock is released; the poller is cancelled and the channel closed.
CancelAndClose ==
    /\ life = "flagged"
    /\ life' = "draining"
    /\ cancelled' = TRUE
    /\ UNCHANGED <<jobs, pc, pollVars, workVars, stats, over>>

\* wg.Wait: the workers and the poller are done.
PollerDone == poll = "done"
AllDone == poll = "done" /\ \A w \in Workers : work[w] = "done"

StopReturns ==
    /\ life = "draining"
    /\ AllDone
    /\ life' = "stopped"
    /\ UNCHANGED <<jobs, pc, pollVars, cancelled, workVars, stats, over>>

Producing(p) == Submit(p) \/ Offer(p) \/ Sent(p)
Polling == List \/ Tick \/ PollerExits
Working(w) ==
    \/ Receive(w)
    \/ HandlerReturns(w, "processed")
    \/ HandlerReturns(w, "failed")
    \/ Note(w)
    \/ WorkerExits(w)
Stopping == ClearFlag \/ CancelAndClose \/ StopReturns

Next ==
    \/ Start
    \/ \E p \in Producers : Producing(p)
    \/ Polling
    \/ \E w \in Workers : Working(w)
    \/ ContextEnds
    \/ CallStop
    \/ Stopping

Spec == Init /\ [][Next]_vars

\* Goroutines that can run do: a Submit under way, the poller (whose select
\* picks at random, so that ctx.Done wins in the end), workers with handlers
\* that return, and Stop once called. Nothing makes requests come or calls Stop.
Fairness ==
    /\ \A p \in Producers : WF_vars(Offer(p) \/ Sent(p))
    /\ WF_vars(Submit(Poller))
    /\ WF_vars(List)
    /\ SF_vars(PollerExits)
    /\ \A w \in Workers : WF_vars(Working(w))
    /\ WF_vars(Stopping)

FairSpec == Spec /\ Fairness
-----------------------------------------------------------------------------
(* Properties                                                              *)

\* No goroutine is between its check of the active flag and its send when the
\* channel is closed: the send would panic.
NoSendOnClosed == ChannelClosed => \A p \in Producers : pc[p] # "offer"

Buffered == {jobs[i] : i \in DOMAIN jobs}
Handling == UNION {holds[w] : w \in Workers}

\* The counters that /ops shows account for every hint: what was taken is
\* buffered, being handled or counted as handled, but for the hints whose
\* sender has not counted them yet.
StatsBalance ==
    stats["enqueued"] + Cardinality({p \in Producers : pc[p] = "sent"})
        = stats["processed"] + stats["failed"] + Len(jobs) + Cardinality(Handling)

\* The queue implements the promises of HintBoard.
Board == INSTANCE HintBoard WITH
    phase   <- IF life = "new" THEN "new"
               ELSE IF Active THEN "open"
               ELSE IF life = "stopped" THEN "closed" ELSE "closing",
    held    <- Buffered \cup Handling,
    settled <- over
BoardSpec == Board!Spec

\* A hint that was taken is worked off, through a shutdown as well.
HintsAreHandled == \A h \in Hints : h \in Buffered ~> h \in over
=============================================================================
