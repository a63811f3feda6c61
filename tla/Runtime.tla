------------------------------- MODULE Runtime -------------------------------
(***************************************************************************)
(* The life of the process. internal/runtime/runtime.go opens the store,   *)
(* Redis and the bot, starts the queue and serves the HTTP API, deferring  *)
(* a close for each; when httpapi.Run (internal/httpapi/server.go) returns *)
(* the deferred calls run, last one first, and the process ends with every *)
(* goroutine that is left.                                                 *)
(*                                                                         *)
(* The queue is module WorkQueue. Its requests get a life around their     *)
(* Submit: they arrive through the API or through Discord, commit a case,  *)
(* submit its hint and answer. Requests that create no case submit nothing *)
(* and are left out; so are migration and command registration.            *)
(***************************************************************************)
EXTENDS WorkQueue, SequencesExt

CONSTANT ApiRequests   \* the requests that come over HTTP; the rest are Discord's

ASSUME RuntimeAssumption == ApiRequests \subseteq Requests

VARIABLES
    stage,   \* "starting", "serving", "unwinding" or "exited"
    defers,  \* the deferred closes of Run, the latest last
    signal,  \* SIGINT or SIGTERM ended the context of Run
    api,     \* the HTTP server
    request  \* where each request is in its handler

runtimeVars == <<stage, defers, signal, api, request>>

\* What Run opens, in order; opening the queue is Start, closing it Stop.
Resources == <<"db", "redis", "bot", "queue">>
IsOpen(x) == x \in ToSet(defers)

RuntimeTypeOK ==
    /\ stage \in {"starting", "serving", "unwinding", "exited"}
    /\ defers \in Seq(ToSet(Resources)) /\ Len(defers) <= Len(Resources)
    /\ \A i \in DOMAIN defers : defers[i] = Resources[i]
    /\ signal \in BOOLEAN
    /\ api \in {"off", "listening", "draining", "drained", "timedOut"}
    /\ request \in [Requests -> {"none", "arrived", "committed", "answered"}]

RuntimeInit ==
    /\ Init
    /\ stage = "starting"
    /\ defers = <<>>
    /\ signal = FALSE
    /\ api = "off"
    /\ request = [r \in Requests |-> "none"]
-----------------------------------------------------------------------------
(* Run                                                                     *)

Opens ==
    /\ stage = "starting"
    /\ Len(defers) < Len(Resources)
    /\ defers' = Append(defers, Resources[Len(defers) + 1])
    /\ IF Last(defers') = "queue" THEN Start ELSE UNCHANGED vars
    /\ UNCHANGED <<stage, signal, api, request>>

\* Opening the store, Redis or the bot fails, or the address is in use.
OpenFails ==
    /\ stage = "starting"
    /\ Len(defers) # 3
    /\ stage' = "unwinding"
    /\ UNCHANGED <<vars, defers, signal, api, request>>

Serve ==
    /\ stage = "starting"
    /\ Len(defers) = Len(Resources)
    /\ stage' = "serving"
    /\ api' = "listening"
    /\ UNCHANGED <<vars, defers, signal, request>>

SignalArrives ==
    /\ stage # "exited"
    /\ ~signal
    /\ signal' = TRUE
    /\ UNCHANGED <<vars, stage, defers, api, request>>

\* The goroutine of httpapi.Run sees the end of the context: Shutdown closes
\* the listener and waits for the requests, for ten seconds at most.
InApi == {r \in ApiRequests : request[r] \in {"arrived", "committed"}}

BeginShutdown ==
    /\ stage = "serving" /\ signal
    /\ api = "listening"
    /\ api' = "draining"
    /\ UNCHANGED <<vars, stage, defers, signal, request>>

EndShutdown ==
    /\ stage # "exited"
    /\ api = "draining"
    /\ api' \in IF InApi = {} THEN {"drained"} ELSE {"timedOut"}
    /\ UNCHANGED <<vars, stage, defers, signal, request>>

\* ListenAndServe returns as soon as Shutdown is called, and Run with it.
ApiReturns ==
    /\ stage = "serving"
    /\ api # "listening"
    /\ stage' = "unwinding"
    /\ UNCHANGED <<vars, defers, signal, api, request>>

\* The place of the deferred call that runs next.
EarliestFirst == 1
LatestFirst == Len(defers)

\* Run returned: queue.Stop is called and waited for, the others just close.
Unwind ==
    /\ stage = "unwinding"
    /\ IF defers = <<>>
       THEN stage' = "exited" /\ UNCHANGED <<vars, defers>>
       ELSE /\ UNCHANGED stage
            /\ IF defers[LatestFirst] = "queue" /\ life = "serving"
               THEN CallStop /\ UNCHANGED defers
               ELSE /\ defers[LatestFirst] = "queue" => life = "stopped"
                    /\ defers' = RemoveAt(defers, LatestFirst)
                    /\ UNCHANGED vars
    /\ UNCHANGED <<signal, api, request>>
-----------------------------------------------------------------------------
(* Requests                                                                *)

\* The API serves while it listens; interactions reach their handlers from
\* command registration until the bot's connection is closed.
Arrive(r) ==
    /\ request[r] = "none"
    /\ IF r \in ApiRequests THEN api = "listening" ELSE life # "new" /\ IsOpen("bot")
    /\ request' = [request EXCEPT ![r] = "arrived"]
    /\ UNCHANGED <<vars, stage, defers, signal, api>>

\* CaseService.Create commits a case, or fails: it must when the store is closed.
Commit(r) ==
    /\ stage # "exited"
    /\ request[r] = "arrived"
    /\ \E s \in (IF IsOpen("db") THEN {"committed"} ELSE {}) \cup {"answered"} :
          request' = [request EXCEPT ![r] = s]
    /\ UNCHANGED <<vars, stage, defers, signal, api>>

Answer(r) ==
    /\ stage # "exited"
    /\ request[r] = "committed"
    /\ pc[r] = "done"
    /\ request' = [request EXCEPT ![r] = "answered"]
    /\ UNCHANGED <<vars, stage, defers, signal, api>>

\* The steps of the queue's goroutines while there is a process.
QueueRuns ==
    /\ stage # "exited"
    /\ \/ \E p \in Producers : (p \in Requests => request[p] = "committed") /\ Producing(p)
       \/ Polling
       \/ \E w \in Workers : Working(w)
       \/ signal /\ ContextEnds
       \/ Stopping
    /\ UNCHANGED runtimeVars

RunNext ==
    \/ Opens \/ OpenFails \/ Serve
    \/ BeginShutdown \/ EndShutdown \/ ApiReturns \/ Unwind

RuntimeNext ==
    \/ RunNext
    \/ SignalArrives
    \/ \E r \in Requests : Arrive(r) \/ Commit(r) \/ Answer(r)
    \/ QueueRuns

RuntimeSpec == RuntimeInit /\ [][RuntimeNext]_<<vars, runtimeVars>>

\* Run's goroutines run and the queue is as fair as WorkQueue says; signals
\* and requests come or do not.
Alive(A) == stage # "exited" /\ A /\ UNCHANGED runtimeVars
RuntimeFairness ==
    LET v == <<vars, runtimeVars>> IN
    /\ WF_v(Opens) /\ WF_v(Serve) /\ WF_v(BeginShutdown) /\ WF_v(ApiReturns) /\ WF_v(Unwind)
    /\ \A p \in Producers : WF_v(Alive(Offer(p) \/ Sent(p)))
    /\ WF_v(Alive(Submit(Poller)))
    /\ WF_v(Alive(List))
    /\ SF_v(Alive(PollerExits))
    /\ \A w \in Workers : WF_v(Alive(Working(w)))
    /\ WF_v(Alive(Stopping))

FairRuntime == RuntimeSpec /\ RuntimeFairness
-----------------------------------------------------------------------------
(* Properties                                                              *)

\* The goroutines of the queue never work against a closed store, a closed
\* Redis or a closed bot: a claim that could not be completed would stay
\* running for ever.
QueueHasItsResources ==
    stage # "exited"
    /\ (poll = "list" \/ \E w \in Workers : work[w] \in {"receive", "handle"} /\ holds[w] # {})
        => IsOpen("db") /\ IsOpen("redis") /\ IsOpen("bot")

\* A case committed while the queue runs is offered to it; a request cut off by
\* the end of the process finds the queue drained: no hint is left in the
\* channel and no handler is cut off.
NothingCutOff == stage = "exited" => Buffered \cup Handling = {}

\* Both together: the deferred closes run in an order that serves the queue.
ShutdownOrder == QueueHasItsResources /\ NothingCutOff

\* After a signal the process ends.
ProcessExits == signal ~> stage = "exited"

\* "Run serves ... until the context is canceled, then performs a bounded
\* graceful shutdown" (internal/httpapi/server.go): when the process ends, no
\* API request is cut off unless the bound was reached.
GracefulShutdown == stage = "exited" /\ api # "timedOut" => InApi = {}
=============================================================================
