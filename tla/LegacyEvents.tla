---------------------------- MODULE LegacyEvents ----------------------------
(***************************************************************************)
(* The legacy bot's event log: Discord's events are put into a bounded     *)
(* channel, workers take them, read where the guild wants them logged and  *)
(* post them to a webhook.  A post that fails is put back after a minute   *)
(* by a goroutine of its own, as often as it fails.  The bot stops in the  *)
(* order main closes what it opened, and the /log commands rewrite the     *)
(* settings meanwhile.                                                     *)
(***************************************************************************)
EXTENDS Naturals, FiniteSets, Sequences

CONSTANTS Reports,      \* events Discord reports
          ReportKinds,  \* the kinds of event among them
          LogWorkers,   \* goroutines that process events
          QueueSize,    \* capacity of the channel
          Admins,       \* /log commands
          MaxTroubles   \* bound: failing calls, but for posts that leave no trace

Logs == {"messages", "members"}

\* Every handler, by the log it writes to, whether it looks for the moderator's
\* case first, and whether there may be nothing to say.
messageDelete     == [log |-> "messages", case |-> FALSE, blank |-> TRUE]
messageUpdate     == [log |-> "messages", case |-> FALSE, blank |-> TRUE]
messageBulkDelete == [log |-> "messages", case |-> FALSE, blank |-> TRUE]
memberJoin        == [log |-> "members",  case |-> FALSE, blank |-> FALSE]
memberLeave       == [log |-> "members",  case |-> FALSE, blank |-> FALSE]
guildBanAdd       == [log |-> "members",  case |-> TRUE,  blank |-> FALSE]
guildBanRemove    == [log |-> "members",  case |-> TRUE,  blank |-> FALSE]

Handlers == [message_delete |-> messageDelete, message_update |-> messageUpdate,
             message_bulk_delete |-> messageBulkDelete, member_join |-> memberJoin,
             member_leave |-> memberLeave, guild_ban_add |-> guildBanAdd,
             guild_ban_remove |-> guildBanRemove]

ASSUME LegacyEventsAssumption ==
    /\ ReportKinds \subseteq DOMAIN Handlers
    /\ QueueSize \in Nat /\ MaxTroubles \in Nat /\ IsFiniteSet(LogWorkers)
    /\ "none" \notin Reports    \* a worker without an event

VARIABLES
    kind,      \* what Discord reported, "none" before
    arriving,  \* events whose gateway handler has not called Enqueue yet
    channel,   \* the buffered channel
    worker,    \* what each worker holds and does
    asleep,    \* events waiting out their minute
    sent,      \* how many times an event was posted
    lost,      \* why an event was given up
    phase,     \* how far main's shutdown is
    logging,   \* Redis: where the guild logs
    admin,     \* the /log commands
    troubles

queueVars == <<channel, worker, asleep, sent, lost>>
eventVars == <<kind, arriving, queueVars, phase, logging, admin, troubles>>

Free == [at |-> "free", event |-> "none"]
GoneWorker == [at |-> "gone", event |-> "none"]

\* main closes what it opened in this order, then leaves.
Order == <<"running", "discord", "database", "redis", "cancelled", "closed", "exited">>
Passed(p) == \E i, j \in DOMAIN Order : Order[i] = p /\ Order[j] = phase /\ i <= j
Alive == phase \notin {"exited", "panicked"}

Trouble == troubles < MaxTroubles /\ troubles' = troubles + 1
Fine == UNCHANGED troubles

EventInit ==
    /\ kind = [e \in Reports |-> "none"] /\ arriving = {} /\ channel = <<>>
    /\ worker = [w \in LogWorkers |-> Free] /\ asleep = {}
    /\ sent = [e \in Reports |-> 0] /\ lost = [e \in Reports |-> "no"]
    /\ phase = "running" /\ logging = [l \in Logs |-> FALSE]
    /\ admin = [a \in Admins |-> [at |-> "idle"]] /\ troubles = 0
-----------------------------------------------------------------------------
\* A gateway handler starts.  It drops the event at once when what it reports
\* on is not in the cache or cannot be fetched.
Report(e) ==
    /\ phase = "running" /\ kind[e] = "none"
    /\ \E k \in ReportKinds : kind' = [kind EXCEPT ![e] = k]
    /\ arriving' = arriving \cup {e}
    /\ UNCHANGED <<queueVars, phase, logging, admin, troubles>>

GiveUp(e, why) == lost' = [lost EXCEPT ![e] = why]

HasRoom == Len(channel) < QueueSize

\* Enqueue never waits: with no room the event is dropped.  The send on a
\* closed channel panics.
Enqueue(e) ==
    IF Passed("closed")
    THEN phase' = "panicked" /\ UNCHANGED <<channel, lost>>
    ELSE /\ UNCHANGED phase
         /\ IF HasRoom
            THEN channel' = Append(channel, e) /\ UNCHANGED lost
            ELSE GiveUp(e, "full") /\ UNCHANGED channel

Arrive(e) ==
    /\ Alive /\ e \in arriving
    /\ arriving' = arriving \ {e}
    /\ Enqueue(e)
    /\ UNCHANGED <<kind, worker, asleep, sent, logging, admin, troubles>>

Wake(e) ==
    /\ Alive /\ e \in asleep
    /\ asleep' = asleep \ {e}
    /\ Enqueue(e)
    /\ UNCHANGED <<kind, arriving, worker, sent, logging, admin, troubles>>
-----------------------------------------------------------------------------
(* worker and processEvent. *)

Handles(w) == Handlers[kind[worker[w].event]]
Frees(w) == worker' = [worker EXCEPT ![w] = Free]
Moves(w, at) == worker' = [worker EXCEPT ![w].at = at]
Quits(w) == worker' = [worker EXCEPT ![w] = GoneWorker]
AfterError(w) == Frees(w)

Take(w) ==
    /\ Alive /\ worker[w].at = "free" /\ channel # <<>>
    /\ worker' = [worker EXCEPT ![w] = [at |-> "settings", event |-> Head(channel)]]
    /\ channel' = Tail(channel)
    /\ UNCHANGED <<kind, arriving, asleep, sent, lost, phase, logging, admin, troubles>>

\* select takes either branch once the context is cancelled; a closed channel
\* is first drained.
Leave(w) ==
    /\ Alive /\ worker[w].at = "free"
    /\ \/ Passed("cancelled")
       \/ Passed("closed") /\ channel = <<>>
    /\ Quits(w)
    /\ UNCHANGED <<kind, arriving, channel, asleep, sent, lost, phase, logging, admin, troubles>>

\* The handler reads the guild's settings; an error ends the event.  The report
\* of a member who joined then reads the guild it came with, which is nil when
\* it could not be fetched: the worker panics and takes the process down.
ReadSettings(w) ==
    LET e == worker[w].event
        next == IF Handles(w).case THEN "case" ELSE "send"
    IN /\ Alive /\ worker[w].at = "settings"
       /\ \/ /\ ~Passed("redis") /\ Fine /\ UNCHANGED phase
             /\ \/ logging[Handles(w).log] /\ Moves(w, next) /\ UNCHANGED lost
                \/ /\ ~logging[Handles(w).log] \/ Handles(w).blank
                   /\ Frees(w) /\ GiveUp(e, "unlogged")
          \/ /\ (Passed("redis") /\ Fine) \/ Trouble
             /\ AfterError(w) /\ GiveUp(e, "unread") /\ UNCHANGED phase
          \/ /\ ~Passed("redis") /\ Trouble
             /\ kind[e] = "member_join" /\ logging[Handles(w).log]
             /\ phase' = "panicked" /\ UNCHANGED <<worker, lost>>
       /\ UNCHANGED <<kind, arriving, channel, asleep, sent, logging, admin>>

\* A ban's or an unban's report names the guild's latest case; without any
\* case, or with an error, the event is given up.
ReadCase(w) ==
    /\ Alive /\ worker[w].at = "case"
    /\ \/ ~Passed("database") /\ Moves(w, "send") /\ Fine /\ UNCHANGED lost
       \/ /\ (Passed("database") /\ Fine) \/ Trouble
          /\ AfterError(w) /\ GiveUp(worker[w].event, "unread")
    /\ UNCHANGED <<kind, arriving, channel, asleep, sent, phase, logging, admin>>

NoRequeue(e) == UNCHANGED asleep

\* A failed post is tried again in a minute, by a goroutine of its own.
Requeue(e) == asleep' = asleep \cup {e}

Posted(e) == sent' = [sent EXCEPT ![e] = @ + 1]

\* SendWHEmbed: posted; the webhook is gone; or an error, which does not say
\* whether Discord took the message.  The request has no timeout, and nothing
\* counts how often a post has failed.
Send(w) ==
    LET e == worker[w].event
    IN /\ Alive /\ worker[w].at = "send"
       /\ \/ Fine /\ Posted(e) /\ Frees(w) /\ UNCHANGED <<asleep, lost>>
          \/ Trouble /\ GiveUp(e, "gone") /\ Frees(w) /\ UNCHANGED <<asleep, sent>>
          \/ /\ Requeue(e) /\ AfterError(w) /\ UNCHANGED lost
             /\ \/ Trouble /\ Posted(e)
                \/ Fine /\ UNCHANGED sent
       /\ UNCHANGED <<kind, arriving, channel, phase, logging, admin>>
-----------------------------------------------------------------------------
\* EQ.Stop waits for the workers after cancelling and closing.
WorkersGone == \A w \in LogWorkers : worker[w].at = "gone"

Shutdown ==
    /\ Alive
    /\ \E i \in 1..(Len(Order) - 1) :
         /\ phase = Order[i] /\ phase' = Order[i + 1]
         /\ Order[i + 1] = "exited" => WorkersGone
    /\ UNCHANGED <<kind, arriving, queueVars, logging, admin, troubles>>

-----------------------------------------------------------------------------
(* /log channel and /log disable. *)

\* FindLogSettingsByID; /log channel goes on to create a webhook.
ReadLog(a) ==
    /\ phase = "running" /\ admin[a].at = "idle"
    /\ \E log \in Logs, on \in BOOLEAN :
         admin' = [admin EXCEPT ![a] = [at |-> "write", log |-> log, on |-> on,
                                        read |-> logging, stale |-> FALSE]]
    /\ UNCHANGED <<kind, arriving, queueVars, phase, logging, troubles>>

BothCleared(c) == IF c.on THEN [c.read EXCEPT ![c.log] = TRUE] ELSE [l \in Logs |-> FALSE]

\* The settings as a command writes them back, both logs together.
NewSettings(c) == [c.read EXCEPT ![c.log] = c.on]

\* UpdateLogSettings, or the webhook or the write failed.
WriteLog(a) ==
    /\ Alive /\ admin[a].at = "write"
    /\ \/ /\ ~Passed("redis") /\ Fine
          /\ logging' = NewSettings(admin[a])
          /\ admin' = [b \in Admins |->
                         IF b = a THEN [at |-> "done"]
                         ELSE IF admin[b].at = "write" THEN [admin[b] EXCEPT !.stale = TRUE]
                         ELSE admin[b]]
       \/ /\ (Passed("redis") /\ Fine) \/ Trouble
          /\ admin' = [admin EXCEPT ![a] = [at |-> "done"]] /\ UNCHANGED logging
    /\ UNCHANGED <<kind, arriving, queueVars, phase>>
-----------------------------------------------------------------------------
WorkerStep(w) == Take(w) \/ Leave(w) \/ ReadSettings(w) \/ ReadCase(w) \/ Send(w)

EventNext ==
    \/ \E e \in Reports : Report(e) \/ Arrive(e) \/ Wake(e)
    \/ \E w \in LogWorkers : WorkerStep(w)
    \/ \E a \in Admins : ReadLog(a) \/ WriteLog(a)
    \/ Shutdown

\* Go's scheduler runs every goroutine that can go on.  A worker in a call to
\* Redis, MySQL or the webhook goes on when the call returns, which nothing
\* promises.
EventFairness ==
    /\ \A w \in LogWorkers : WF_eventVars(Take(w) \/ Leave(w))
    /\ \A e \in Reports : WF_eventVars(Arrive(e)) /\ WF_eventVars(Wake(e))

EventSpec == EventInit /\ [][EventNext]_eventVars /\ EventFairness
-----------------------------------------------------------------------------
InHand(e) == \E w \in LogWorkers : worker[w].event = e
InChannel(e) == \E i \in DOMAIN channel : channel[i] = e
Settled(e) == lost[e] # "no" \/ sent[e] > 0

(* The channel never holds more than its capacity, and every event is in   *)
(* one place at a time.                                                    *)
EventTypeOK ==
    /\ Len(channel) <= QueueSize /\ arriving \subseteq Reports /\ asleep \subseteq Reports
    /\ \A e \in Reports : /\ lost[e] \in {"no", "full", "unlogged", "unread", "gone"}
                          /\ Cardinality({w \in LogWorkers : worker[w].event = e})
                             + Cardinality({i \in DOMAIN channel : channel[i] = e})
                             + Cardinality({e} \cap asleep)
                             + Cardinality({e} \cap arriving) <= 1
    /\ phase \in {Order[i] : i \in DOMAIN Order} \cup {"panicked"}

(* An event that Discord reported and that is neither posted nor given up  *)
(* for a stated reason is still somewhere: about to be queued, queued, in a *)
(* worker's hand or waiting out its minute.  The failing post is the case  *)
(* in which the only reference is handed to a new goroutine.               *)
NoEventVanishes ==
    Alive => \A e \in Reports :
        kind[e] = "none" \/ Settled(e) \/ e \in arriving \/ InChannel(e) \/ InHand(e)
                         \/ e \in asleep

\* Every event is in one place at a time, and in one at all.
EventsAccounted == EventTypeOK /\ NoEventVanishes

(* A /log command changes the log it names; it touches the other one only  *)
(* when another command wrote between its read and its write.              *)
OtherLogUntouched ==
    [][\A log \in Logs : logging'[log] # logging[log] =>
         \E a \in Admins : /\ admin[a].at = "write" /\ admin'[a].at = "done"
                           /\ admin[a].log = log \/ admin[a].stale]_eventVars

(* While the bot runs, what was reported is posted, given up or, after a   *)
(* failed post, asleep in the end, if the calls of every worker return: a  *)
(* handler's error costs its event but never its worker, and no event      *)
(* stays in the channel for ever.  Nothing more is promised.  A post whose *)
(* webhook keeps failing with anything but a 404 is retried for ever, and  *)
(* a worker whose webhook never answers hangs.                             *)
EventsSettle ==
    (\A w \in LogWorkers : []<>(worker[w].at \in {"free", "gone"})) =>
        \A e \in Reports : kind[e] # "none" ~> (Settled(e) \/ e \in asleep \/ phase # "running")
=============================================================================
