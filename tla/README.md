# Verification of Quack v5

Quack is a Discord moderation bot: staff apply *templates* to members, which creates *cases*; a case
carries *actions* (a DM, a timeout, a kick, a ban) that background workers execute. This directory holds
TLA+ modules of its core logic, TLC configurations that check them on small instances, and proofs that
TLAPS checks for all instances. Paths below are relative to the repository's `src/`; every definition
that models code is tied to its lines in `PROJECT.json` under `map`.

1. [The system](#1-the-system)
2. [Modules](#2-modules-and-the-code-they-model)
3. [Runs](#3-what-tlc-checks)
4. [Proofs](#4-what-tlaps-proves)
5. [Findings](#5-where-the-code-and-its-documentation-disagree)
6. [Assumptions and limits](#6-assumptions-and-limits)
7. [Plan](#7-plan)

## 1. The system

### 1.1 Components

| component | state | operations | correct when |
|---|---|---|---|
| Case creation (`internal/quack/cases.go`, `internal/store/cases.go`, `storage.go`) | `cases`, `case_events`, `case_action_executions`, `audit_log_entries`, the row lock on the guild | `CaseService.Create` under `WithGuildCaseLock`: read the template and the member's history, select a level, number and write the case, submit its hint, audit a failure | numbers have no gaps or repeats; simultaneous cases escalate as if created one at a time; a case captures one policy that was in force; hints and audit entries agree with what committed |
| Level selection (`internal/quack/cases.go`, `templates.go`) | none | `normalizeLevels`, `selectTemplateLevel`, `matchingTemplateCaseCount` | the highest due escalation is chosen; a further case never lowers it; an accepted template can be applied (not always so: section 5) |
| Action engine (`internal/quack/actions.go`, `internal/store/cases.go`) | execution rows (status, attempt count, next retry time), attempt rows, the case's status and `resolved_at`; each worker's copy of its claimed row | `ProcessCaseActions`: claim, execute, complete, skip, in three separate transactions | one row of a case runs at a time; irreversible effects happen at most once; retries stay in budget; skips happen only behind a stopping failure; the case's status summarises its rows; due work is done |
| Executors (`internal/quack/actionmods`) | none | `SendDM`, and stubs for timeout, kick, ban | (their results are inputs of the engine) |
| Work queue (`internal/workqueue/queue.go`) | the channel, the active flag behind a read-write mutex, the poller's context, four atomic counters | `Start`, `Submit`, `poll`/`enqueueDue`, `worker`/`process`, `Stop`, `Stats` | no send on a closed channel; what was taken is handled once; counters balance; `Stop` returns, and drains |
| Process runtime (`internal/runtime/runtime.go`, `internal/httpapi/server.go`, `cmd/quack/main.go`) | the deferred closes, the signal context, the HTTP server | start-up in stages, serving, shutdown, unwinding | goroutines outlive no resource they use; a signal ends the process; nothing taken is cut off |
| Templates (`internal/quack/templates.go`, `internal/store/templates.go`) | template, level and action rows, versions | create, update, archive; a read in three queries | slugs are distinct; a template that can be applied has the levels of its row; only a stale edit undoes another |
| Case, audit and operations reads (`internal/quack/cases.go`, `audit.go`, `ops.go`) | none of their own | sequences of queries without a transaction; pages of lists that grow | no response contradicts itself; a walk misses nothing |
| Authentication (`internal/store/auth.go`, `internal/httpapi/middleware`, `routes/auth.go`) | OAuth states and sessions in Redis, with lifetimes | login, callback, refresh on each request, logout | a state is used once; a session that was logged out is gone |
| Guilds, staff, permissions (`internal/quack/guilds.go`, `internal/store/guilds.go`) | guild and staff rows | upserts, permission evaluation, activity throttle | rights follow a reading of the request's own, as new as the bot's copy of the guild; a guild that is offered opens |
| Command synchronisation (`internal/discordbot/commands`) | Discord's commands, a hash cache in Redis | list, create, edit, skip, prune | Discord ends with the definitions of the binary, and nothing is written without need |
| Interactions (`internal/discordbot/interactions`, `ui`, `commands/case.go`) | goroutines of interaction tasks, replies | respond, run the task, edit the reply | a task runs only after an accepted response; the moderator is told what became of the case |
| Legacy tickets (`Legacy/storage/tickets.go`, `components/ticket-*.go`) | tickets in SQL; the active threads and their messages in Redis; Discord threads | open, write, close, settings | what one closing has read is not lost, wherever it fails; an open ticket is listened to; one open ticket per member (not always so: section 5) |
| Legacy punishments, cases, appeals (`Legacy/commands`, `components/appeals.go`) | case and appeal rows, Discord's ban list | ban, kick, timeout, warn, unban; submit, accept, reject; remove a case | no case without its act; no act without its case, but for the calls and inserts that fail; an accepted appeal lifted its ban |
| Legacy events and log settings (`Legacy/services/event-queue.go`, `utils/send-wh.go`, `events`, `commands/log-*.go`) | a bounded channel, workers, sleeping goroutines, a settings row | enqueue, work, retry, put back, stop; set and disable a log | each event is in one place; no error costs a worker; a setting leaves the other alone |
| Legacy message cache (`Legacy/services/message-cache.go`) | a list and a map under a mutex | get, add | both agree; the most recent messages are kept |
| Legacy honeypots (`Legacy/commands/honeypot-create.go`, `storage/honeypot.go`, `events/honeypot.go`) | rows with a counter, a Redis list, a message in the channel | create, delete, punish who writes | the count and the number shown tell bans that are on record |
| Legacy profiles, notes, purges, lockdown, guild records, setup | single rows | one statement per command | (see 6) |
| Persistence setup, configuration, identifiers | connection pools | connect, migrate | (one-time setup) |

### 1.2 Interactions

```
 Discord ──interaction task──┐                     ┌── poller, each second: ListExecutableCaseIDs
                             ├─► CaseService.Create│
 HTTP ─────route handler─────┘    │ guild row lock │
                                  ▼                ▼
                        MySQL: case + rows ──► Queue.Submit ──► channel ──► workers
                                  ▲                                           │
                                  └── claim / complete / skip ◄── ProcessCaseActions ──► Discord
```

Creation and the engine share nothing but the database: a *hint* (a case identifier) tells a worker to
look, and is allowed to be lost, repeated or stale. The claim transaction decides what is done. The
poller makes up for lost hints. `Stop` is the queue's shutdown and is called from the runtime's deferred
calls, while HTTP handlers and Discord tasks may still be submitting.

In front of creation stand the dashboard and the bot. A dashboard request reads and renews its session
in Redis, brings the guild and staff rows up to date with what Discord says of the member, and then calls a
service. A slash command is answered at once by the dispatcher, which runs the service in a goroutine of its own and
edits the answer; the definitions of the commands were synchronised at start-up. These parts share
tables with creation but no memory, and no two of them call each other.

The Legacy bot is a program of its own, with its own database, Redis keys and event loop; v5 does not call it.

### 1.3 What is hard

- **Interleavings of transactions.** Claim, complete and skip are transactions of their own; another worker, an
  error or a crash comes between any two. Creation holds the guild's row but reads templates that others edit.
- **Interleavings of goroutines.** `Submit` checks the flag and sends under a read lock; `Stop` clears
  the flag under the write lock, and closes the channel and waits outside of it.
- **Crashes and partial failures.** A row can be left running, a failed row without its skips, a case
  without its hint.
- **Shutdown order.** `httpapi.Run` returns when `Shutdown` is called and not when it is done; the
  deferred closes run last to first.
- **Edges of numbers.** An 8-bit attempt counter, a count that includes the case under way, windows that
  are closed at one end, a channel at its capacity, a limit that is capped on its way.
- **Reads that are written back.** Template rows, staff rows, sessions, the log settings and the cached hashes are
  read, changed and saved whole, without a lock or a version check.
- **Calls that fail after their effect.** Redis and Discord may carry a call out and answer with an error, and
  none of the sequences of calls in the dashboard, the bot and the Legacy handlers is a transaction.

`PROJECT.json` lists these under `hazards`, each at its line, with the property that covers it, and says where the code lets one happen and a property can only tell how far it goes. One has none:
discovery's limit of a hundred cases, see section 6.

## 2. Modules and the code they model

| module | models | is used by |
|---|---|---|
| `CaseLedger` | nothing in particular: what the rows of a case promise to their readers | `ActionEngine` (`LedgerSpec`) |
| `ActionEngine` | `actions.go`, and the claim, complete, skip and listing of `store/cases.go` | `EngineCrews`, `MCActionEngine`, `ActionEngineProofs` |
| `EngineCrews` | the engine behind a queue that starts some of the workers (`queue.go`) | `MCEngineCrews`, `ActionEngineProofs` |
| `HintBoard` | nothing in particular: what the queue promises to its submitters | `WorkQueue` (`BoardSpec`) |
| `WorkQueue` | `queue.go` | `MCWorkQueue`, `Runtime`, `RuntimeProofs` |
| `Runtime` | `runtime.go`, `server.go`, `main.go`, composed with `WorkQueue` | `MCRuntime`, `RuntimeProofs` |
| `Escalation` | `normalizeLevels` and `selectTemplateLevel` as operators | `MemberRecord`, `CaseCreation`, `EscalationProofs` |
| `MemberRecord` | one member's cases as they accumulate and grow old | `Frontends`, `MCMemberRecord`, `FrontendsProofs` |
| `CaseRegister` | nothing in particular: what creating a case promises, as one atomic step | `CaseCreation` (`RegisterSpec`) |
| `CaseCreation` | `CaseService.Create`, `WithGuildCaseLock`, `CreateCase`, and staff edits | `MCCaseCreation`, `CaseCreationProofs` |
| `Templates` | `TemplateService` over `store/templates.go` | `Frontends`, `DashboardProofs` |
| `Paging` | the case list and the audit log, page by page | `Frontends`, `DashboardProofs` |
| `CaseReads` | case detail, member history, operations status, over rows that move as `CaseLedger` says | `Frontends`, `DashboardProofs` |
| `AuthSessions` | `routes/auth.go`, `routes/ops.go`, `middleware/auth.go`, `store/auth.go` | `Frontends`, `DashboardProofs` |
| `StaffContext` | `guilds.go`, `middleware/guild.go`, `store/guilds.go` | `Frontends`, `DashboardProofs` |
| `CommandSync` | `commands/sync.go`, `hash.go`, `cache.go` | `Frontends`, `BotProofs` |
| `Interactions` | `dispatcher.go`, `commands/case.go` | `Frontends`, `BotProofs` |
| `Frontends` | the seven modules above and `MemberRecord` side by side | `MCFrontends`, `FrontendsProofs` |
| `LegacyTickets`, `LegacyBans`, `LegacyEvents`, `MessageCache`, `LegacyHoneypot` | the parts of the Legacy bot that keep state | `MCLegacy`, `LegacyProofs` |

Each `MC` module gives a specification its instance: sets, plans and policies that a `.cfg` cannot write.
`Frontends` and `MCLegacy` put
components that share no state side by side: `part` names the one that moves in a behaviour, and the others rest in an initial
state, so that one run explores each of them by itself and no product of them. The modules named
`...Proofs` hold invariants, lemmas and theorems and nothing else.

Some modules define, directly above an operator, an altered form of it that nothing in the specification
uses (`EarliestFirst` above `LatestFirst`, `HoldsWhileDraining` above `StopHoldsLock`). Each is a plausible bug in
that operator's code. `PROJECT.json` pairs it with a property under `mutants`: with the altered form in
the operator's place TLC finds that property violated, which shows that the property depends on that code.

### 2.1 ActionEngine

State: `status`, `attempts`, `recorded` and `backoff` are `case_action_executions.status`,
`.attempt_count`, the numbers in `case_action_attempts`, and "`next_retry_at` lies in the future".
`caseStatus` and `resolved` are columns of `cases`. `plan` is what the rows carry of the template
snapshot: `SafeForRetry`, `MaxRetries`, `continue_on_error`. `pc`, `job`, `at`, `try` and `result` are a
worker's locals in `ProcessCaseActions`; `at` and `try` are the copies it took when it claimed.

| action | code |
|---|---|
| `StartJob` | a worker is handed a hint; any existing case at any time, which covers creation, discovery, repeated and stale hints |
| `ClaimRow`, `ClaimNothing` | `ClaimNextCaseAction`: nothing while a row of the case is running, else the lowest due row, whose attempt counter goes up modulo its width |
| `Execute` | `executeAction`: any result that the executors of this row allow; an error can follow the effect, because the notification DM can fail after the moderation |
| `Complete`, `CompleteDuplicate` | `CompleteCaseAction`: attempt, row, case event, audit and case status in one transaction, or its rollback on the unique attempt number |
| `Skip` | `SkipCaseActions`, which `processClaimedAction` calls after a stopping failure |
| `BackoffElapses` | the clock passes `next_retry_at` |
| `JobFails`, `Crash` | a store error or a recovered panic ends one job; the process ends and a new one begins with idle workers |

`effects` counts outside effects for the properties, and no action reads it.

`EngineCrews` adds a `crew` that is fixed in a behaviour: `Start` gives hints to as many workers as it is told to, and the
others stay idle.

### 2.2 WorkQueue

`life` is how far `Start` and `Stop` have come; the active flag, the closed channel and the write lock
are functions of it. `pc` says where each producer is in `Submit`: after the check of the flag
(`offer`), after the send (`sent`); in both it holds the read lock. There is one action for each step
between synchronisation points: `Submit`, `Offer` and `Sent`; `List`, `Tick` and `PollerExits`; `Receive`,
`HandlerReturns`, `Note` and `WorkerExits`; `ClearFlag`, `CancelAndClose` and `StopReturns`. The
`enqueued` counter goes up in the step after the send, as in the code, where a worker may handle the hint, and
a `Stats` call see the gap, before the sender counts it. Go's pending writer keeps new readers out of a `RWMutex`; the model lets them in, which
only adds behaviours.

### 2.3 Runtime

`Runtime` EXTENDS `WorkQueue`, adds the stages of `Run`, its stack of deferred closes, the signal
and the HTTP server, and gives each request of the queue a life: it arrives, commits a case, submits, and answers.
`Opens` pushes a close; `Unwind` runs the last one, and for the queue calls `Stop` and waits for it.
`ApiReturns` models that `ListenAndServe` returns as soon as `Shutdown` has been called. All the
queue's goroutines stop with the process (`stage = "exited"`).

### 2.4 Escalation, MemberRecord, CaseCreation

`Escalation` translates the loop of `selectTemplateLevel` as a fold over the levels with the same
three locals (`fallback`, `best`, and the error exit), and states the documented rule without a loop.
`MemberRecord` puts both to every record that one member can accumulate: cases are created at age 0 and
grow old, and windows are measured in the same units.

`CaseCreation` has one action for each statement group of a creation that another actor can separate from the
next: `Lock` waits for the guild's row; `Read` validates the input and fixes the snapshot; `Decide`
counts and selects on the snapshot; `Number` allocates with a locking read of the latest commits;
`Commit` writes case, event, rows and audit entry together and gives the lock back; `Submit` and
`AuditFailure` follow outside the transaction. `Edit` is a committed update or archive of a template,
`StoreError` a failed statement or an ended request context (a `Commit` may also be carried out and answered by an error: then there is a case with its success entry, and neither hint nor failure entry), `Crash` the end of the process. `view` and
`draft` are the transaction's snapshot and the case being built; the code checks a template's guild in
the same query that reads it, which is `Applies`.

### 2.5 Templates

`tmpl` is the rows, `levelsOf` which commit wrote a template's levels. An editor is a request: `AskEdit` is its arrival,
`FindTemplate` and `CheckSlug` the service's look-ups outside of the transaction, `ReadTemplate` the
unlocked read in the transaction, `SaveTemplate` its first write, which waits for the row and for the slug,
`CommitTemplate` the replaced levels and the commit, `EditFails` a rollback at any of these points. `Observe` is one of the
three queries of a read. What an edit sets is told apart by the number of its commit.

### 2.6 Paging and CaseReads

In `Paging` a list grows (`AddCase` under the guild lock with the next number; `AddEntry` with a timestamp that may tie)
while a reader counts and reads pages by the limit that the last response reported (`BeginWalk`, `CountItems`, `ReadPage`).
Where timestamps tie, the order of a page is any that respects them. In `CaseReads` a read is a list of queries
(`Queries`), of which `Query` runs the next on what is committed then; a history is one page by number, newest first, by `PageLimit` and `PageOffset`; `OpenNext`, `WorkRow` and `EndRow` are
steps of `CaseLedger`, which `ActionEngine` implements, with the attempts and events that such a step writes.

### 2.7 AuthSessions and StaffContext

`heldUntil` and `session` are Redis keys with their times; a session also carries the expiry that the middleware checks. `DiscordLogin`,
`ConsumeOAuthState`, `Exchange` and `SaveNewSession` are the login; `GetSession`, `CheckExpiry`, `DropExpired`,
`SaveSession` and `AuthLogout` a request. Every call may fail, before or after its effect, `MaxOutages` times.

`StaffContext` has one member of one guild whose permissions and ownership change in Discord (`ChangeInDiscord`). The bot's copy
of the guild, `known`, follows by events (`news`, `HearOfOwner`), and `ReadBotGuild` answers with the owner from the copy, or from Discord when the copy is missing.
A request `Enter`s from the dashboard or with a command, reads guild and staff row, saves them whole
(`WriteGuild`, `SaveStaff`, with the activity throttle), and is decided (`DecideAccess`); `ReadUserGuilds` is
the list of guilds, which evaluates permissions with code of its own. `granted`, `withheld` and `offeredAt` are ghosts
that record what Discord said during a request, `taken` that the bot's copy named the member the owner during it.

### 2.8 CommandSync and Interactions

`CommandSync`: `remote` is Discord, `cache` the Redis hash, `sync` each process's `Sync` call with the list it fetched. There is
one action for each call: `ListCommands`, `ReadCache`, `CreateCommand`, `EditCommand`, `CacheCommand`,
`PruneCommand`; a deletion, like a write, may be carried out and answered by an error; `NextSpec` is the loop, `Failed` an error, `FlushCache` the loss of the cache. Definitions are a body and the two
fields that Discord fills in when they are absent, which `canonicalizeCommand` makes equal before hashing.

`Interactions`: a delivery of an interaction (twice, perhaps) runs its handler, sends the first response, and starts the task only if
that was accepted (`Deliver`, `TaskStep`); `StoreFails`, `TaskPanics` and `ProcessEnds` interrupt it, and a template
may change under it. `reply` is what the moderator sees.

### 2.9 The Legacy bot

Handlers are goroutines without locks, so that every call to Redis, SQL or Discord is an action of its own.
`LegacyTickets`: `opening`, `closing` and `sending` are the goroutines of button presses and messages; `rows`, `active`,
`lists` and `threads` what they write. `LegacyBans`: a command or a button press is a job that goes through the
steps of its kind (`Does`), one call each; a job ends done, failed or lost. Discord carries a call out, refuses it, or carries it out
and answers with an error (`CarriedOut`), which ends the handler before its case is saved; `ActInVain` is the timeout whose length could not be parsed, so
that its case is saved and nobody was timed out. `LegacyEvents`: `channel`, `worker`, `asleep`
and `arriving` are the places an event can be in, `phase` how far `main` has closed what it opened, `admin` the `/log` commands.
A member's join whose guild could not be fetched ends the process (`ReadSettings`).
`MessageCache` has an action for each of the two operations, atomic under its mutex.
`LegacyHoneypot`: a post's goroutine looks the channel up, reads the count and the member's rights, deletes the message, bans, saves the case, counts
and edits the channel's message; any of these calls may be carried out and answered by an error.

## 3. What TLC checks

`tlc -config <run>.cfg <module>`; the module of each run is in `PROJECT.json`. No run uses symmetry. Deadlock is
checked wherever the system should never stop; the runs that say `CHECK_DEADLOCK FALSE` end by design:
the queue and the process when they have shut down, creation, the frontends and the Legacy bot when every bounded request is
over.

| run | instance | shows |
|---|---|---|
| `engine_created` | 1 case, 1 or 2 workers, rows at 0..2 as creation writes them, any result of any executor, 1 fault | `UnsafeAtMostOnce`; `OneWorkerStopsAtFailure`: alone, without faults and on rows that are tried once, a worker stops the case at a stopping failure (a row that waits for its retry would let the next one run); `LedgerSpec`: the engine implements `CaseLedger` |
| `engine_retry` | 1 case, 2 workers, 2 rows with every retry limit of a 2-bit counter, 2 faults, under fairness | `ClaimsExclusive`, `AttemptsAddUp`; `CasesSettle` without faults and `DueWorkMoves` with them |
| `engine_two_workers_race` | 2 workers, no fault | a violation of `StopsAtFailure` (5.1) |
| `engine_restart` | 1 crash, under fairness | a violation of `RecoversAfterRestart` (5.2) |
| `queue_stop` | 2 requests, 2 workers, a channel of 1, 2 discovery passes of up to 1 case | `NoSendOnClosed`, `StatsBalance`, `BoardSpec`, and under fairness `HintsAreHandled` |
| `runtime_shutdown` | an API and a Discord request, 1 worker, a channel of 1, 1 discovery pass | `ShutdownOrder`, and under fairness `ProcessExits`, which needs `Stop` to return |
| `runtime_graceful` | the same | a violation of `GracefulShutdown` (5.3) |
| `creation` | 3 requests in four constellations (same member; other member and other guild; a template of another guild; no permission), 3 template rows, 2 clock readings, 1 edit, 1 fault | `LockIsTransaction`, `NumbersGapless`, `EscalationSerial`, `OutcomeIsTold`; `RegisterSpec`: creation implements `CaseRegister`, which includes `PolicyInForce` |
| `frontends_former_owner` | a guild changes hands | a violation of `CacheGrantsNothing` (5.5) |
| `frontends` | the parts of `Frontends`, one at a time (below) | `WalkMissesNothing` and `ReadsAgree` of the reads; `OneCallbackPerLogin` and `LogoutFinal` of sessions; `RightsFromOwnReading` and `OfferedGuildOpens` of staff; `TemplatesAgree` and `UndoneOnlyWhenStale` of templates; `SelectsDocumentedLevel` of the scan; `SettledMatchesBinary` and `WritesWhatItMust` of command synchronisation; `RepliesTellOutcome` and `OneCasePerInteraction` of interactions; `DashboardTypeOK` |
| `legacy` | the parts of `MCLegacy`, one at a time (below) | `TicketsSound` (tickets); `CasesMatchActs` and `AcceptedMeansLifted` (punishments and appeals); `EventsAccounted`, `OtherLogUntouched` and, under fairness and if calls return, `EventsSettle` (events); `CacheSound`; `CountsTellBans` (honeypots) |
| `legacy_two_tickets` | two presses of the button by one member | a violation of `OneOpenTicket` (5.4) |

Some properties are exact about what the code leaves open instead of claiming more. `LogoutFinal`
says that a session that was logged out is there again only if a request that had read it before has written its copy back;
`UndoneOnlyWhenStale`, that only an edit that has read an older row undoes another one; `WalkMissesNothing` excepts
audit entries of the same millisecond, whose order the query does not fix; `OtherLogUntouched` excepts a write between the
command's own read and write; `RightsFromOwnReading`, what the bot's copy of the guild said of its owner during the request; `TicketsSound` speaks of one
closing and not of the next, and not of messages that arrive between the reading of the list and its deletion; `CasesMatchActs` excepts an act
whose call was answered by an error, an insert that failed, the end of the process and a timeout in vain. Each exception is a behaviour that TLC reaches.

Where an exception is a race that the code does not prevent, the property does not find that race, which is there; it finds any other way to the same
harm: `LogoutFinal`, say, a logout that deletes the cookie alone. Section 5 lists these races.

### Why the bounds are enough

- *Cases.* The engine's transactions touch one case each, and workers interact only through rows of a
  case; one case with two workers shows every race between transactions. The theorems hold for any number.
- *Workers.* Every race found here is between the holder of a row and another worker; a third behaves as the second.
- *Positions.* Three: the generated DM, the action that fails, an action behind it to be skipped or wrongly run.
- *Counter width.* Two bits instead of eight: the wrap at `CountModulus` and every limit below it occur.
- *Channel of one.* It is full, empty and in between (a send after a receive) in one behaviour, with
  more submissions than it holds.
- *Two faults.* The second comes while the system is recovering from the first.
- *Three creators.* Two wait for the lock while a third holds it; two commits lie behind the third case, so
  that a trigger of three is reached.
- *Clock readings 0 and 2 with a window of 1.* A case falls inside or outside of the window of the next.
- *Frontends.* Two requests, callbacks, processes or deliveries are a race, and three editors let a stale save meet
  two later commits. Lists of three items under limits of one and three, capped at two, have full, partial and empty pages. Lifetimes of 1 in a time
  of 3 let a key expire and be written back. One fault or outage hits every call in turn; `Interactions` has two mishaps, since
  the interesting ones come after a first.
- *Legacy.* Four jobs, two at a time, one member: two moderators on one appeal beside a command; every command with
  every other one in pairs (`Pair`). Two events, one worker and a channel of one: the channel is full when a
  sleeping event comes back. A cache of two with four messages. Three posts on one honeypot by two strangers or an exempt member: two read the same count and the third comes
after them; one stranger's second post is handled beside the first.
- *Policies of three levels.* Two escalations can tie, be out of order, be disabled, with the default
  anywhere between them.

### Fairness

- *Engine.* Weak fairness of each worker's steps: a goroutine with work runs, and executors return (Discord calls
  have timeouts). Weak fairness of `BackoffElapses`: time passes. Strong fairness of handing out a listed
  case: the discovery pass lists it every second while it is due; it may be refused by a full queue or
  find all workers busy, but not for ever, because the channel is drained. This is assumed with fewer
  listed cases than the query's limit of 100; see the plan.
- *Queue.* Weak fairness of a submission under way, of the poller's `Submit` and `List`, of workers and of
  `Stop` once called. Strong fairness of `PollerExits`: Go's `select` picks at random among ready cases, so that
  a done context wins in the end although the ticker is ready again and again.
- *Runtime.* The same while the process lives, and weak fairness of the steps of `Run`. `EndShutdown` has none: nobody waits for it.
- *Legacy events.* Weak fairness of each worker's `Take` and `Leave` and of each goroutine that is about to enqueue or sleeps: Go runs what can run, and sleeps
  end. The calls of a worker have none: `send-wh.go:42` makes an HTTP client without a timeout. `EventsSettle` has instead the hypothesis that every worker
  is free (or gone) again and again, and does not promise that an event is posted: a post that fails with anything but a 404 is retried without limit,
  so that it may be `asleep` again and again, in the model as in the code (such failures are not counted by `MaxTroubles`). In `MCLegacy` this holds where that part moves (`PartFairness`). `/log` commands and `main`'s shutdown have none.
- Nothing is fair about requests, edits, signals, calls of `Stop` or faults.

`CasesSettle` is conditional on there being no fault, because 5.2 makes it false otherwise. `DueWorkMoves` says
what holds with faults: due work is claimed unless a row of its case was orphaned.

## 4. What TLAPS proves

For every value of the constants that satisfies the modules' named assumptions, which TLC evaluates on the runs that use the module:
`EngineAssumption`, `CrewsAssumption`, `QueueAssumption`, `RuntimeAssumption`, `RecordAssumption`, `CreationAssumption`, `TemplatesAssumption`,
`AuthAssumption`, `StaffAssumption`, `PagingAssumption`, `ReadsAssumption`, `SyncAssumption`, `MessageCacheAssumption`,
`LegacyHoneypotAssumption`, `LegacyBansAssumption` and `LegacyEventsAssumption`. They say that bounds and sizes are numbers, and what the
code or its environment guarantees of its inputs: `ReadsAssumption` also that there are finitely many cases and rows, without which
a count is none; `SyncAssumption`, that a release has one definition of a name.

| theorem | states |
|---|---|
| `ActionEngineProofs!TypeCorrect`, `ClaimsExclude`, `UnsafeOnce`, `AttemptsAlwaysAddUp` | `Spec => []` `TypeOK`, `ClaimsExclusive`, `UnsafeAtMostOnce`, `AttemptsAddUp` |
| `ActionEngineProofs!SkipsBehindFailureOnly` | `Spec => []SkippedBehindFailure` |
| `ActionEngineProofs!OneWorkerKeepsOrder` | `CrewSpec => []OneWorkerStopsAtFailure`, so 5.1 needs a second worker, a fault or a retry |
| `ActionEngineProofs!EngineImplementsLedger` | `Spec => LedgerSpec` |
| `RuntimeProofs!TypeCorrect`, `NeverSendsOnClosed`, `CountersBalance` | `Spec => []` `TypeOK`, `NoSendOnClosed`, `StatsBalance` |
| `RuntimeProofs!QueueImplementsBoard` | `Spec => BoardSpec` |
| `RuntimeProofs!ProcessRunsQueue` | `RuntimeSpec => Spec`: the queue in the process is a `WorkQueue` |
| `RuntimeProofs!RuntimeTypeCorrect`, `ShutdownOrdered` | `RuntimeSpec => []` `RuntimeTypeOK`, `ShutdownOrder` |
| `EscalationProofs!SelectIsDocumented` | the scan of `selectTemplateLevel` picks the documented level, for policies of any length |
| `FrontendsProofs!RecordGetsDocumentedLevel` | `RecordSpec => []SelectsDocumentedLevel` |
| `FrontendsProofs!EnabledDefaultApplies` | `RecordSpec => [](AcceptedTemplatesApply <=>` the template's default level is enabled`)` |
| `CaseCreationProofs!TypeCorrect`, `LockHeld`, `NumbersHaveNoGap`, `HistoryIsSerial`, `PolicyWasInForce`, `OutcomesTold` | `Spec => []` `TypeOK`, `LockIsTransaction`, `NumbersGapless`, `EscalationSerial`, `PolicyInForce`, `OutcomeIsTold` |
| `CaseCreationProofs!CreationImplementsRegister` | `Spec => RegisterSpec` |
| `DashboardProofs!TablesAgree`, `UndoesOnlyStale` | `TemplatesSpec => []TemplatesAgree`, `TemplatesSpec => UndoneOnlyWhenStale` |
| `DashboardProofs!ResponseNotReplayed`, `LogoutIsFinal` | `AuthSpec => []` `OneCallbackPerLogin`, `LogoutFinal` |
| `DashboardProofs!StaffTypeCorrect`, `RightsAreRead`, `OfferedOpens` | `StaffSpec => []` `StaffTypeOK`, `RightsFromOwnReading`; `StaffSpec => OfferedGuildOpens` |
| `DashboardProofs!WalksAreComplete` | `PagingSpec => []WalkMissesNothing` |
| `DashboardProofs!ReadsHoldTogether` | `ReadsSpec => []ReadsAgree` |
| `FrontendsProofs!ComponentsRun`, `DashboardTypeCorrect` | `FrontendsSpec =>` the specification of each of its components, so that their theorems hold inside it; `FrontendsSpec => []DashboardTypeOK` |
| `BotProofs!SettledIsBinary`, `WritesAreNeeded` | `SyncSpec => []SettledMatchesBinary`, `SyncSpec => WritesWhatItMust` |
| `BotProofs!RepliesTellTruth`, `DeliveredOnce` | `ChatSpec => []` `RepliesTellOutcome`, `OneCasePerInteraction` |
| `LegacyProofs!CacheKeepsLatest` | `CacheSpec => []CacheSound` |
| `LegacyProofs!OneClosingIsSafe` | `TicketSpec => []TicketsSound` |
| `LegacyProofs!CountsTellTruth` | `PotSpec => []CountsTellBans` |
| `LegacyProofs!RecordsTellActs`, `AcceptedIsLifted` | `BanSpec => []` `CasesMatchActs`, `AcceptedMeansLifted` |
| `LegacyProofs!NoEventIsLost`, `CommandsKeepToTheirLog` | `EventSpec => []EventsAccounted`, `EventSpec => OtherLogUntouched` |

**Engine.** Inductive invariants that build on each other.
*Typed*: `TypeOK` with `WorkerOK` (a worker that is not idle has a case that exists, and a position from its claim
on), without which a completion would not be known to write to a row.
*ExclusiveInv* adds `Serial` (at most one row of a case is running) to `ClaimsExclusive`: a claim finds no row of the
case running, hence no worker in flight on it; a completion touches only the row its worker holds; a skip touches
waiting rows only.
*LedgerInv* adds `SummaryOK` (the case's status is the summary of its rows) and `SkipOK` (a worker about to skip has a
failed row behind it). The first is why `ClaimRow`, which writes "action_running" without looking at the rows, agrees
with a recomputation; with both, each transaction is one step of `CaseLedger` and everything else a stutter.
*OnceInv* adds `OnceOK`: a row that is not safe to retry has no effect yet while it waits or while its worker is
before `Execute`, and never goes back to waiting.
`StopOK` strengthens `SkipOK` to a failure whose policy stops the case, which gives `SkippedBehindFailure`; `MeterOK` relates count,
recorded numbers, effects and step of the holder of each row, and carries `AttemptsAddUp` below the counter's last value.
`SoloInv`, for a crew of one, adds that rows run in the order of their positions and that what waits behind a stopping failure waits for this
worker's own `Skip`. Trying to prove it showed that a row that waits for its retry lets the next one run, hence `TriedOnce`.

**Queue.** `NoSendOnClosed` follows from `NoReaders`: before `Start` and once the flag is cleared nobody is in `Submit`
with the lock, which `ClearFlag` establishes by its guard and `Submit` keeps because the queue is
inactive. Type correctness of the hints needs `PollerHasCase`: the poller is in `Submit` only with a case
of its batch in hand; otherwise it could submit the case number 0. The refinement needs that every hint is in one place:
`Spent` (what a producer has in hand is not taken yet, because a request submits once and the poller counts its batch down),
`Apart` (buffer, workers' hands and what is over are disjoint, and a worker holds one hint exactly while it handles it) and
`Drained` (a worker is done only when the closed channel is empty). `CountersBalance` adds that only finitely
many producers are past their send, which is itself part of the invariant, so that `Requests` may be infinite.

**Runtime.** A step of the process is a step of the queue or leaves it alone, so all of the above holds inside it. `Prefix`
says that the deferred closes are a prefix of `Resources`; `Nested`, that the queue's is among them from `Start` until `Stop` has returned. As the queue was opened
last, everything it uses is open while it works.

**Escalation and creation.** The scan is a fold, that is a recursive function, and the library's induction theorems take an operator as parameter,
which cannot be instantiated. The proofs instead take the least turn at which the scan's locals differ from what the levels
seen so far determine (`LeastNumber`, from well-foundedness of `<`) and refute it. `Stored` is the assumption the documented rule needs: the store's unique index keeps
positions distinct. In `CaseCreationProofs`, `Locked` makes the transactions on a guild exclude each other, so that between a holder's snapshot
and its commit no case of the guild appears; `Works` says, for each step of a creation, what its
snapshot, draft and lock are; `Told` ties hints and audit entries to it. Number and level of a case then agree with the guild's history when it
commits, and cases are never changed.

*The register.* `CaseRegister` knows no locks and no snapshots: a creation is one step that looks at the guild's cases, takes
the documented level of a policy in force and records the case. The step is the code's `Commit`, so everything that was decided before it must
still hold then: `Answers` says that the draft is what some row in force asks for *with the cases there are now*, from `Decide` to `Commit`; counts depend on
the guild's own cases alone (`CountsOfGuild`), which only the holder of its lock adds to. `SelectIsDocumented` turns the scan into the documented rule,
`NextNumber` the highest number into a count. A refusal, too, has its reason in the cases and a policy of its own moment.

**Sessions.** `OneCallbackPerLogin` rests on `Consumed`: a login state that some callback has taken is no longer in Redis. `LogoutFinal` is not
inductive: `Accounted` follows a request between its reading of the session and its write.

**Templates.** `Locked`: a transaction past its first write keeps row and slug to itself, so slugs stay distinct although they are looked up outside of it.
`Ordered`: rows never point past the levels, not even the row that a late archive is still to put back.

**Staff.** The rows that a request writes are read by others, so the invariant follows each request by itself: what it has read gives, one
wish at a time, rights that are on the ghosts' record of its time (`ReadInTime`), and what Discord says now is on that record (`Noted`). Without a change
since it began, its readings are the present (`Current`); without a change since the list, its offer stands (`OfferStands`).

**Lists and reads.** An entry that was there when a walk began and has not been met has at least `offset` newer ones before it, and a list that grows at
its front only adds to them; pages are then complete, because a page ends where the list does. `ReadInv` relates what the queries of a read
have returned to what is there *now*: ended rows stay as they ended, failed rows stay failed, journals and the set of cases only grow. So each answer bounds the
next one.

**Command synchronisation.** While a synchronisation is alone, what it is through with is on Discord and the rest is as it was listed (`LoneOK`);
`BooksOK`, its own bookkeeping, holds whoever else writes. An equal fingerprint means an equal definition once Discord's defaults are filled in.

**Interactions.** `OneTask`: one delivery of an interaction has a task, because Discord accepts one response. With it `TaskOK` and `CommandOK`
follow a command from its response over its commit to its last word: whatever the task is about to say is true of the case, or a mishap is on record.

**Legacy bot.** *Cache*: the list is the front of the record of uses, which names each message once. *Tickets*: while one closing has read a ticket's list,
what it read is what was there, it is in the row before the thread is unregistered and the list dropped, and what was there is in the list or in the row.
*Honeypots*: a row's count is no more than the posts that are saved and past their count, and the number that a post's goroutine carries counts other saved posts. *Punishments*: a
job has done exactly what its list of calls says up to where it is; `CallFacts` says what the lists have in common, and the rest does not look at
the kinds. *Events*: each event is with one worker, once in the channel, asleep, arriving or settled (`OnePlace`); a `/log` command that nobody wrote behind has what Redis has (`AdminOK`).

**Model-checked only.** Liveness (`CasesSettle`, `DueWorkMoves`, `HintsAreHandled`, `ProcessExits`, `EventsSettle`), which is out of the prover's
reach. Every safety invariant, every action property and every refinement that a passing run checks is a theorem.

The five violations of section 5 are TLC's alone.

## 5. Where the code and its documentation disagree

1. **A failure does not always stop the case** (`engine_two_workers_race`). `CompleteCaseAction` commits the failed row, `SkipCaseActions` is
   another transaction; between them a second worker with a hint for the case claims the row behind
   it. `docs/modules/action-engine.md:15` and `:29-30` promise that later actions are skipped. Default
   settings run several workers, and the poller hints every case with due rows each second.
2. **A restart does not recover a running row** (`engine_restart`). Claims are refused while a row of the case is running,
   and nothing returns a running row to pending. `docs/v5-scope-drift.md:17` says that work can recover after a restart.
3. **Shutdown is not graceful** (`runtime_graceful`). `ListenAndServe` returns when `Shutdown` is called; `Run` unwinds and the
   process ends under requests within the bound. `internal/httpapi/server.go:17` says that `Run` performs a bounded graceful shutdown.
4. **A member can have two open tickets** (`legacy_two_tickets`). `handleTicketCreate` of the Legacy bot looks for an open ticket and inserts the new row
   several calls later, without a lock or a unique key; two presses both find none. The comment at `Legacy/components/ticket-create.go:47` says "make sure the user does not already have a ticket".
5. **A former owner keeps the owner's rights until the bot hears of it** (`frontends_former_owner`). `BotGuild` (`internal/discordbot/discord.go:94`) answers from the gateway's
   copy of the guild, and `guilds.go:165` and `:234` give its owner every right, whatever Discord's own answer says. `v5.md:70` says that cached information does not
   grant lasting access. `RightsFromOwnReading` shows that it lasts no longer than the copy.

Beside these, the models contain what follows, which no run asks for by itself. The properties that come near it say how far it goes.

- *An accepted template can be inapplicable.* `normalizeLevels` (`templates.go:306`) counts a disabled default level, and `selectTemplateLevel` then refuses every
  case, where `docs/modules/case-pipeline.md:60-61` expects one enabled default. `EnabledDefaultApplies` proves that this is the only reason.
- *Two edits of a template can write one version* (`store/templates.go:138`), where `v5.md:164` says that an edit creates a new version. `UndoneOnlyWhenStale` excuses the second, which has read the
  row before the first was saved, and proves that no other edit undoes one.
- *A session can come back after a logout* (`middleware/auth.go:56`) if a request had read it before. `LogoutFinal` proves that nothing else brings it back.
- *A second closing of a ticket empties its transcript*, and *an open ticket can be deaf*: the one reads the list that the first has deleted (`Legacy/storage/tickets.go:43`), the other is left by a
  closing that fails after the thread left `active_tickets` (`:49`). `TicketsSound` speaks of the first closing.
- *A honeypot's message miscounts a raid* (`Legacy/events/honeypot.go:115`): handlers that read the same count show the same number, and each message of one member counts.
  `CountsTellBans` proves that it never shows more than the messages whose ban is on record.
- *An act can be without a case, and a timeout's case without an act*: a call that Discord carries out and answers with an error (`Legacy/commands/ban.go:146`), a length that cannot be
  parsed (`timeout-add.go:86`). `CasesMatchActs` names these exceptions and excludes others.
- *Two `/log` commands can undo one another* (`Legacy/commands/log-channel.go:71`). `OtherLogUntouched` excuses the one behind whose back the other wrote.

## 6. Assumptions and limits

- MySQL at REPEATABLE READ: the snapshot of a creation begins with its first plain read after the lock; locking
  reads see the latest commits; a lost connection or a deadlock victim rolls the whole transaction back.
- The clock of one process does not go back.
- The process is the only one. A second one would be more workers to the engine, more creators to
  creation, and a queue of its own.
- Rows with a retry limit that may be retried come from the storage layer's contract and tests: what
  `CaseService.create` writes today is never retried (the generated DM has a limit of zero, the other
  actions are not safe to retry), and the executors of timeout, kick and ban are stubs that fail
  permanently. `engine_created` nevertheless lets them return anything.
- Voided cases are left out, because no v5 code writes that status.
- `Edit` puts any acceptable row in force with one commit; how concurrent edits arrive at a row is the templates' concern.
- Identifiers, payloads, texts, event and audit bodies, logging and response shapes are abstracted.
- Redis commands are atomic; a key is gone from the moment its time has come. Discord and Redis may carry a call out and answer it with an error.
- In `Templates`, a transaction's first write waits for the row and the slug's index entry, as InnoDB's do; who waits may be rolled back.
- Bounds in guards: `MaxFaults`, `MaxPasses`, `MaxEdits`, `MaxCases`, the last of `Times`; `MaxItems`, `MaxAttempts`, `MaxFailures`, `MaxTime`,
  `MaxOutages`, `MaxClock`, `MaxChanges`, `MaxIds`, `MaxMishaps`; `MaxJobs`, `MaxRunning`, `MaxRefusals`, `MaxRemovals`, `MaxTroubles`, `MaxMisses`.
  `BatchSize` (100), `MaxLimit`, `CacheSize`, `QueueSize` and the lifetimes are parameters of the code.

Not modelled, or in part:

- *Discovery's limit.* `ListExecutableCaseIDs` returns at most a hundred cases ordered by position alone. `WorkQueue` lists any batch, and `ActionEngine` assumes that a listed
  case is handed out in the end; a hundred cases held up by rows left running (5.2) would break the assumption, not the code's own logic.
- *Discord adapter, HTTP routes.* Requests to Discord are results that may fail; routes decode, call one service and encode.
- *Persistence setup.* Connection, migration, configuration and identifiers are one-time setup and I/O.
- *Layout.* Embeds, labels, truncation, wording, logging.
- *Legacy.* Staff profiles are aggregate queries, notes one insert or delete, purges and lockdown one call to Discord per command, guild records and
  statistics inserts and counters that nothing modelled reads; setup and owner commands keep no state.

## 7. Plan

Done, each modelled, checked and, where it says so in section 4, proved:

1. `CaseLedger`, `ActionEngine`: the rows of a case under workers, faults and crashes.
2. `HintBoard`, `WorkQueue`, `Runtime`: the channel, the lock, the drain, and the process around them.
3. `Escalation`, `MemberRecord`, `CaseRegister`, `CaseCreation`: which level, which number, which policy.
4. `Templates`, `Paging`, `CaseReads`, `AuthSessions`, `StaffContext`: the dashboard.
5. `CommandSync`, `Interactions`: the bot.
6. The Legacy bot's parts that keep state.

Next:

1. `ActionPipeline`: the queue's discovery with its limit over the engine's cases; whether stuck cases starve due ones.
2. `Interactions` composed with `CaseCreation` in place of its single committed step, and the refinement proved.
