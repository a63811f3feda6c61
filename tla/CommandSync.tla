---------------------------- MODULE CommandSync ----------------------------
(***************************************************************************)
(* Registration of the bot's slash commands at start-up:                   *)
(* CommandSyncer.Sync (internal/discordbot/commands/sync.go) compares the  *)
(* commands of the binary with those Discord lists, with fingerprints      *)
(* (hash.go) and a Redis cache of them (cache.go), and creates, edits or   *)
(* prunes.  Two processes, of two releases, may synchronise at once; any   *)
(* call to Discord or Redis may fail, and a call to Discord may take       *)
(* effect and still be answered by an error.                               *)
(***************************************************************************)
EXTENDS Integers, FiniteSets, Sequences

CONSTANTS
    Processes,    \* the processes that register commands
    Releases,     \* sets of [name, def] a binary may register
    MaxIds,       \* commands Discord ever creates: bounds the model
    MaxFaults     \* failing calls: bounds the model

\* A registry has one command of a name; the names are ordered.
ASSUME SyncAssumption ==
    /\ UNION Releases \subseteq
           [name : Nat, def : [body : STRING, type : {0, 1}, nsfw : {"unset", "no"}]]
    /\ \A r \in Releases : \A s, t \in r : s.name = t.name => s = t

VARIABLES
    remote,       \* what Discord has: name -> [id, def], by name
    cache,        \* the Redis hash: name -> [id, hash]
    sync,         \* the Sync call of each process
    ids,          \* ids Discord has given out
    faults

syncVars == <<remote, cache, sync, ids, faults>>

Names == {s.name : s \in UNION Releases}
\* No command, no cache entry: no id.
Absent == [id |-> 0]

-----------------------------------------------------------------------------
(* Definitions.  A definition is its body, and two fields Discord fills    *)
(* in where the binary leaves them out.                                    *)

\* What Discord stores and lists for a definition it is sent.
Filled(d) == [d EXCEPT !.type = 1, !.nsfw = "no"]

\* A type left as sent (a mutant).
RawType(d) == [d EXCEPT !.nsfw = "unset"]

\* canonicalizeCommand: the defaults are made equal before hashing.
Canonical(d) ==
    [d EXCEPT !.type = IF @ = 0 THEN 1 ELSE @,
              !.nsfw = IF @ = "no" THEN "unset" ELSE @]

\* CommandFingerprint: a collision-free digest, the canonical form itself.
Fingerprint(d) == Canonical(d)

\* The cache trusted over the listing (a mutant).
TrustsCache(cached, listed, localHash) ==
    /\ cached # Absent
    /\ cached.id = listed.id
    /\ cached.hash = localHash

\* shouldSkipCommandSync
ShouldSkip(cached, listed, localHash) ==
    /\ cached # Absent
    /\ cached.id = listed.id
    /\ cached.hash = localHash
    /\ Fingerprint(listed.def) = localHash

-----------------------------------------------------------------------------
NotCalled == [at |-> "idle"]

SyncInit ==
    /\ remote = [n \in Names |-> Absent]
    /\ cache = [n \in Names |-> Absent]
    /\ sync = [p \in Processes |-> NotCalled]
    /\ ids = 0
    /\ faults = 0

LocalNames(p) == {s.name : s \in sync[p].specs}

\* pruneRemoteOnlyCommands: the listed commands the binary does not have.
RemoteOnly(p) ==
    {n \in Names : sync[p].listed[n] # Absent /\ n \notin LocalNames(p)}

Unlisted == [n \in Names |-> Absent]

\* A process between two commands, or at the end, has forgotten the last one.
StepTo(p, at) ==
    sync' = [sync EXCEPT ![p] =
        CASE at = "failed" -> [at |-> at]
          [] at = "next" -> [@ EXCEPT !.at = at, !.spec = Absent, !.wrote = Absent]
          [] at = "done" -> [@ EXCEPT !.at = at, !.listed = Unlisted, !.todo = {}]
          [] OTHER -> [@ EXCEPT !.at = at]]

\* Another process's write makes the listing of p stale.
Disturb(p, s) ==
    [q \in Processes |-> IF q # p /\ s[q].at \notin {"idle", "failed"}
                         THEN [s[q] EXCEPT !.alone = FALSE] ELSE s[q]]

\* Register at the start of a process: a new registry, a new syncer.
StartSync(p) ==
    /\ sync[p].at \in {"idle", "done", "failed"}
    /\ \E specs \in Releases, prune \in BOOLEAN :
           sync' = [sync EXCEPT ![p] =
               [at |-> "list", specs |-> specs, prune |-> prune,
                listed |-> Unlisted, todo |-> {}, alone |-> TRUE,
                spec |-> Absent, wrote |-> Absent]]
    /\ UNCHANGED <<remote, cache, ids, faults>>

\* One failing call, answered by an error.
Faulty == /\ faults < MaxFaults
          /\ faults' = faults + 1

\* An error of a Discord call ends Sync, whatever is left to do.
Failed(p) ==
    /\ sync[p].at \in {"list", "create", "edit", "prune"}
    /\ Faulty
    /\ StepTo(p, "failed")
    /\ UNCHANGED <<remote, cache, ids>>

\* Client.ListCommands
ListCommands(p) ==
    /\ sync[p].at = "list"
    /\ sync' = [sync EXCEPT ![p].at = "next", ![p].listed = remote,
                            ![p].todo = sync[p].specs, ![p].alone = TRUE]
    /\ UNCHANGED <<remote, cache, ids, faults>>

\* The loop over sortedSpecs: the names are ordered numbers here.
NextSpec(p) ==
    /\ sync[p].at = "next"
    /\ IF sync[p].todo = {}
       THEN IF sync[p].prune /\ RemoteOnly(p) # {}
            THEN sync' = [sync EXCEPT ![p].at = "prune", ![p].todo = RemoteOnly(p)]
            ELSE StepTo(p, "done")
       ELSE LET spec == CHOOSE s \in sync[p].todo :
                            \A t \in sync[p].todo : s.name <= t.name
            IN  sync' = [sync EXCEPT ![p].at = "read", ![p].spec = spec,
                                     ![p].todo = @ \ {spec}]
    /\ UNCHANGED <<remote, cache, ids, faults>>

\* syncOne after cache.Get: what the listing and the cached entry call for.
Verdict(listed, cached, localHash) ==
    IF listed = Absent THEN "create"
    ELSE IF ShouldSkip(cached, listed, localHash) THEN "next"
    ELSE IF Fingerprint(listed.def) = localHash THEN "store"
    ELSE "edit"

Decide(p, cached) ==
    LET spec   == sync[p].spec
        listed == sync[p].listed[spec.name]
        verdict == Verdict(listed, cached, Fingerprint(spec.def))
    IN  IF verdict = "next" THEN StepTo(p, "next")
        ELSE sync' = [sync EXCEPT ![p].wrote = listed, ![p].at = verdict]

\* cache.Get; a failing read is logged and counts as no entry.
ReadCache(p) ==
    /\ sync[p].at = "read"
    /\ \/ Decide(p, cache[sync[p].spec.name]) /\ UNCHANGED faults
       \/ Decide(p, Absent) /\ Faulty
    /\ UNCHANGED <<remote, cache, ids>>

\* A write that took effect is answered, or its answer is an error.
Written(p, n, entry) ==
    /\ remote' = [remote EXCEPT ![n] = entry]
    /\ \/ /\ sync' = Disturb(p, [sync EXCEPT ![p].at = "store",
                                             ![p].wrote = entry])
          /\ UNCHANGED faults
       \/ /\ sync' = Disturb(p, [sync EXCEPT ![p] = [at |-> "failed"]])
          /\ Faulty

\* Client.CreateCommand; Discord overwrites a command of the same name.
CreateCommand(p) ==
    LET n == sync[p].spec.name
        d == Filled(sync[p].spec.def)
    IN  /\ sync[p].at = "create"
        /\ IF remote[n] = Absent
           THEN /\ ids < MaxIds
                /\ ids' = ids + 1
                /\ Written(p, n, [id |-> ids + 1, def |-> d])
           ELSE /\ Written(p, n, [remote[n] EXCEPT !.def = d])
                /\ UNCHANGED ids
        /\ UNCHANGED cache

\* Client.EditCommand by the listed id; gone, Discord answers an error.
EditCommand(p) ==
    LET n == sync[p].spec.name
    IN  /\ sync[p].at = "edit"
        /\ IF remote[n] # Absent /\ remote[n].id = sync[p].listed[n].id
           THEN Written(p, n, [remote[n] EXCEPT !.def = Filled(sync[p].spec.def)])
           ELSE StepTo(p, "failed") /\ UNCHANGED <<remote, faults>>
        /\ UNCHANGED <<cache, ids>>

\* cacheCommand; a failing write is logged.
CacheCommand(p) ==
    LET spec == sync[p].spec
    IN  /\ sync[p].at = "store"
        /\ \/ /\ cache' = [cache EXCEPT ![spec.name] =
                    [id |-> sync[p].wrote.id, hash |-> Fingerprint(spec.def)]]
              /\ UNCHANGED faults
           \/ Faulty /\ UNCHANGED cache
        /\ StepTo(p, "next")
        /\ UNCHANGED <<remote, ids>>

\* Client.DeleteCommand, one listed id after the other; gone, Discord answers
\* an error, as it may for a command it did delete.
PruneCommand(p) ==
    /\ sync[p].at = "prune"
    /\ \E n \in sync[p].todo :
           LET left == sync[p].todo \ {n}
               deleted == [sync EXCEPT ![p] =
                   IF left = {} THEN [@ EXCEPT !.at = "done", !.todo = {}, !.listed = Unlisted]
                   ELSE [@ EXCEPT !.todo = left]]
           IN  IF remote[n] # Absent /\ remote[n].id = sync[p].listed[n].id
               THEN /\ remote' = [remote EXCEPT ![n] = Absent]
                    /\ \/ sync' = Disturb(p, deleted) /\ UNCHANGED faults
                       \/ /\ sync' = Disturb(p, [sync EXCEPT ![p] = [at |-> "failed"]])
                          /\ Faulty
               ELSE StepTo(p, "failed") /\ UNCHANGED <<remote, faults>>
    /\ UNCHANGED <<cache, ids>>

\* Redis is lost or flushed.
FlushCache ==
    /\ Faulty
    /\ cache' = [n \in Names |-> Absent]
    /\ UNCHANGED <<remote, sync, ids>>

SyncNext ==
    \/ FlushCache
    \/ \E p \in Processes :
           \/ StartSync(p) \/ ListCommands(p) \/ NextSpec(p) \/ ReadCache(p)
           \/ CreateCommand(p) \/ EditCommand(p) \/ CacheCommand(p)
           \/ PruneCommand(p) \/ Failed(p)

SyncSpec == SyncInit /\ [][SyncNext]_syncVars

-----------------------------------------------------------------------------
(* Properties.                                                             *)

\* "Remote comparison still protects correctness": a Sync that ends without
\* an error, and whose listing nobody made stale meanwhile, leaves Discord
\* with exactly the definitions of its binary, whatever the cache held, lost
\* or failed to store before; with pruning, with nothing else.
SettledMatchesBinary ==
    \A p \in Processes : sync[p].at = "done" /\ sync[p].alone =>
        /\ \A s \in sync[p].specs :
               remote[s.name] # Absent /\ remote[s.name].def = Filled(s.def)
        /\ sync[p].prune => {n \in Names : remote[n] # Absent} = LocalNames(p)

\* Unchanged commands are not written again: an edit of an undisturbed Sync
\* changes what Discord has, so a restart with the same commands writes
\* nothing, though Discord lists fields the binary leaves out.
EditsOnlyDifferences ==
    [][\A p \in Processes :
           sync[p].at = "edit" /\ sync[p].alone /\ sync'[p].at = "store"
               => remote' # remote]_syncVars

\* A command every release has keeps its id, and with it the permissions
\* guilds gave it, once it is registered: neither pruning nor a racing
\* process, of whatever release, deletes or replaces it.
SharedCommandsStay ==
    [][\A n \in {m \in Names : \A r \in Releases : \E s \in r : s.name = m} :
           remote[n] # Absent =>
               remote'[n] # Absent /\ remote'[n].id = remote[n].id]_syncVars

\* Both together: a Sync writes to Discord what it has to and nothing else.
WritesWhatItMust == EditsOnlyDifferences /\ SharedCommandsStay
=============================================================================
