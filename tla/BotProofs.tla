------------------------------ MODULE BotProofs ------------------------------
(***************************************************************************)
(* Proofs about the parts of the bot: the synchronisation of its commands  *)
(* with Discord, for any commands and any failures, and the interactions   *)
(* it answers, for any number of them, of staff and of restarts.           *)
(*                                                                         *)
(* A synchronisation that has settled has compared every command in the    *)
(* order of its list. What a reply says and how many cases an interaction  *)
(* makes both follow from the tasks and the rows that are under way for    *)
(* it.                                                                     *)
(***************************************************************************)
EXTENDS CommandSync, Interactions, WellFoundedInduction, TLAPS

(* CommandSync. *)
Specs  == UNION Releases
Stored == [body : STRING, type : {1}, nsfw : {"no"}]
Entry  == {Absent} \cup [id : Nat \ {0}, def : Stored]

Choosing == {"read", "create", "edit"}
Looping  == {"next", "store"} \cup Choosing

Called == [at : {"list", "prune", "done"} \cup Looping, specs : Releases, prune : BOOLEAN,
           listed : [Names -> Entry], todo : SUBSET (Specs \cup Names), alone : BOOLEAN,
           spec : {Absent} \cup Specs, wrote : Entry]
Quiet == {NotCalled, [at |-> "failed"]}

SyncShapes ==
    /\ remote \in [Names -> Entry]
    /\ ids \in Nat
    /\ sync \in [Processes -> Quiet \cup Called]

\* What the loop of call c has settled: it is neither left to do nor being chosen.
Settled(c) == c.specs \ (c.todo \cup (IF c.at \in Choosing THEN {c.spec} ELSE {}))
Written1(s, r) == r[s.name] # Absent /\ r[s.name].def = Filled(s.def)
NamesIn(specs) == {s.name : s \in specs}

\* The call's own bookkeeping, whatever the others do.
BooksOK(c) ==
    /\ c.at \in Looping => c.todo \subseteq c.specs
    /\ c.at \in Looping \ {"next"} => c.spec \in c.specs \ c.todo
    /\ c.at = "edit" => Fingerprint(c.listed[c.spec.name].def) # Fingerprint(c.spec.def)
    /\ c.at = "prune" => /\ c.todo \subseteq Names \ NamesIn(c.specs)
                         /\ \A n \in c.todo : c.listed[n] # Absent

\* While nobody else writes: what the loop is through with is on Discord (r), what
\* it is not is as it was listed, and what is pruned is gone.
LoneOK(c, r) ==
    /\ c.at \in Looping =>
          /\ \A s \in Settled(c) : Written1(s, r)
          /\ \A n \in Names \ NamesIn(Settled(c)) : r[n] = c.listed[n]
    /\ c.at \in {"prune", "done"} => \A s \in c.specs : Written1(s, r)
    /\ c.at = "prune" =>
          \A n \in Names \ NamesIn(c.specs) : r[n] = IF n \in c.todo THEN c.listed[n] ELSE Absent
    /\ c.at = "done" /\ c.prune => \A n \in Names \ NamesIn(c.specs) : r[n] = Absent

CallOK(c, r) == c.at \notin {"idle", "failed"} => BooksOK(c) /\ (c.alone => LoneOK(c, r))

SyncInv ==
    /\ SyncShapes
    /\ \A p \in Processes : CallOK(sync[p], remote)
-----------------------------------------------------------------------------
\* Of a definition and what Discord lists, the fingerprints agree where the binary's
\* definition, its defaults filled in, is what is listed.
LEMMA Fingerprints ==
  ASSUME NEW s \in Specs
  PROVE  /\ s.name \in Names /\ Filled(s.def) \in Stored
         /\ Fingerprint(Filled(s.def)) = Fingerprint(s.def)
         /\ \A e \in Stored : Fingerprint(e) = Fingerprint(s.def) => e = Filled(s.def)
  <1>1. s \in [name : Nat, def : [body : STRING, type : {0, 1}, nsfw : {"unset", "no"}]]
    BY SyncAssumption DEF Specs
  <1>2. s.name \in Names
    BY DEF Names, Specs
  <1>3. s.def \in [body : STRING, type : {0, 1}, nsfw : {"unset", "no"}]
    BY <1>1
  <1>4. Filled(s.def) \in Stored /\ Filled(s.def).body = s.def.body
    BY <1>3 DEF Filled, Stored
  <1>5. ASSUME NEW e \in [body : STRING, type : {0, 1}, nsfw : {"unset", "no"}]
        PROVE  /\ Fingerprint(e) \in [body : STRING, type : {1}, nsfw : {"unset"}]
               /\ Fingerprint(e).body = e.body
    BY DEF Fingerprint, Canonical
  <1>6. ASSUME NEW e \in Stored
        PROVE  /\ Fingerprint(e) \in [body : STRING, type : {1}, nsfw : {"unset"}]
               /\ Fingerprint(e).body = e.body
    BY <1>5 DEF Stored
  <1>7. ASSUME NEW x \in Stored, NEW y \in Stored, x.body = y.body PROVE x = y
    BY <1>7 DEF Stored
  <1>8. ASSUME NEW x \in [body : STRING, type : {1}, nsfw : {"unset"}],
               NEW y \in [body : STRING, type : {1}, nsfw : {"unset"}], x.body = y.body
        PROVE  x = y
    BY <1>8
  <1>9. Fingerprint(Filled(s.def)) = Fingerprint(s.def)
    BY <1>3, <1>4, <1>5, <1>6, <1>8
  <1>10. ASSUME NEW e \in Stored, Fingerprint(e) = Fingerprint(s.def) PROVE e = Filled(s.def)
    BY <1>3, <1>4, <1>5, <1>6, <1>7, <1>10
  <1> QED
    BY <1>2, <1>4, <1>9, <1>10

\* The next name in order is one of those left.
LEMMA FirstOfTodo ==
  ASSUME NEW todo, todo \subseteq Specs, todo # {}
  PROVE  (CHOOSE s \in todo : \A t \in todo : s.name <= t.name) \in todo
  <1> DEFINE N == {s.name : s \in todo}
  <1>1. N \subseteq Nat /\ N # {}
    BY SyncAssumption DEF Specs
  <1>2. PICK m \in N : \A n \in N : ~ (<<n, m>> \in OpToRel(<, Nat))
    BY <1>1, WFMin, NatLessThanWellFounded
  <1>3. ASSUME NEW n \in N PROVE m <= n
    <2>1. m \in Nat /\ n \in Nat
      BY <1>1
    <2>2. ~(n < m)
      BY <1>2, <2>1 DEF OpToRel
    <2> QED
      BY <2>1, <2>2
  <1>4. \E s \in todo : \A t \in todo : s.name <= t.name
    BY <1>3
  <1> QED
    BY <1>4

\* Registered names are unique: another command of the call has another name.
LEMMA OtherName ==
  ASSUME NEW specs \in Releases, NEW s \in specs, NEW t \in specs, s # t
  PROVE  s.name # t.name /\ s \in Specs /\ t \in Specs
  BY SyncAssumption DEF Specs

LEMMA SyncInitInv == SyncInit => SyncInv
  BY DEF SyncInit, SyncInv, SyncShapes, Entry, Quiet, NotCalled, CallOK

\* What a step of process p has in common: the call is now c; if Discord was
\* written to, the others are no longer alone.
LEMMA SyncStep ==
  ASSUME SyncInv, NEW p \in Processes, NEW c \in Quiet \cup Called,
         remote' \in [Names -> Entry], ids' \in Nat, CallOK(c, remote'),
         \/ remote' = remote /\ sync' = [sync EXCEPT ![p] = c]
         \/ sync' = Disturb(p, [sync EXCEPT ![p] = c])
  PROVE  SyncInv'
  <1>1. sync'[p] = c
    BY DEF SyncInv, SyncShapes, Disturb
  <1>2. ASSUME NEW q \in Processes \ {p}
        PROVE  sync'[q] \in Quiet \cup Called /\ CallOK(sync'[q], remote')
    <2>1. sync[q] \in Quiet \cup Called /\ CallOK(sync[q], remote)
      BY DEF SyncInv, SyncShapes
    <2>2. CASE remote' = remote /\ sync' = [sync EXCEPT ![p] = c]
      BY <2>1, <2>2 DEF SyncInv, SyncShapes
    <2>3. CASE sync' = Disturb(p, [sync EXCEPT ![p] = c])
      <3>1. sync'[q] = IF sync[q].at \notin {"idle", "failed"}
                       THEN [sync[q] EXCEPT !.alone = FALSE] ELSE sync[q]
        BY <2>3 DEF Disturb, SyncInv, SyncShapes
      <3>2. CASE sync[q].at \in {"idle", "failed"}
        BY <2>1, <3>1, <3>2 DEF CallOK
      <3>3. CASE sync[q].at \notin {"idle", "failed"}
        <4>1. PICK old \in Called : old = sync[q]
          BY <2>1, <3>3 DEF Quiet, NotCalled
        <4>2. PICK new \in Called : new = [old EXCEPT !.alone = FALSE]
          BY DEF Called
        <4>3. ~new.alone /\ new.at = old.at /\ new.todo = old.todo /\ new.specs = old.specs
              /\ new.spec = old.spec /\ new.listed = old.listed
          BY <4>2 DEF Called
        <4>4. BooksOK(old)
          BY <2>1, <3>3, <4>1 DEF CallOK
        <4>5. BooksOK(new)
          BY <4>3, <4>4 DEF BooksOK
        <4> QED
          BY <3>1, <3>3, <4>1, <4>2, <4>3, <4>5 DEF CallOK
      <3> QED
        BY <3>2, <3>3
    <2> QED
      BY <2>2, <2>3
  <1>3. DOMAIN sync' = Processes /\ sync' = [q \in Processes |-> sync'[q]]
    BY DEF Disturb, SyncInv, SyncShapes
  <1>4. \A q \in Processes : sync'[q] \in Quiet \cup Called /\ CallOK(sync'[q], remote')
    BY <1>1, <1>2
  <1>5. sync' \in [Processes -> Quiet \cup Called]
    BY <1>3, <1>4
  <1> QED
    BY <1>4, <1>5 DEF SyncInv, SyncShapes

\* A call under way.
LEMMA UnderWay ==
  ASSUME SyncInv, NEW p \in Processes, sync[p].at \notin {"idle", "failed"}
  PROVE  /\ sync[p] \in Called /\ BooksOK(sync[p]) /\ (sync[p].alone => LoneOK(sync[p], remote))
         /\ sync[p].specs \in Releases /\ sync[p].specs \subseteq Specs
         /\ remote \in [Names -> Entry] /\ ids \in Nat
         /\ NamesIn(sync[p].specs) = LocalNames(p) /\ LocalNames(p) \subseteq Names
  <1>1. sync[p] \in Called
    BY DEF SyncInv, SyncShapes, Quiet, NotCalled
  <1>2. sync[p].specs \in Releases
    BY <1>1 DEF Called
  <1> QED
    BY <1>1, <1>2 DEF SyncInv, SyncShapes, CallOK, NamesIn, LocalNames, Specs, Names

\* A call that fails, or has not been made, promises nothing.
LEMMA QuietOK == ASSUME NEW c \in Quiet, NEW r PROVE CallOK(c, r) /\ c \in Quiet \cup Called
  BY DEF Quiet, NotCalled, CallOK

\* The loop's choice is what is next, what it wrote is settled.
LEMMA ListingInv ==
  ASSUME SyncInv, NEW p \in Processes, StartSync(p) \/ ListCommands(p) \/ Failed(p)
  PROVE  SyncInv'
  <1>1. remote' = remote /\ remote' \in [Names -> Entry] /\ ids' \in Nat
    BY DEF StartSync, ListCommands, Failed, SyncInv, SyncShapes
  <1>2. CASE StartSync(p)
    <2>1. PICK specs \in Releases, prune \in BOOLEAN :
              sync' = [sync EXCEPT ![p] =
                  [at |-> "list", specs |-> specs, prune |-> prune, listed |-> Unlisted, todo |-> {},
                   alone |-> TRUE, spec |-> Absent, wrote |-> Absent]]
      BY <1>2 DEF StartSync
    <2>2. PICK c : c = [at |-> "list", specs |-> specs, prune |-> prune, listed |-> Unlisted,
                        todo |-> {}, alone |-> TRUE, spec |-> Absent, wrote |-> Absent]
      OBVIOUS
    <2>3. c \in Called /\ c.at = "list"
      BY <2>2 DEF Called, Unlisted, Entry
    <2>4. CallOK(c, remote')
      BY <2>3 DEF CallOK, BooksOK, LoneOK, Looping, Choosing
    <2> QED
      BY <1>1, <2>1, <2>2, <2>3, <2>4, SyncStep
  <1>3. CASE ListCommands(p)
    <2>1. sync[p] \in Called /\ sync[p].specs \in Releases /\ sync[p].specs \subseteq Specs
      BY <1>3, UnderWay DEF ListCommands
    <2>2. PICK c \in Called :
              /\ c = [sync[p] EXCEPT !.at = "next", !.listed = remote, !.todo = sync[p].specs, !.alone = TRUE]
              /\ c.at = "next" /\ c.listed = remote /\ c.todo = sync[p].specs /\ c.specs = sync[p].specs
      <3> DEFINE new == [sync[p] EXCEPT !.at = "next", !.listed = remote, !.todo = sync[p].specs, !.alone = TRUE]
      <3>1. new \in Called
        BY <1>1, <2>1 DEF Called, Looping
      <3>2. /\ new.at = "next" /\ new.listed = remote /\ new.todo = sync[p].specs /\ new.specs = sync[p].specs
        BY <1>1, <2>1 DEF Called, Looping
      <3> QED
        BY <3>1, <3>2
    <2>3. sync' = [sync EXCEPT ![p] = c]
      BY <1>3, <2>2 DEF ListCommands
    <2>4. Settled(c) = {}
      BY <2>2 DEF Settled
    <2>5. CallOK(c, remote')
      BY <1>1, <2>2, <2>4 DEF CallOK, BooksOK, LoneOK, Looping, Choosing
    <2> QED
      BY <1>1, <2>3, <2>5, SyncStep
  <1>4. CASE Failed(p)
    <2>1. PICK c \in Quiet : c = [at |-> "failed"]
      BY DEF Quiet
    <2>2. sync' = [sync EXCEPT ![p] = c]
      BY <1>4, <2>1 DEF Failed, StepTo
    <2> QED
      BY <1>1, <2>2, QuietOK, SyncStep
  <1> QED
    BY <1>2, <1>3, <1>4

\* The loop goes on to the next command, or to pruning, or ends.
LEMMA NextSpecInv == ASSUME SyncInv, NEW p \in Processes, NextSpec(p) PROVE SyncInv'
  <1>1. remote' = remote /\ remote' \in [Names -> Entry] /\ ids' \in Nat
    BY DEF NextSpec, SyncInv, SyncShapes
  <1>2. PICK old \in Called : old = sync[p] /\ old.at = "next"
    BY UnderWay DEF NextSpec
  <1>3. /\ BooksOK(old) /\ (old.alone => LoneOK(old, remote)) /\ old.todo \subseteq old.specs
        /\ old.specs \in Releases /\ old.specs \subseteq Specs
        /\ NamesIn(old.specs) = LocalNames(p) /\ LocalNames(p) \subseteq Names
    BY <1>2, UnderWay DEF BooksOK, Looping
  <1>4. old.todo = {} => Settled(old) = old.specs
    BY <1>2 DEF Settled, Choosing
  <1>5. CASE old.todo = {} /\ old.prune /\ RemoteOnly(p) # {}
    <2>1. PICK c \in Called :
              /\ c = [old EXCEPT !.at = "prune", !.todo = RemoteOnly(p)]
              /\ c.at = "prune" /\ c.todo = RemoteOnly(p) /\ c.specs = old.specs
              /\ c.listed = old.listed /\ c.alone = old.alone
      <3> DEFINE new == [old EXCEPT !.at = "prune", !.todo = RemoteOnly(p)]
      <3>1. new \in Called
        BY DEF Called, RemoteOnly
      <3>2. /\ new.at = "prune" /\ new.todo = RemoteOnly(p) /\ new.specs = old.specs
            /\ new.listed = old.listed /\ new.alone = old.alone
        BY DEF Called, RemoteOnly
      <3> QED
        BY <3>1, <3>2
    <2>2. sync' = [sync EXCEPT ![p] = c]
      BY <1>2, <1>5, <2>1 DEF NextSpec
    <2>3. \A n \in Names : n \in c.todo <=> c.listed[n] # Absent /\ n \notin NamesIn(c.specs)
      BY <1>2, <1>3, <2>1 DEF RemoteOnly
    <2>4. c.todo \subseteq Names
      BY <2>1 DEF RemoteOnly
    <2>5. BooksOK(c)
      BY <2>1, <2>3, <2>4 DEF BooksOK, Looping, Choosing
    <2>6. ASSUME c.alone PROVE LoneOK(c, remote)
      <3>1. /\ \A s \in old.specs : Written1(s, remote)
            /\ \A n \in Names \ NamesIn(old.specs) : remote[n] = old.listed[n]
        BY <1>2, <1>3, <1>4, <1>5, <2>1, <2>6 DEF LoneOK, Looping
      <3> QED
        BY <2>1, <2>3, <3>1 DEF LoneOK, Looping, Choosing
    <2> QED
      BY <1>1, <2>2, <2>5, <2>6, SyncStep DEF CallOK
  <1>6. CASE old.todo = {} /\ ~(old.prune /\ RemoteOnly(p) # {})
    <2>1. PICK c \in Called :
              /\ c = [old EXCEPT !.at = "done", !.listed = Unlisted, !.todo = {}]
              /\ c.at = "done" /\ c.specs = old.specs /\ c.alone = old.alone /\ c.prune = old.prune
      <3> DEFINE new == [old EXCEPT !.at = "done", !.listed = Unlisted, !.todo = {}]
      <3>1. new \in Called
        BY DEF Called, Unlisted, Entry
      <3>2. /\ new.at = "done" /\ new.specs = old.specs /\ new.alone = old.alone /\ new.prune = old.prune
        BY DEF Called, Unlisted, Entry
      <3> QED
        BY <3>1, <3>2
    <2>2. sync' = [sync EXCEPT ![p] = c]
      BY <1>2, <1>6, <2>1 DEF NextSpec, StepTo
    <2>3. BooksOK(c)
      BY <2>1 DEF BooksOK, Looping, Choosing
    <2>4. ASSUME c.alone PROVE LoneOK(c, remote)
      <3>1. /\ \A s \in old.specs : Written1(s, remote)
            /\ \A n \in Names \ NamesIn(old.specs) : remote[n] = old.listed[n]
        BY <1>2, <1>3, <1>4, <1>6, <2>1, <2>4 DEF LoneOK, Looping
      <3>2. c.prune => \A n \in Names \ NamesIn(old.specs) : old.listed[n] = Absent
        BY <1>2, <1>3, <1>6, <2>1 DEF RemoteOnly
      <3> QED
        BY <2>1, <3>1, <3>2 DEF LoneOK, Looping, Choosing
    <2> QED
      BY <1>1, <2>2, <2>3, <2>4, SyncStep DEF CallOK
  <1>7. CASE old.todo # {}
    <2>1. PICK spec : spec = CHOOSE s \in sync[p].todo : \A t \in sync[p].todo : s.name <= t.name
      OBVIOUS
    <2>2. spec \in old.todo /\ spec \in Specs
      <3>1. sync[p].todo # {} /\ sync[p].todo \subseteq Specs
        BY <1>2, <1>3, <1>7
      <3>2. spec \in sync[p].todo
        BY <2>1, <3>1, FirstOfTodo
      <3> QED
        BY <1>2, <3>1, <3>2
    <2>8. sync' = [sync EXCEPT ![p].at = "read", ![p].spec = spec, ![p].todo = @ \ {spec}]
      BY <1>2, <1>7, <2>1 DEF NextSpec
    <2>3. PICK c \in Called :
              /\ c = [old EXCEPT !.at = "read", !.spec = spec, !.todo = old.todo \ {spec}]
              /\ c.at = "read" /\ c.spec = spec /\ c.todo = old.todo \ {spec} /\ c.specs = old.specs
              /\ c.listed = old.listed /\ c.alone = old.alone
      <3> DEFINE new == [old EXCEPT !.at = "read", !.spec = spec, !.todo = old.todo \ {spec}]
      <3>1. new \in Called
        BY <2>2 DEF Called, Looping, Choosing
      <3>2. /\ new.at = "read" /\ new.spec = spec /\ new.todo = old.todo \ {spec} /\ new.specs = old.specs
            /\ new.listed = old.listed /\ new.alone = old.alone
        BY <2>2 DEF Called, Looping, Choosing
      <3> QED
        BY <3>1, <3>2
    <2>4. sync' = [sync EXCEPT ![p] = c]
      BY <1>2, <2>3, <2>8
    <2>5. Settled(c) = Settled(old)
      BY <1>2, <2>2, <2>3 DEF Settled, Choosing
    <2>6. BooksOK(c)
      BY <1>3, <2>2, <2>3 DEF BooksOK, Looping, Choosing
    <2>7. ASSUME c.alone PROVE LoneOK(c, remote)
      BY <1>2, <1>3, <2>3, <2>5, <2>7 DEF LoneOK, Looping, Choosing
    <2> QED
      BY <1>1, <2>4, <2>6, <2>7, SyncStep DEF CallOK
  <1> QED
    BY <1>5, <1>6, <1>7

\* A call on a command that is chosen: the others' names differ, and what is
\* listed of it is what Discord has, as long as the call is alone.
LEMMA Choosing1 ==
  ASSUME SyncInv, NEW p \in Processes, sync[p].at \in Choosing
  PROVE  /\ sync[p] \in Called /\ sync[p].spec \in Specs /\ sync[p].spec.name \in Names
         /\ sync[p].spec \in sync[p].specs \ sync[p].todo /\ sync[p].todo \subseteq sync[p].specs
         /\ sync[p].specs \in Releases /\ sync[p].specs \subseteq Specs
         /\ sync[p].listed \in [Names -> Entry]
         /\ \A s \in Settled(sync[p]) : s \in Specs /\ s.name # sync[p].spec.name
         /\ Settled(sync[p]) = sync[p].specs \ (sync[p].todo \cup {sync[p].spec})
         /\ sync[p].alone => LoneOK(sync[p], remote) /\ remote[sync[p].spec.name] = sync[p].listed[sync[p].spec.name]
  <1>1. PICK old \in Called : old = sync[p] /\ old.at \in Choosing
    BY UnderWay DEF Choosing
  <1>2. /\ BooksOK(old) /\ (old.alone => LoneOK(old, remote))
        /\ old.specs \in Releases /\ old.specs \subseteq Specs
    BY <1>1, UnderWay DEF Choosing
  <1>3. old.spec \in old.specs \ old.todo /\ old.todo \subseteq old.specs
    BY <1>1, <1>2 DEF BooksOK, Looping, Choosing
  <1>4. Settled(old) = old.specs \ (old.todo \cup {old.spec})
    BY <1>1 DEF Settled
  <1>5. \A s \in Settled(old) : s \in Specs /\ s.name # old.spec.name
    BY <1>2, <1>3, <1>4, OtherName
  <1>6. old.spec \in Specs /\ old.spec.name \in Names
    BY <1>2, <1>3, Fingerprints
  <1>7. old.alone => remote[old.spec.name] = old.listed[old.spec.name]
    BY <1>1, <1>2, <1>5, <1>6 DEF LoneOK, NamesIn, Looping
  <1>8. old.listed \in [Names -> Entry]
    BY <1>1 DEF Called
  <1> QED
    BY <1>1, <1>2, <1>3, <1>4, <1>5, <1>6, <1>7, <1>8

\* The chosen command is on Discord as it should be (r), the others as they were:
\* it joins what is settled.
LEMMA SettlesSpec ==
  ASSUME SyncInv, NEW p \in Processes, sync[p].at \in Choosing, NEW r \in [Names -> Entry],
         sync[p].alone => Written1(sync[p].spec, r),
         \A n \in Names : n # sync[p].spec.name => r[n] = remote[n],
         NEW c \in Called, c.at \in {"next", "store"}, c.at = "store" => c.spec = sync[p].spec,
         c.todo = sync[p].todo, c.specs = sync[p].specs, c.listed = sync[p].listed,
         c.alone = sync[p].alone
  PROVE  CallOK(c, r)
  <1>1. PICK old : old = sync[p]
    OBVIOUS
  <1>2. /\ old.spec \in old.specs \ old.todo /\ old.todo \subseteq old.specs
        /\ old.specs \subseteq Specs
        /\ \A s \in Settled(old) : s \in Specs /\ s.name # old.spec.name
        /\ Settled(old) = old.specs \ (old.todo \cup {old.spec})
        /\ old.alone => LoneOK(old, remote)
    BY <1>1, Choosing1
  <1>3. /\ c.todo = old.todo /\ c.specs = old.specs /\ c.listed = old.listed /\ c.alone = old.alone
        /\ c.at = "store" => c.spec = old.spec
        /\ old.at \in Choosing
    BY <1>1
  <1>4. Settled(c) = Settled(old) \cup {old.spec}
    <2>1. Settled(c) = c.specs \ c.todo
      BY DEF Settled, Choosing
    <2> QED
      BY <1>2, <1>3, <2>1
  <1>5. BooksOK(c)
    BY <1>2, <1>3 DEF BooksOK, Looping, Choosing
  <1>6. ASSUME c.alone PROVE LoneOK(c, r)
    <2>1. /\ \A s \in Settled(old) : Written1(s, remote)
          /\ \A n \in Names \ NamesIn(Settled(old)) : remote[n] = old.listed[n]
      BY <1>2, <1>3, <1>6 DEF LoneOK, Looping
    <2>2. ASSUME NEW s \in Settled(old) PROVE Written1(s, r)
      <3>1. s \in Specs /\ s.name \in Names /\ s.name # sync[p].spec.name
        BY <1>1, <1>2, Fingerprints
      <3>2. r[s.name] = remote[s.name]
        BY <3>1
      <3> QED
        BY <2>1, <3>2 DEF Written1
    <2>3. Written1(old.spec, r)
      BY <1>1, <1>3, <1>6
    <2>4. ASSUME NEW n \in Names \ NamesIn(Settled(c)) PROVE r[n] = c.listed[n]
      <3>1. n # old.spec.name /\ n \notin NamesIn(Settled(old))
        BY <1>4 DEF NamesIn
      <3> QED
        BY <1>1, <1>3, <2>1, <3>1
    <2> QED
      BY <1>4, <2>2, <2>3, <2>4 DEF LoneOK, Looping, Choosing
  <1> QED
    BY <1>5, <1>6 DEF CallOK

\* What the listing and the cache call for; only the listing counts.
LEMMA ReadCacheInv == ASSUME SyncInv, NEW p \in Processes, ReadCache(p) PROVE SyncInv'
  <1>1. remote' = remote /\ remote' \in [Names -> Entry] /\ ids' \in Nat
    BY DEF ReadCache, SyncInv, SyncShapes
  <1>2. PICK old \in Called : old = sync[p] /\ old.at = "read"
    BY UnderWay DEF ReadCache
  <1>3. /\ old.spec \in Specs /\ old.spec.name \in Names
        /\ old.spec \in old.specs \ old.todo /\ old.todo \subseteq old.specs
        /\ old.listed[old.spec.name] \in Entry
        /\ old.alone => LoneOK(old, remote) /\ remote[old.spec.name] = old.listed[old.spec.name]
    BY <1>2, Choosing1 DEF Choosing
  <1>4. PICK cached : Decide(p, cached)
    BY DEF ReadCache
  <1>5. PICK listed \in Entry : listed = old.listed[old.spec.name]
    BY <1>3
  <1>6. PICK verdict : verdict = Verdict(listed, cached, Fingerprint(old.spec.def))
    OBVIOUS
  <1>7. IF verdict = "next" THEN StepTo(p, "next")
        ELSE sync' = [sync EXCEPT ![p].wrote = listed, ![p].at = verdict]
    BY <1>2, <1>4, <1>5, <1>6 DEF Decide
  <1>8. /\ verdict \in {"create", "next", "store", "edit"}
        /\ verdict \in {"next", "store"} =>
               listed # Absent /\ Fingerprint(listed.def) = Fingerprint(old.spec.def)
        /\ verdict = "edit" => Fingerprint(listed.def) # Fingerprint(old.spec.def)
    BY <1>6 DEF Verdict, ShouldSkip
  <1>9. verdict \in {"next", "store"} /\ old.alone => Written1(old.spec, remote)
    <2>1. ASSUME verdict \in {"next", "store"}, old.alone PROVE Written1(old.spec, remote)
      <3>1. listed # Absent /\ listed.def \in Stored
        BY <1>8, <2>1 DEF Entry
      <3>2. listed.def = Filled(old.spec.def)
        BY <1>3, <1>8, <2>1, <3>1, Fingerprints
      <3> QED
        BY <1>3, <1>5, <2>1, <3>1, <3>2 DEF Written1
    <2> QED
      BY <2>1
  <1>10. CASE verdict = "next"
    <2>1. PICK c \in Called :
              /\ sync' = [sync EXCEPT ![p] = c] /\ c.at = "next" /\ c.todo = old.todo
              /\ c.specs = old.specs /\ c.listed = old.listed /\ c.alone = old.alone
      <3> DEFINE new == [old EXCEPT !.at = "next", !.spec = Absent, !.wrote = Absent]
      <3>1. new \in Called
        BY DEF Called, Looping, Entry
      <3>2. /\ new.at = "next" /\ new.todo = old.todo
            /\ new.specs = old.specs /\ new.listed = old.listed /\ new.alone = old.alone
        BY DEF Called
      <3>3. sync' = [sync EXCEPT ![p] = new]
        BY <1>2, <1>7, <1>10 DEF StepTo
      <3> QED
        BY <3>1, <3>2, <3>3
    <2>2. CallOK(c, remote)
      BY <1>1, <1>2, <1>9, <1>10, <2>1, SettlesSpec DEF Choosing
    <2> QED
      BY <1>1, <2>1, <2>2, SyncStep
  <1>11. CASE verdict # "next"
    <2>1. PICK c \in Called :
              /\ sync' = [sync EXCEPT ![p] = c] /\ c.at = verdict /\ c.todo = old.todo
              /\ c.specs = old.specs /\ c.listed = old.listed /\ c.alone = old.alone
              /\ c.spec = old.spec
      <3> DEFINE new == [old EXCEPT !.wrote = listed, !.at = verdict]
      <3>1. new \in Called
        BY <1>8, <1>11 DEF Called, Looping, Choosing
      <3>2. /\ new.at = verdict /\ new.todo = old.todo /\ new.spec = old.spec
            /\ new.specs = old.specs /\ new.listed = old.listed /\ new.alone = old.alone
        BY DEF Called
      <3>3. sync' = [sync EXCEPT ![p] = new]
        BY <1>2, <1>7, <1>11 DEF SyncInv, SyncShapes
      <3> QED
        BY <3>1, <3>2, <3>3
    <2>2. CASE verdict = "store"
      <3>1. CallOK(c, remote)
        BY <1>1, <1>2, <1>9, <2>1, <2>2, SettlesSpec DEF Choosing
      <3> QED
        BY <1>1, <2>1, <3>1, SyncStep
    <2>3. CASE verdict \in {"create", "edit"}
      <3>1. Settled(c) = Settled(old)
        BY <1>2, <2>1, <2>3 DEF Settled, Choosing
      <3>2. BooksOK(c)
        BY <1>3, <1>5, <1>8, <2>1, <2>3 DEF BooksOK, Looping, Choosing
      <3>3. c.alone => LoneOK(c, remote)
        BY <1>2, <1>3, <2>1, <2>3, <3>1 DEF LoneOK, Looping, Choosing
      <3> QED
        BY <1>1, <2>1, <3>2, <3>3, SyncStep DEF CallOK
    <2> QED
      BY <1>8, <1>11, <2>2, <2>3
  <1> QED
    BY <1>10, <1>11

\* An entry that Discord makes of a definition.
LEMMA Entries ==
  ASSUME NEW d \in Stored
  PROVE  /\ \A e \in Entry : e # Absent =>
                /\ [e EXCEPT !.def = d] \in Entry /\ [e EXCEPT !.def = d] # Absent
                /\ [e EXCEPT !.def = d].def = d /\ [e EXCEPT !.def = d].id = e.id
         /\ \A i \in Nat \ {0} : LET e == [id |-> i, def |-> d]
                                 IN  e \in Entry /\ e # Absent /\ e.def = d
  <1>1. ASSUME NEW e \in Entry, e # Absent
        PROVE  /\ [e EXCEPT !.def = d] \in Entry /\ [e EXCEPT !.def = d] # Absent
               /\ [e EXCEPT !.def = d].def = d /\ [e EXCEPT !.def = d].id = e.id
    <2>1. e \in [id : Nat \ {0}, def : Stored]
      BY <1>1 DEF Entry
    <2> DEFINE f == [e EXCEPT !.def = d]
    <2>2. f \in [id : Nat \ {0}, def : Stored] /\ f.def = d /\ f.id = e.id
      BY <2>1
    <2>3. f.id # Absent.id
      BY <2>2 DEF Absent
    <2> QED
      BY <2>2, <2>3 DEF Entry
  <1>2. ASSUME NEW i \in Nat \ {0}
        PROVE  LET e == [id |-> i, def |-> d] IN e \in Entry /\ e # Absent /\ e.def = d
    <2> DEFINE e == [id |-> i, def |-> d]
    <2>1. e \in [id : Nat \ {0}, def : Stored] /\ e.def = d /\ e.id = i
      OBVIOUS
    <2>2. e.id # Absent.id
      BY <2>1 DEF Absent
    <2> QED
      BY <2>1, <2>2 DEF Entry
  <1> QED
    BY <1>1, <1>2

\* A create or an edit that took effect, or did not.
LEMMA WriteInv ==
  ASSUME SyncInv, NEW p \in Processes, CreateCommand(p) \/ EditCommand(p)
  PROVE  SyncInv'
  <1>1. PICK old \in Called : old = sync[p] /\ old.at \in Choosing
    BY UnderWay DEF CreateCommand, EditCommand, Choosing
  <1>2. /\ old.spec \in Specs /\ old.spec.name \in Names
        /\ Filled(old.spec.def) \in Stored
        /\ remote \in [Names -> Entry] /\ ids \in Nat /\ remote[old.spec.name] \in Entry
    BY <1>1, Choosing1, Fingerprints DEF SyncInv, SyncShapes
  <1>3. ASSUME NEW entry \in Entry, entry # Absent, entry.def = Filled(old.spec.def),
               Written(p, old.spec.name, entry), ids' \in Nat
        PROVE  SyncInv'
    <2>1. /\ remote' \in [Names -> Entry] /\ Written1(old.spec, remote')
          /\ \A n \in Names : n # old.spec.name => remote'[n] = remote[n]
      BY <1>2, <1>3 DEF Written, Written1
    <2>2. PICK r : r = remote'
      OBVIOUS
    <2>3. CASE sync' = Disturb(p, [sync EXCEPT ![p] = [at |-> "failed"]])
      <3>1. PICK c \in Quiet : c = [at |-> "failed"]
        BY DEF Quiet
      <3> QED
        BY <1>3, <2>1, <2>3, <3>1, QuietOK, SyncStep
    <2>4. CASE sync' = Disturb(p, [sync EXCEPT ![p].at = "store", ![p].wrote = entry])
      <3>1. PICK c \in Called :
                /\ sync' = Disturb(p, [sync EXCEPT ![p] = c]) /\ c.at = "store" /\ c.todo = old.todo
                /\ c.specs = old.specs /\ c.listed = old.listed /\ c.alone = old.alone
                /\ c.spec = old.spec
        <4> DEFINE new == [old EXCEPT !.at = "store", !.wrote = entry]
        <4>1. new \in Called
          BY <1>3 DEF Called, Looping
        <4>2. /\ new.at = "store" /\ new.todo = old.todo /\ new.spec = old.spec
              /\ new.specs = old.specs /\ new.listed = old.listed /\ new.alone = old.alone
          BY DEF Called
        <4>3. [sync EXCEPT ![p].at = "store", ![p].wrote = entry] = [sync EXCEPT ![p] = new]
          BY <1>1 DEF SyncInv, SyncShapes
        <4> QED
          BY <2>4, <4>1, <4>2, <4>3
      <3>2. CallOK(c, r)
        BY <1>1, <2>1, <2>2, <3>1, SettlesSpec
      <3> QED
        BY <1>3, <2>1, <2>2, <3>1, <3>2, SyncStep
    <2> QED
      BY <1>3, <2>3, <2>4 DEF Written
  <1>4. CASE CreateCommand(p)
    <2>1. CASE remote[old.spec.name] = Absent
      <3>1. PICK i \in Nat \ {0} : i = ids + 1
        BY <1>2
      <3>2. PICK entry \in Entry : /\ entry = [id |-> i, def |-> Filled(old.spec.def)]
                                   /\ entry # Absent /\ entry.def = Filled(old.spec.def)
        BY <1>2, Entries
      <3> QED
        BY <1>1, <1>2, <1>3, <1>4, <2>1, <3>1, <3>2 DEF CreateCommand
    <2>2. CASE remote[old.spec.name] # Absent
      <3>1. PICK entry \in Entry : /\ entry = [remote[old.spec.name] EXCEPT !.def = Filled(old.spec.def)]
                                   /\ entry # Absent /\ entry.def = Filled(old.spec.def)
        BY <1>2, <2>2, Entries
      <3> QED
        BY <1>1, <1>2, <1>3, <1>4, <2>2, <3>1 DEF CreateCommand
    <2> QED
      BY <2>1, <2>2
  <1>5. CASE EditCommand(p)
    <2>1. CASE remote[old.spec.name] # Absent /\ remote[old.spec.name].id = old.listed[old.spec.name].id
      <3>1. PICK entry \in Entry : /\ entry = [remote[old.spec.name] EXCEPT !.def = Filled(old.spec.def)]
                                   /\ entry # Absent /\ entry.def = Filled(old.spec.def)
        BY <1>2, <2>1, Entries
      <3> QED
        BY <1>1, <1>2, <1>3, <1>5, <2>1, <3>1 DEF EditCommand
    <2>2. CASE ~(remote[old.spec.name] # Absent /\ remote[old.spec.name].id = old.listed[old.spec.name].id)
      <3>1. PICK c \in Quiet : c = [at |-> "failed"]
        BY DEF Quiet
      <3>2. sync' = [sync EXCEPT ![p] = c] /\ remote' = remote /\ ids' = ids
        BY <1>1, <1>5, <2>2, <3>1 DEF EditCommand, StepTo
      <3> QED
        BY <1>2, <3>2, QuietOK, SyncStep
    <2> QED
      BY <2>1, <2>2
  <1> QED
    BY <1>4, <1>5

\* The cache remembers what was written, and the loop forgets it.
LEMMA CacheCommandInv == ASSUME SyncInv, NEW p \in Processes, CacheCommand(p) PROVE SyncInv'
  <1>1. remote' = remote /\ remote' \in [Names -> Entry] /\ ids' \in Nat
    BY DEF CacheCommand, SyncInv, SyncShapes
  <1>2. PICK old \in Called : old = sync[p] /\ old.at = "store"
    BY UnderWay DEF CacheCommand
  <1>3. BooksOK(old) /\ (old.alone => LoneOK(old, remote))
    BY <1>2, UnderWay
  <1>4. PICK c \in Called :
            /\ sync' = [sync EXCEPT ![p] = c] /\ c.at = "next" /\ c.todo = old.todo
            /\ c.specs = old.specs /\ c.listed = old.listed /\ c.alone = old.alone
    <2> DEFINE new == [old EXCEPT !.at = "next", !.spec = Absent, !.wrote = Absent]
    <2>1. new \in Called
      BY DEF Called, Looping, Entry
    <2>2. /\ new.at = "next" /\ new.todo = old.todo
          /\ new.specs = old.specs /\ new.listed = old.listed /\ new.alone = old.alone
      BY DEF Called
    <2>3. sync' = [sync EXCEPT ![p] = new]
      BY <1>2 DEF CacheCommand, StepTo
    <2> QED
      BY <2>1, <2>2, <2>3
  <1>5. Settled(c) = Settled(old)
    BY <1>2, <1>4 DEF Settled, Choosing
  <1>6. BooksOK(c) /\ (c.alone => LoneOK(c, remote))
    BY <1>2, <1>3, <1>4, <1>5 DEF BooksOK, LoneOK, Looping, Choosing
  <1> QED
    BY <1>1, <1>4, <1>6, SyncStep DEF CallOK

\* One listed command after the other is deleted.
LEMMA PruneInv == ASSUME SyncInv, NEW p \in Processes, PruneCommand(p) PROVE SyncInv'
  <1>1. PICK old \in Called : old = sync[p] /\ old.at = "prune"
    BY UnderWay DEF PruneCommand
  <1>2. /\ BooksOK(old) /\ (old.alone => LoneOK(old, remote)) /\ old.specs \subseteq Specs
        /\ remote \in [Names -> Entry] /\ ids \in Nat /\ ids' \in Nat
        /\ NamesIn(old.specs) = LocalNames(p)
    BY <1>1, UnderWay DEF PruneCommand
  <1>3. PICK n \in old.todo :
            LET left == old.todo \ {n}
                deleted == [sync EXCEPT ![p] =
                    IF left = {} THEN [@ EXCEPT !.at = "done", !.todo = {}, !.listed = Unlisted]
                    ELSE [@ EXCEPT !.todo = left]]
            IN  IF remote[n] # Absent /\ remote[n].id = old.listed[n].id
                THEN /\ remote' = [remote EXCEPT ![n] = Absent]
                     /\ \/ sync' = Disturb(p, deleted)
                        \/ sync' = Disturb(p, [sync EXCEPT ![p] = [at |-> "failed"]])
                ELSE StepTo(p, "failed") /\ UNCHANGED remote
    BY <1>1 DEF PruneCommand
  <1>4. n \in Names \ NamesIn(old.specs) /\ old.todo \subseteq Names \ NamesIn(old.specs)
    BY <1>1, <1>2 DEF BooksOK
  <1>5. CASE remote' = remote /\ StepTo(p, "failed")
    <2>1. PICK c \in Quiet : c = [at |-> "failed"]
      BY DEF Quiet
    <2>2. sync' = [sync EXCEPT ![p] = c]
      BY <1>5, <2>1 DEF StepTo
    <2> QED
      BY <1>2, <1>5, <2>2, QuietOK, SyncStep
  <1>6. ASSUME remote' = [remote EXCEPT ![n] = Absent],
               NEW c \in Called, sync' = Disturb(p, [sync EXCEPT ![p] = c]),
               c.specs = old.specs, c.alone = old.alone,
               \/ c.at = "done" /\ old.todo = {n}
               \/ c.at = "prune" /\ c.todo = old.todo \ {n} /\ c.listed = old.listed
        PROVE  SyncInv'
    <2>1. remote' \in [Names -> Entry]
      BY <1>2, <1>4, <1>6 DEF Entry
    <2>2. PICK r : r = remote'
      OBVIOUS
    <2>3. /\ r[n] = Absent /\ \A m \in Names : m # n => r[m] = remote[m]
      BY <1>2, <1>4, <1>6, <2>2
    <2>4. BooksOK(c)
      BY <1>1, <1>2, <1>4, <1>6 DEF BooksOK, Looping, Choosing
    <2>5. ASSUME c.alone PROVE LoneOK(c, r)
      <3>1. /\ \A s \in old.specs : Written1(s, remote)
            /\ \A m \in Names \ NamesIn(old.specs) :
                   remote[m] = IF m \in old.todo THEN old.listed[m] ELSE Absent
        BY <1>1, <1>2, <1>6, <2>5 DEF LoneOK
      <3>2. ASSUME NEW s \in c.specs PROVE Written1(s, r)
        <4>1. s.name \in Names /\ s.name # n
          BY <1>2, <1>4, <1>6, Fingerprints DEF NamesIn
        <4> QED
          BY <1>6, <2>3, <3>1, <4>1 DEF Written1
      <3>3. c.at = "prune" => \A m \in Names \ NamesIn(c.specs) :
                                  r[m] = IF m \in c.todo THEN c.listed[m] ELSE Absent
        BY <1>6, <2>3, <3>1
      <3>4. c.at = "done" => \A m \in Names \ NamesIn(c.specs) : r[m] = Absent
        BY <1>6, <2>3, <3>1
      <3> QED
        BY <1>6, <3>2, <3>3, <3>4 DEF LoneOK, Looping, Choosing
    <2> QED
      BY <1>2, <1>6, <2>1, <2>2, <2>4, <2>5, SyncStep DEF CallOK
  <1>7. CASE /\ remote' = [remote EXCEPT ![n] = Absent] /\ old.todo \ {n} = {}
             /\ sync' = Disturb(p, [sync EXCEPT ![p] =
                    [@ EXCEPT !.at = "done", !.todo = {}, !.listed = Unlisted]])
    <2> DEFINE new == [old EXCEPT !.at = "done", !.todo = {}, !.listed = Unlisted]
    <2>1. new \in Called
      BY DEF Called, Unlisted, Entry
    <2>2. new.at = "done" /\ new.specs = old.specs /\ new.alone = old.alone
      BY DEF Called
    <2>3. sync' = Disturb(p, [sync EXCEPT ![p] = new]) /\ old.todo = {n}
      BY <1>1, <1>7
    <2> QED
      BY <1>6, <1>7, <2>1, <2>2, <2>3
  <1>8. CASE /\ remote' = [remote EXCEPT ![n] = Absent] /\ old.todo \ {n} # {}
             /\ sync' = Disturb(p, [sync EXCEPT ![p] = [@ EXCEPT !.todo = old.todo \ {n}]])
    <2> DEFINE new == [old EXCEPT !.todo = old.todo \ {n}]
    <2>1. new \in Called
      BY DEF Called
    <2>2. /\ new.at = "prune" /\ new.specs = old.specs /\ new.alone = old.alone
          /\ new.todo = old.todo \ {n} /\ new.listed = old.listed
      BY <1>1 DEF Called
    <2>3. sync' = Disturb(p, [sync EXCEPT ![p] = new])
      BY <1>1, <1>8
    <2> QED
      BY <1>6, <1>8, <2>1, <2>2, <2>3
  <1>9. CASE /\ remote' = [remote EXCEPT ![n] = Absent]
             /\ sync' = Disturb(p, [sync EXCEPT ![p] = [at |-> "failed"]])
    <2>1. PICK c \in Quiet : c = [at |-> "failed"]
      BY DEF Quiet
    <2>2. remote' \in [Names -> Entry]
      BY <1>2, <1>4, <1>9 DEF Entry
    <2> QED
      BY <1>2, <1>9, <2>1, <2>2, QuietOK, SyncStep
  <1> QED
    BY <1>3, <1>5, <1>7, <1>8, <1>9

LEMMA SyncNextInv == SyncInv /\ [SyncNext]_syncVars => SyncInv'
  <1> SUFFICES ASSUME SyncInv, [SyncNext]_syncVars PROVE SyncInv'
    OBVIOUS
  <1>1. CASE FlushCache \/ UNCHANGED syncVars
    BY <1>1 DEF FlushCache, syncVars, SyncInv, SyncShapes
  <1>2. ASSUME NEW p \in Processes,
               \/ StartSync(p) \/ ListCommands(p) \/ NextSpec(p) \/ ReadCache(p)
               \/ CreateCommand(p) \/ EditCommand(p) \/ CacheCommand(p)
               \/ PruneCommand(p) \/ Failed(p)
        PROVE  SyncInv'
    BY <1>2, ListingInv, NextSpecInv, ReadCacheInv, WriteInv, CacheCommandInv, PruneInv
  <1> QED
    BY <1>1, <1>2 DEF SyncNext

LEMMA SyncInvariant == SyncSpec => []SyncInv
  BY SyncInitInv, SyncNextInv, PTL DEF SyncSpec

\* "Remote comparison still protects correctness": a Sync that ended well with
\* nobody writing meanwhile leaves Discord with its binary's definitions, for any
\* releases and whatever the cache held.
THEOREM SettledIsBinary == SyncSpec => []SettledMatchesBinary
  <1>1. SyncInv => SettledMatchesBinary
    <2> SUFFICES ASSUME SyncInv, NEW p \in Processes, sync[p].at = "done", sync[p].alone
                 PROVE  /\ \A s \in sync[p].specs :
                               remote[s.name] # Absent /\ remote[s.name].def = Filled(s.def)
                        /\ sync[p].prune => {n \in Names : remote[n] # Absent} = LocalNames(p)
      BY DEF SettledMatchesBinary
    <2>1. /\ LoneOK(sync[p], remote) /\ NamesIn(sync[p].specs) = LocalNames(p)
          /\ LocalNames(p) \subseteq Names
      BY UnderWay
    <2>2. \A s \in sync[p].specs :
              remote[s.name] # Absent /\ remote[s.name].def = Filled(s.def)
      BY <2>1 DEF LoneOK, Written1
    <2>3. ASSUME sync[p].prune PROVE {n \in Names : remote[n] # Absent} = LocalNames(p)
      <3>1. \A n \in Names \ LocalNames(p) : remote[n] = Absent
        BY <2>1, <2>3 DEF LoneOK
      <3>2. \A n \in LocalNames(p) : remote[n] # Absent
        BY <2>2 DEF LocalNames
      <3> QED
        BY <2>1, <3>1, <3>2
    <2> QED
      BY <2>2, <2>3
  <1> QED
    BY <1>1, SyncInvariant, PTL

\* Another process's step leaves a call where it is.
LEMMA OthersStay ==
  ASSUME SyncInv, NEW p \in Processes, NEW q \in Processes \ {p},
         \/ StartSync(q) \/ ListCommands(q) \/ NextSpec(q) \/ ReadCache(q)
         \/ CreateCommand(q) \/ EditCommand(q) \/ CacheCommand(q)
         \/ PruneCommand(q) \/ Failed(q)
  PROVE  sync'[p].at = sync[p].at
  <1>1. ASSUME NEW c, sync' = [sync EXCEPT ![q] = c] PROVE sync'[p].at = sync[p].at
    BY <1>1 DEF SyncInv, SyncShapes
  <1>2. ASSUME NEW c, sync' = Disturb(q, [sync EXCEPT ![q] = c]) PROVE sync'[p].at = sync[p].at
    <2>1. sync'[p] = IF sync[p].at \notin {"idle", "failed"}
                     THEN [sync[p] EXCEPT !.alone = FALSE] ELSE sync[p]
      BY <1>2 DEF Disturb, SyncInv, SyncShapes
    <2>2. sync[p].at \notin {"idle", "failed"} => sync[p] \in Called
      BY UnderWay
    <2> QED
      BY <2>1, <2>2 DEF Called
  <1>3. \/ \E c : sync' = [sync EXCEPT ![q] = c]
        \/ \E c : sync' = Disturb(q, [sync EXCEPT ![q] = c])
    <2>1. CASE StartSync(q)
      BY <2>1 DEF StartSync
    <2>2. CASE ListCommands(q) \/ NextSpec(q) \/ ReadCache(q) \/ CacheCommand(q) \/ Failed(q)
      <3>1. sync' = [sync EXCEPT ![q] = sync'[q]]
        BY <2>2 DEF ListCommands, NextSpec, ReadCache, CacheCommand, Failed, StepTo, Decide,
                    SyncInv, SyncShapes
      <3> QED
        BY <3>1
    <2>3. CASE CreateCommand(q) \/ EditCommand(q)
      BY <2>3 DEF CreateCommand, EditCommand, Written, StepTo
    <2>4. CASE PruneCommand(q)
      BY <2>4 DEF PruneCommand, StepTo
    <2> QED
      BY <2>1, <2>2, <2>3, <2>4
  <1> QED
    BY <1>1, <1>2, <1>3

\* What a step leaves of a command that every release has.
LEMMA SharedStep ==
  ASSUME SyncInv, SyncNext, NEW n \in Names, \A r \in Releases : \E s \in r : s.name = n,
         remote[n] # Absent
  PROVE  remote'[n] # Absent /\ remote'[n].id = remote[n].id
  <1>1. remote \in [Names -> Entry]
    BY DEF SyncInv, SyncShapes
  <1>2. CASE FlushCache
    BY <1>2 DEF FlushCache
  <1>3. ASSUME NEW p \in Processes, CreateCommand(p) \/ EditCommand(p)
        PROVE  remote'[n] # Absent /\ remote'[n].id = remote[n].id
    <2>1. PICK m \in Names : m = sync[p].spec.name /\ Filled(sync[p].spec.def) \in Stored
      BY <1>3, Choosing1, Fingerprints DEF CreateCommand, EditCommand, Choosing
    <2>2. CASE m = n
      <3>1. remote' = remote \/ remote' = [remote EXCEPT ![n] = [remote[n] EXCEPT !.def = Filled(sync[p].spec.def)]]
        BY <1>3, <2>1, <2>2 DEF CreateCommand, EditCommand, Written
      <3>2. /\ remote[n] \in Entry
            /\ [remote[n] EXCEPT !.def = Filled(sync[p].spec.def)] # Absent
            /\ [remote[n] EXCEPT !.def = Filled(sync[p].spec.def)].id = remote[n].id
        BY <1>1, <2>1, Entries
      <3>3. remote'[n] = remote[n] \/ remote'[n] = [remote[n] EXCEPT !.def = Filled(sync[p].spec.def)]
        BY <1>1, <3>1
      <3> QED
        BY <3>2, <3>3
    <2>3. CASE m # n
      BY <1>1, <1>3, <2>1, <2>3 DEF CreateCommand, EditCommand, Written
    <2> QED
      BY <2>2, <2>3
  <1>4. ASSUME NEW p \in Processes, PruneCommand(p)
        PROVE  remote'[n] # Absent /\ remote'[n].id = remote[n].id
    <2>1. /\ sync[p].specs \in Releases /\ NamesIn(sync[p].specs) = LocalNames(p)
          /\ sync[p].todo \subseteq Names \ NamesIn(sync[p].specs)
      BY <1>4, UnderWay DEF PruneCommand, BooksOK
    <2>2. n \notin sync[p].todo
      BY <2>1 DEF NamesIn
    <2> QED
      BY <1>1, <1>4, <2>2 DEF PruneCommand
  <1>5. ASSUME NEW p \in Processes,
               StartSync(p) \/ ListCommands(p) \/ NextSpec(p) \/ ReadCache(p) \/ CacheCommand(p) \/ Failed(p)
        PROVE  remote' = remote
    BY <1>5 DEF StartSync, ListCommands, NextSpec, ReadCache, CacheCommand, Failed
  <1> QED
    BY <1>2, <1>3, <1>4, <1>5 DEF SyncNext

\* An edit of a call that is alone changes what Discord has.
LEMMA EditStep ==
  ASSUME SyncInv, SyncNext, NEW p \in Processes,
         sync[p].at = "edit", sync[p].alone, sync'[p].at = "store"
  PROVE  remote' # remote
  <1>1. EditCommand(p)
    <2>1. ~FlushCache
      BY DEF FlushCache
    <2>2. ASSUME NEW q \in Processes \ {p},
                 \/ StartSync(q) \/ ListCommands(q) \/ NextSpec(q) \/ ReadCache(q)
                 \/ CreateCommand(q) \/ EditCommand(q) \/ CacheCommand(q)
                 \/ PruneCommand(q) \/ Failed(q)
          PROVE  FALSE
      BY <2>2, OthersStay
    <2>3. ~(StartSync(p) \/ ListCommands(p) \/ NextSpec(p) \/ ReadCache(p)
            \/ CreateCommand(p) \/ CacheCommand(p) \/ PruneCommand(p))
      BY DEF StartSync, ListCommands, NextSpec, ReadCache, CreateCommand, CacheCommand, PruneCommand
    <2>4. ~Failed(p)
      BY DEF Failed, StepTo, SyncInv, SyncShapes
    <2> QED
      BY <2>1, <2>2, <2>3, <2>4 DEF SyncNext
  <1>2. PICK old \in Called : old = sync[p] /\ old.at = "edit"
    BY UnderWay
  <1>3. /\ old.spec \in Specs /\ old.spec.name \in Names
        /\ remote \in [Names -> Entry]
        /\ remote[old.spec.name] = old.listed[old.spec.name]
        /\ Fingerprint(old.listed[old.spec.name].def) # Fingerprint(old.spec.def)
        /\ Filled(old.spec.def) \in Stored
        /\ Fingerprint(Filled(old.spec.def)) = Fingerprint(old.spec.def)
    BY <1>2, Choosing1, UnderWay, Fingerprints DEF Choosing, BooksOK
  <1>4. remote[old.spec.name] # Absent
        /\ remote' = [remote EXCEPT ![old.spec.name] =
                         [remote[old.spec.name] EXCEPT !.def = Filled(old.spec.def)]]
    <2>1. ~StepTo(p, "failed")
      BY DEF StepTo, SyncInv, SyncShapes
    <2> QED
      BY <1>1, <1>2, <2>1 DEF EditCommand, Written
  <1>5. remote'[old.spec.name].def = Filled(old.spec.def)
    BY <1>3, <1>4, Entries
  <1> QED
    BY <1>3, <1>5

\* For any releases and processes: an edit of an undisturbed Sync is needed, and
\* a command that every release has is never deleted nor given another id.
THEOREM WritesAreNeeded == SyncSpec => WritesWhatItMust
  <1>1. SyncInv /\ [SyncNext]_syncVars =>
            [\A p \in Processes :
                sync[p].at = "edit" /\ sync[p].alone /\ sync'[p].at = "store"
                    => remote' # remote]_syncVars
    BY EditStep
  <1>2. SyncInv /\ [SyncNext]_syncVars =>
            [\A n \in {m \in Names : \A r \in Releases : \E s \in r : s.name = m} :
                remote[n] # Absent =>
                    remote'[n] # Absent /\ remote'[n].id = remote[n].id]_syncVars
    BY SharedStep
  <1> QED
    BY <1>1, <1>2, SyncInvariant, PTL
    DEF SyncSpec, WritesWhatItMust, EditsOnlyDifferences, SharedCommandsStay
-----------------------------------------------------------------------------
(* Interactions. *)
Before == {"resolve", "lookup", "create"}
Live == Before \cup {"edit", "report"}

TaskType == [at : {"handle", "respond", "done"} \cup Live, of : Commands, kind : Kinds,
             allowed : BOOLEAN, first : {"nothing", "thinking"} \cup Immediate,
             says : {"nothing", "created", "sorry"}]

ChatShapes ==
    /\ task \in [Deliveries -> TaskType \cup {[at |-> "waiting"]}]
    /\ reply \in [Commands -> Replies]
    /\ made \in [Commands -> 0 .. 1]
    /\ mishaps \in Nat

\* A task runs behind the response it was promised in, commits its case at most
\* once, and knows what it says.
TaskOK(d) ==
    /\ task[d].at = "respond" => task[d].first # "nothing"
    /\ task[d].at \in Before => made[task[d].of] = 0
    /\ task[d].at \in Before \cup {"edit"} => reply[task[d].of] = "thinking"
    /\ task[d].at = "edit" =>
          /\ task[d].says \in {"created", "sorry"}
          /\ task[d].says = "created" => made[task[d].of] > 0
          /\ task[d].says = "sorry" /\ made[task[d].of] > 0 => mishaps > 0
    /\ task[d].at = "report" => reply[task[d].of] \in {"thinking"} \cup Edited /\ mishaps > 0

\* What is shown of a command against the case it made.
CommandOK(c) ==
    /\ reply[c] = "created" => made[c] > 0
    /\ reply[c] \in {"nothing"} \cup Immediate => made[c] = 0
    /\ reply[c] \in {"sorry", "unfinished"} /\ made[c] > 0 => mishaps > 0

\* One delivery of an interaction has a task.
OneTask ==
    \A d, e \in Deliveries :
        task[d].at \in Live /\ task[e].at \in Live /\ task[d].of = task[e].of => d = e

\* No other delivery of the command has a task.
AloneIn(d, c) == \A e \in Deliveries \ {d} : task[e].at \in Live => task[e].of # c

ChatInv ==
    /\ ChatShapes /\ OneTask
    /\ \A d \in Deliveries : TaskOK(d)
    /\ \A c \in Commands : CommandOK(c)
-----------------------------------------------------------------------------
LEMMA ChatInitInv == ChatInit => ChatInv
  BY DEF ChatInit, ChatInv, ChatShapes, OneTask, TaskOK, CommandOK, Replies, Immediate, Edited, Before, Live

\* The record of a delivery that is under way, and with another step.
LEMMA TaskMoves ==
  ASSUME ChatShapes, NEW d \in Deliveries, ~NotDelivered(d)
  PROVE  /\ task[d] \in TaskType
         /\ \A at \in {"handle", "respond", "done"} \cup Live :
               /\ [task[d] EXCEPT !.at = at] \in TaskType
               /\ \A first \in {"nothing", "thinking"} \cup Immediate :
                     [task[d] EXCEPT !.at = at, !.first = first] \in TaskType
               /\ \A says \in {"nothing", "created", "sorry"} :
                     [task[d] EXCEPT !.at = at, !.says = says] \in TaskType
  <1>1. task[d] \in TaskType
    BY DEF ChatShapes, NotDelivered
  <1>2. ASSUME NEW at \in {"handle", "respond", "done"} \cup Live
        PROVE  /\ [task[d] EXCEPT !.at = at] \in TaskType
               /\ \A first \in {"nothing", "thinking"} \cup Immediate :
                     [task[d] EXCEPT !.at = at, !.first = first] \in TaskType
               /\ \A says \in {"nothing", "created", "sorry"} :
                     [task[d] EXCEPT !.at = at, !.says = says] \in TaskType
    BY <1>1 DEF TaskType
  <1> QED
    BY <1>1, <1>2

\* What the steps of one delivery have in common: if they touch the command's
\* reply or its case, no other delivery of the command has a task.
LEMMA OwnStep ==
  ASSUME ChatInv, NEW d \in Deliveries, NEW new \in TaskType, NEW c \in Commands,
         task' = [task EXCEPT ![d] = new], new.of = c,
         mishaps' \in Nat, mishaps' >= mishaps,
         NEW r \in Replies, NEW m \in 0 .. 1,
         reply' = [reply EXCEPT ![c] = r], made' = [made EXCEPT ![c] = m],
         \/ r = reply[c] /\ m = made[c] /\ new.at \notin Live
         \/ AloneIn(d, c),
         TaskOK(d)', CommandOK(c)'
  PROVE  ChatInv'
  <1>1. /\ task'[d] = new /\ \A e \in Deliveries \ {d} : task'[e] = task[e]
        /\ reply'[c] = r /\ made'[c] = m
        /\ \A b \in Commands \ {c} : reply'[b] = reply[b] /\ made'[b] = made[b]
    BY DEF ChatInv, ChatShapes
  <1>2. ChatShapes'
    BY DEF ChatInv, ChatShapes
  <1>3. OneTask'
    BY <1>1 DEF ChatInv, OneTask, AloneIn
  <1>4. ASSUME NEW e \in Deliveries \ {d} PROVE TaskOK(e)'
    <2>1. TaskOK(e) /\ task'[e] = task[e]
      BY <1>1 DEF ChatInv
    <2>2. mishaps > 0 => mishaps' > 0
      BY DEF ChatInv, ChatShapes
    <2>3. CASE task[e].at \in Live
      <3>1. task[e].of \in Commands
        BY <2>3 DEF ChatInv, ChatShapes, TaskType, Live, Before
      <3>2. reply'[task[e].of] = reply[task[e].of] /\ made'[task[e].of] = made[task[e].of]
        BY <1>1, <2>3, <3>1 DEF AloneIn
      <3> QED
        BY <2>1, <2>2, <3>2 DEF TaskOK
    <2>4. CASE task[e].at \notin Live
      BY <2>1, <2>4 DEF TaskOK, Live, Before
    <2> QED
      BY <2>3, <2>4
  <1>5. ASSUME NEW b \in Commands \ {c} PROVE CommandOK(b)'
    BY <1>1 DEF ChatInv, ChatShapes, CommandOK
  <1> QED
    BY <1>2, <1>3, <1>4, <1>5 DEF ChatInv

\* A delivery's task is the only one of its command.
LEMMA Alone ==
  ASSUME ChatInv, NEW d \in Deliveries, task[d].at \in Live
  PROVE  /\ ~NotDelivered(d) /\ task[d] \in TaskType /\ task[d].of \in Commands
         /\ AloneIn(d, task[d].of)
         /\ TaskOK(d) /\ CommandOK(task[d].of)
         /\ reply[task[d].of] \in Replies /\ made[task[d].of] \in 0 .. 1 /\ mishaps \in Nat
  <1>1. ~NotDelivered(d)
    BY DEF NotDelivered, Live, Before
  <1>2. task[d] \in TaskType
    BY <1>1, TaskMoves DEF ChatInv
  <1> QED
    BY <1>1, <1>2 DEF ChatInv, ChatShapes, OneTask, TaskType, AloneIn

\* Delivery d goes to a point of its task, or ends it; nothing is shown or made.
LEMMA TaskGoes ==
  ASSUME ChatInv, NEW d \in Deliveries, task[d].at \in Live,
         NEW at \in {"done"} \cup Live, Goto(d, at),
         mishaps' \in Nat, mishaps' >= mishaps, UNCHANGED <<reply, made>>,
         at \in Before => task[d].at \in Before,
         at # "edit", at = "report" => mishaps' > 0
  PROVE  ChatInv'
  <1>0. PICK c \in Commands : c = task[d].of
    BY Alone
  <1>1. PICK new \in TaskType : new.of = c /\ new.at = at /\ task' = [task EXCEPT ![d] = new]
    <2>1. task[d] \in TaskType /\ [task[d] EXCEPT !.at = at] \in TaskType
      BY Alone, TaskMoves DEF ChatInv
    <2> QED
      BY <1>0, <2>1 DEF Goto, TaskType
  <1>2. reply' = [reply EXCEPT ![c] = reply[c]] /\ made' = [made EXCEPT ![c] = made[c]]
    BY DEF ChatInv, ChatShapes
  <1>3. TaskOK(d)'
    <2>1. task'[d] = new
      BY <1>1 DEF ChatInv, ChatShapes
    <2>2. TaskOK(d) /\ reply'[c] = reply[c] /\ made'[c] = made[c]
      BY Alone
    <2> QED
      BY <1>0, <1>1, <2>1, <2>2 DEF TaskOK, Before, Live
  <1>4. CommandOK(c)'
    BY <1>0, Alone DEF CommandOK
  <1>5. /\ reply[c] \in Replies /\ made[c] \in 0 .. 1
        /\ AloneIn(d, c)
    BY <1>0, <1>1, Alone
  <1> QED
    BY <1>5, <1>1, <1>2, <1>3, <1>4, OwnStep

\* Delivery d has its words ready.
LEMMA TaskSays ==
  ASSUME ChatInv, NEW d \in Deliveries, task[d].at \in Before,
         NEW c \in Commands, c = task[d].of,
         NEW text \in {"created", "sorry"}, Saying(d, text),
         mishaps' \in Nat, mishaps' >= mishaps, UNCHANGED reply,
         NEW m \in 0 .. 1, made' = [made EXCEPT ![c] = m],
         text = "created" => m > 0, text = "sorry" /\ m > 0 => mishaps' > 0
  PROVE  ChatInv'
  <1>0. task[d].at \in Live
    BY DEF Live
  <1>1. PICK new \in TaskType : /\ new.of = c /\ new.at = "edit" /\ new.says = text
                                /\ task' = [task EXCEPT ![d] = new]
    <2>1. task[d] \in TaskType /\ [task[d] EXCEPT !.at = "edit", !.says = text] \in TaskType
      BY <1>0, Alone, TaskMoves DEF ChatInv, Live
    <2> QED
      BY <2>1 DEF Saying, TaskType
  <1>2. reply' = [reply EXCEPT ![c] = reply[c]] /\ reply'[c] = "thinking" /\ made'[c] = m
    BY <1>0, Alone DEF ChatInv, ChatShapes, TaskOK
  <1>3. TaskOK(d)'
    <2>1. task'[d] = new
      BY <1>1 DEF ChatInv, ChatShapes
    <2> QED
      BY <1>1, <1>2, <2>1 DEF TaskOK, Before, Live
  <1>4. CommandOK(c)'
    BY <1>2 DEF CommandOK, Immediate
  <1>5. /\ reply[c] \in Replies /\ made' = [made EXCEPT ![c] = m]
        /\ AloneIn(d, c)
    BY <1>0, <1>1, Alone
  <1>6. PICK r \in Replies : reply' = [reply EXCEPT ![c] = r]
    BY <1>2, <1>5
  <1>7. \/ r = reply[c] /\ m = made[c] /\ new.at \notin Live
        \/ AloneIn(d, c)
    BY <1>5
  <1>8. mishaps' \in Nat /\ mishaps' >= mishaps
    OBVIOUS
  <1> QED
    BY <1>5, <1>6, <1>7, <1>8, <1>1, <1>3, <1>4, OwnStep

LEMMA ArrivalInv ==
  ASSUME ChatInv, NEW d \in Deliveries, NEW c \in Commands, NEW kind \in Kinds, NEW ok \in BOOLEAN,
         Deliver(d, c, kind, ok)
  PROVE  ChatInv'
  <1>1. PICK new \in TaskType : new = [at |-> "handle", of |-> c, kind |-> kind, allowed |-> ok,
                                     first |-> "nothing", says |-> "nothing"]
    BY DEF TaskType
  <1>2. /\ task' = [task EXCEPT ![d] = new] /\ UNCHANGED <<reply, made, mishaps>>
        /\ new.of = c /\ new.at = "handle"
    BY <1>1 DEF Deliver
  <1>3. /\ reply' = [reply EXCEPT ![c] = reply[c]] /\ made' = [made EXCEPT ![c] = made[c]]
        /\ reply[c] \in Replies /\ made[c] \in 0 .. 1 /\ mishaps \in Nat
    BY <1>2 DEF ChatInv, ChatShapes
  <1>4. TaskOK(d)'
    BY <1>1, <1>2 DEF TaskOK, Before, ChatInv, ChatShapes
  <1>5. CommandOK(c)'
    BY <1>2 DEF ChatInv, CommandOK
  <1>6. new.at \notin Live /\ mishaps' \in Nat /\ mishaps' >= mishaps
    BY <1>2, <1>3 DEF Live, Before
  <1> QED
    BY <1>2, <1>3, <1>4, <1>5, <1>6, OwnStep

LEMMA HandlingInv == ASSUME ChatInv, NEW d \in Deliveries, HandleInteraction(d) PROVE ChatInv'
  <1>0. ~NotDelivered(d) /\ task[d] \in TaskType /\ task[d].at = "handle"
    BY TaskMoves DEF HandleInteraction, NotDelivered, ChatInv
  <1>1. PICK c \in Commands : c = task[d].of
    BY <1>0 DEF TaskType
  <1>2. /\ reply' = [reply EXCEPT ![c] = reply[c]] /\ made' = [made EXCEPT ![c] = made[c]]
        /\ reply[c] \in Replies /\ made[c] \in 0 .. 1 /\ mishaps \in Nat
        /\ reply' = reply /\ made' = made
    BY DEF HandleInteraction, ChatInv, ChatShapes
  <1>3. mishaps' \in Nat /\ mishaps' >= mishaps
    BY <1>2 DEF HandleInteraction, Mishap
  <1>4. FirstResponse(d) \in {"thinking"} \cup Immediate
    BY DEF FirstResponse, Immediate
  <1>5. PICK new \in TaskType : /\ task' = [task EXCEPT ![d] = new] /\ new.of = c
                                /\ new.at \in {"respond", "done"}
                                /\ new.at = "respond" => new.first # "nothing"
    <2>1. CASE Goto(d, "done")
      <3>1. [task[d] EXCEPT !.at = "done"] \in TaskType
        BY <1>0, TaskMoves DEF ChatInv
      <3> QED
        BY <1>0, <1>1, <2>1, <3>1 DEF Goto, TaskType
    <2>2. ASSUME NEW first \in {"thinking"} \cup Immediate,
                 task' = [task EXCEPT ![d].at = "respond", ![d].first = first]
          PROVE  \E new \in TaskType : /\ task' = [task EXCEPT ![d] = new] /\ new.of = c
                                       /\ new.at \in {"respond", "done"}
                                       /\ new.at = "respond" => new.first # "nothing"
      <3> DEFINE new == [task[d] EXCEPT !.at = "respond", !.first = first]
      <3>1. new \in TaskType /\ first # "nothing"
        BY <1>0, TaskMoves DEF ChatInv, Immediate
      <3>2. task' = [task EXCEPT ![d] = new]
        BY <2>2, <1>0 DEF TaskType, ChatInv, ChatShapes
      <3>3. new.of = c /\ new.at = "respond" /\ new.first = first
        BY <1>0, <1>1 DEF TaskType
      <3> QED
        BY <3>1, <3>2, <3>3
    <2> QED
      BY <1>4, <2>1, <2>2 DEF HandleInteraction, Immediate
  <1>6. TaskOK(d)'
    BY <1>5 DEF TaskOK, Before, ChatInv, ChatShapes
  <1>7. CommandOK(c)'
    BY <1>1, <1>2, <1>3 DEF ChatInv, CommandOK
  <1> QED
    BY <1>1, <1>2, <1>3, <1>5, <1>6, <1>7, OwnStep DEF Live, Before

\* The first response: Discord takes it where none was shown of the command yet.
LEMMA RespondInv == ASSUME ChatInv, NEW d \in Deliveries, Respond(d) PROVE ChatInv'
  <1>0. ~NotDelivered(d) /\ task[d] \in TaskType /\ task[d].at = "respond" /\ mishaps \in Nat
    BY TaskMoves DEF Respond, NotDelivered, ChatInv, ChatShapes
  <1>1. PICK c \in Commands : c = task[d].of
    BY <1>0 DEF TaskType
  <1>2. PICK first \in {"thinking"} \cup Immediate : first = task[d].first
    BY <1>0 DEF TaskType, ChatInv, TaskOK
  <1>3. PICK at \in {"resolve", "done"} : /\ Goto(d, at)
                                          /\ at = "resolve" => first = "thinking" /\ reply'[c] = first /\ reply[c] = "nothing"
    <2>1. reply[c] = "nothing" /\ reply' = [reply EXCEPT ![c] = first] => reply'[c] = first
      BY <1>1 DEF ChatInv, ChatShapes
    <2> QED
      BY <1>1, <1>2, <2>1 DEF Respond, AfterResponse, Rejected
  <1>4. PICK new \in TaskType : task' = [task EXCEPT ![d] = new] /\ new.of = c /\ new.at = at
    <2>1. [task[d] EXCEPT !.at = at] \in TaskType
      BY <1>0, TaskMoves DEF ChatInv, Live, Before
    <2>2. Goto(d, at) /\ at \in {"resolve", "done"}
      BY <1>3
    <2> QED
      BY <1>0, <1>1, <2>1, <2>2 DEF Goto, TaskType
  <1>5. PICK r \in Replies : /\ reply' = [reply EXCEPT ![c] = r]
                             /\ \/ r = reply[c]
                                \/ r = first /\ reply[c] = "nothing"
    <2>1. CASE reply' = reply
      BY <2>1 DEF ChatInv, ChatShapes
    <2>2. CASE reply[c] = "nothing" /\ reply' = [reply EXCEPT ![c] = first]
      BY <1>2, <2>2 DEF Replies
    <2> QED
      BY <1>1, <1>2, <2>1, <2>2 DEF Respond
  <1>6. /\ mishaps' \in Nat /\ mishaps' >= mishaps /\ made' = made
        /\ made' = [made EXCEPT ![c] = made[c]] /\ made[c] \in 0 .. 1
    BY <1>0 DEF Respond, Mishap, ChatInv, ChatShapes
  <1>7. task'[d] = new /\ reply'[c] = r /\ made'[c] = made[c]
    BY <1>4, <1>5, <1>6 DEF ChatInv, ChatShapes
  <1>8. CommandOK(c) /\ (reply[c] = "nothing" => made[c] = 0)
    BY DEF ChatInv, CommandOK
  <1>9. TaskOK(d)'
    <2>1. CASE at = "done"
      BY <2>1, <1>4, <1>7 DEF TaskOK, Before
    <2>2. CASE at = "resolve"
      <3>1. reply'[c] = "thinking" /\ made'[c] = 0 /\ task'[d].of = c /\ task'[d].at = "resolve"
        BY <2>2, <1>3, <1>4, <1>7, <1>8
      <3> QED
        BY <3>1 DEF TaskOK, Before
    <2> QED
      BY <1>3, <2>1, <2>2
  <1>10. CommandOK(c)'
    BY <1>2, <1>5, <1>6, <1>7, <1>8 DEF CommandOK, Immediate, ChatInv, ChatShapes
  <1>11. \/ r = reply[c] /\ new.at \notin Live
         \/ AloneIn(d, c)
    <2>1. CASE reply[c] = "nothing"
      <3>1. ASSUME NEW e \in Deliveries, task[e].at \in Live PROVE reply[task[e].of] # "nothing"
        <4>1. TaskOK(e)
          BY DEF ChatInv
        <4> QED
          BY <3>1, <4>1 DEF TaskOK, Live, Before, Edited
      <3> QED
        BY <2>1, <3>1 DEF AloneIn
    <2>2. CASE reply[c] # "nothing"
      <3>1. new.at = "done" /\ r = reply[c]
        BY <2>2, <1>3, <1>4, <1>5
      <3> QED
        BY <3>1 DEF Live, Before
    <2> QED
      BY <2>1, <2>2
  <1> QED
    BY <1>4, <1>5, <1>6, <1>9, <1>10, <1>11, OwnStep

\* The task of /case add up to its words.
LEMMA ResolvingInv ==
  ASSUME ChatInv, NEW d \in Deliveries,
         ResolveContext(d) \/ ResolveTemplate(d) \/ StoreFails(d) \/ TaskPanics(d)
  PROVE  ChatInv'
  <1>0. task[d].at \in Before \cup {"edit"} /\ task[d].at \in Live
    BY DEF ResolveContext, ResolveTemplate, StoreFails, TaskPanics, Before, Live
  <1>1. mishaps \in Nat /\ mishaps' \in Nat /\ mishaps' >= mishaps
    BY DEF ResolveContext, ResolveTemplate, StoreFails, TaskPanics, Mishap, ChatInv, ChatShapes
  <1>2. UNCHANGED <<reply, made>>
    BY DEF ResolveContext, ResolveTemplate, StoreFails, TaskPanics
  <1>3. CASE task[d].at \in Before /\ Saying(d, "sorry")
    <2>1. PICK c \in Commands : c = task[d].of
      BY <1>0, Alone
    <2>2. PICK m \in {0} : made' = [made EXCEPT ![c] = m]
      BY <1>0, <1>2, <1>3, <2>1, Alone DEF TaskOK, ChatInv, ChatShapes
    <2>3. PICK text \in {"sorry"} : Saying(d, text)
      BY <1>3
    <2>4. /\ m \in 0 .. 1 /\ text \in {"created", "sorry"}
          /\ text = "created" => m > 0
          /\ text = "sorry" /\ m > 0 => mishaps' > 0
      OBVIOUS
    <2>5. UNCHANGED reply /\ task[d].at \in Before
      BY <1>2, <1>3
    <2> QED
      BY <1>1, <2>1, <2>2, <2>3, <2>4, <2>5, TaskSays
  <1>4. CASE task[d].at \in Before /\ (Goto(d, "lookup") \/ Goto(d, "create"))
    <2>1. PICK at \in {"lookup", "create"} : Goto(d, at)
      BY <1>4
    <2>2. at \in Before /\ at \in {"done"} \cup Live /\ at # "edit" /\ at # "report"
      BY DEF Before, Live
    <2> QED
      BY <1>0, <1>1, <1>2, <1>4, <2>1, <2>2, TaskGoes
  <1>5. CASE Goto(d, "report") /\ mishaps' > 0
    <2>1. PICK at \in {"report"} : Goto(d, at)
      BY <1>5
    <2>2. at \notin Before /\ at \in {"done"} \cup Live /\ at # "edit"
      BY DEF Before, Live
    <2> QED
      BY <1>0, <1>1, <1>2, <1>5, <2>1, <2>2, TaskGoes
  <1> QED
    BY <1>1, <1>3, <1>4, <1>5
    DEF ResolveContext, ResolveTemplate, StoreFails, TaskPanics, Mishap, Before

\* The COMMIT of the case; an error may answer it.
LEMMA CommitInv == ASSUME ChatInv, NEW d \in Deliveries, CreateFromInteraction(d) PROVE ChatInv'
  <1>0. task[d].at \in Before /\ task[d].at \in Live
    BY DEF CreateFromInteraction, Before, Live
  <1>1. PICK c \in Commands : c = task[d].of
    BY <1>0, Alone
  <1>2. made[c] = 0 /\ mishaps \in Nat
    BY <1>0, <1>1, Alone DEF TaskOK
  <1>3. PICK m \in 0 .. 1 : /\ made' = [made EXCEPT ![c] = m]
                            /\ m = IF template = "enabled" THEN 1 ELSE 0
    <2>1. made' = [made EXCEPT ![c] = made[c] + IF template = "enabled" THEN 1 ELSE 0]
      BY <1>1 DEF CreateFromInteraction
    <2>2. CASE template = "enabled"
      BY <2>1, <2>2, <1>2
    <2>3. CASE template # "enabled"
      BY <2>1, <2>3, <1>2
    <2> QED
      BY <2>2, <2>3
  <1>4. /\ UNCHANGED reply /\ mishaps' \in Nat /\ mishaps' >= mishaps
        /\ \/ Saying(d, "created") /\ m > 0
           \/ Saying(d, "sorry") /\ (m > 0 => mishaps' > 0)
    BY <1>2, <1>3 DEF CreateFromInteraction, CreateAnswer, Mishap
  <1>5. PICK text \in {"created", "sorry"} : /\ Saying(d, text)
                                             /\ text = "created" => m > 0
                                             /\ text = "sorry" /\ m > 0 => mishaps' > 0
    BY <1>4
  <1> QED
    BY <1>0, <1>1, <1>3, <1>4, <1>5, TaskSays

\* The edits of a task: its words, and the last one of a task that failed.
LEMMA EditsInv ==
  ASSUME ChatInv, NEW d \in Deliveries, EditOriginal(d) \/ ReportUnfinished(d)
  PROVE  ChatInv'
  <1>0. task[d].at \in {"edit", "report"} /\ task[d].at \in Live
    BY DEF EditOriginal, ReportUnfinished, Live
  <1>1. PICK c \in Commands : c = task[d].of
    BY <1>0, Alone
  <1>2. /\ task[d] \in TaskType /\ TaskOK(d) /\ CommandOK(c)
        /\ reply[c] \in Replies /\ made[c] \in 0 .. 1 /\ mishaps \in Nat
        /\ AloneIn(d, c)
    BY <1>0, <1>1, Alone
  <1>3. PICK at \in {"done", "report"} : Goto(d, at) /\ (at = "report" => mishaps' > 0)
    BY <1>2 DEF EditOriginal, ReportUnfinished, Mishap
  <1>4. PICK new \in TaskType : task' = [task EXCEPT ![d] = new] /\ new.of = c /\ new.at = at
    <2>1. [task[d] EXCEPT !.at = at] \in TaskType
      BY <1>0, TaskMoves DEF ChatInv, Live, NotDelivered
    <2> QED
      BY <1>1, <1>2, <1>3, <2>1 DEF Goto, TaskType
  <1>5. /\ mishaps' \in Nat /\ mishaps' >= mishaps
        /\ made' = [made EXCEPT ![c] = made[c]] /\ made' = made
    BY <1>2 DEF EditOriginal, ReportUnfinished, Mishap, ChatInv, ChatShapes
  <1>6. PICK r \in Replies : /\ reply' = [reply EXCEPT ![c] = r]
                             /\ \/ r = reply[c]
                                \/ task[d].at = "edit" /\ r = task[d].says
                                \/ task[d].at = "report" /\ r = "unfinished"
    <2>1. CASE reply' = reply
      BY <1>2, <2>1 DEF ChatInv, ChatShapes
    <2>2. CASE task[d].at = "edit" /\ reply' = [reply EXCEPT ![c] = task[d].says]
      BY <1>2, <2>2 DEF TaskOK, Replies, Edited
    <2>3. CASE task[d].at = "report" /\ reply' = [reply EXCEPT ![c] = "unfinished"]
      BY <2>3 DEF Replies, Edited
    <2> QED
      BY <1>1, <2>1, <2>2, <2>3 DEF EditOriginal, ReportUnfinished
  <1>7. task'[d] = new /\ reply'[c] = r /\ made'[c] = made[c]
    BY <1>4, <1>5, <1>6 DEF ChatInv, ChatShapes
  <1>8. /\ reply[c] \in {"thinking"} \cup Edited /\ r \in {"thinking"} \cup Edited
        /\ task[d].at = "report" => mishaps > 0
    BY <1>0, <1>1, <1>2, <1>6 DEF TaskOK, Edited
  <1>9. TaskOK(d)'
    BY <1>3, <1>4, <1>7, <1>8 DEF TaskOK, Before
  <1>10. CommandOK(c)'
    BY <1>1, <1>2, <1>5, <1>6, <1>7, <1>8 DEF CommandOK, TaskOK, Immediate, Edited
  <1> QED
    BY <1>2, <1>4, <1>5, <1>6, <1>9, <1>10, OwnStep

\* The process ends with tasks under way: what was shown and made stays.
LEMMA ChatEndsInv == ChatInv /\ ProcessEnds => ChatInv'
  <1> SUFFICES ASSUME ChatInv, ProcessEnds PROVE ChatInv'
    OBVIOUS
  <1>1. UNCHANGED <<reply, made>> /\ mishaps \in Nat /\ mishaps' \in Nat /\ mishaps' > 0
    BY DEF ProcessEnds, Mishap, ChatInv, ChatShapes
  <1>2. ASSUME NEW d \in Deliveries
        PROVE  /\ task'[d] \in TaskType \cup {[at |-> "waiting"]}
               /\ task'[d].at \in {"waiting", "done"}
    <2>1. CASE NotDelivered(d)
      BY <2>1 DEF ProcessEnds, NotDelivered, ChatInv, ChatShapes
    <2>2. CASE ~NotDelivered(d)
      <3>1. task'[d] = [task[d] EXCEPT !.at = "done"] /\ task'[d] \in TaskType /\ task[d] \in TaskType
        BY <2>2, TaskMoves DEF ProcessEnds, ChatInv
      <3> QED
        BY <3>1 DEF TaskType
    <2> QED
      BY <2>1, <2>2
  <1>3. ChatShapes'
    BY <1>1, <1>2 DEF ChatInv, ChatShapes, ProcessEnds
  <1>4. OneTask' /\ \A d \in Deliveries : TaskOK(d)'
    BY <1>2 DEF OneTask, TaskOK, Live, Before
  <1>5. \A c \in Commands : CommandOK(c)'
    BY <1>1 DEF ChatInv, CommandOK
  <1> QED
    BY <1>3, <1>4, <1>5 DEF ChatInv

LEMMA ChatNextInv == ChatInv /\ [ChatNext]_chatVars => ChatInv'
  <1> SUFFICES ASSUME ChatInv, [ChatNext]_chatVars PROVE ChatInv'
    OBVIOUS
  <1>1. ASSUME NEW d \in Deliveries, NEW c \in Commands, NEW kind \in Kinds, NEW ok \in BOOLEAN,
               Deliver(d, c, kind, ok)
        PROVE  ChatInv'
    BY <1>1, ArrivalInv
  <1>2. ASSUME NEW d \in Deliveries, TaskStep(d) \/ StoreFails(d) \/ TaskPanics(d)
        PROVE  ChatInv'
    BY <1>2, HandlingInv, RespondInv, ResolvingInv, CommitInv, EditsInv DEF TaskStep
  <1>3. CASE TemplateChanges \/ UNCHANGED chatVars
    BY <1>3 DEF TemplateChanges, chatVars, ChatInv, ChatShapes, OneTask, TaskOK, CommandOK
  <1> QED
    BY <1>1, <1>2, <1>3, ChatEndsInv DEF ChatNext

\* What a moderator reads of a command is true: "created" stands on a case of
\* the store, a refusal on none, and an apology hides one only after a mishap.
THEOREM RepliesTellTruth == ChatSpec => []RepliesTellOutcome
  <1>1. ChatInv => RepliesTellOutcome
    BY DEF ChatInv, CommandOK, RepliesTellOutcome
  <1> QED
    BY <1>1, ChatInitInv, ChatNextInv, PTL DEF ChatSpec

\* However often Discord delivers an interaction, one task runs for it and one
\* case is made of it, behind a response that was shown.
THEOREM DeliveredOnce == ChatSpec => []OneCasePerInteraction
  <1>1. ChatInv => OneCasePerInteraction
    BY DEF ChatInv, ChatShapes, CommandOK, OneTask, Live, Before, OneCasePerInteraction
  <1> QED
    BY <1>1, ChatInitInv, ChatNextInv, PTL DEF ChatSpec
==============================================================================
