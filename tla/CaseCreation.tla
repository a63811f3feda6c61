---------------------------- MODULE CaseCreation ----------------------------
(***************************************************************************)
(* CaseService.Create (internal/quack/cases.go) over the store's           *)
(* WithGuildCaseLock and CreateCase (internal/store): requests that apply  *)
(* templates to members at the same time, while staff edit the templates.  *)
(*                                                                         *)
(* A request waits for the lock on its guild's row; its first read then    *)
(* fixes what its transaction sees (MySQL's REPEATABLE READ): the template *)
(* row, the levels, the counts. The case number is a locking read and sees *)
(* the latest commits. Case, event, action rows and audit entry commit     *)
(* together; the hint follows the commit; a refusal is audited after the   *)
(* rollback.                                                               *)
(*                                                                         *)
(* Abstracted: a staff edit is one commit that puts any template row in    *)
(* force (module Templates' concern); text, severity, context and metadata *)
(* of a case; its action rows, which are ActionEngine's plan.              *)
(***************************************************************************)
EXTENDS Escalation

CONSTANTS
    Creators,      \* concurrent calls of Create
    Guilds,
    Templates,     \* template ids
    GuildOf,       \* the guild of each template
    Members,       \* Discord users that cases are about
    Inputs,        \* what the creators may be asked, as functions to Requests
    TemplateRows,  \* states a template may get into: [version, usable, levels]
    Windows,       \* windows of their levels, and 0 for none
    Times,         \* readings of the clock
    MaxEdits,      \* bound on staff edits
    MaxFaults,     \* bound on store errors and crashes
    None

\* The input of a call, and whether its staff context permits case.create.
Requests == [guild : Guilds, template : Templates, target : Members, allowed : BOOLEAN]

\* Rows of case_templates with their levels, as the service lets them be.
Row == [version : Nat, usable : BOOLEAN, levels : Seq(Level)]

ASSUME CreationAssumption ==
    /\ GuildOf \in [Templates -> Guilds]
    /\ TemplateRows \in [Templates -> SUBSET Row]
    /\ \A t \in Templates : \A r \in TemplateRows[t] :
          /\ Accepted(r.levels) /\ Stored(r.levels)
          /\ \A i \in DOMAIN r.levels : r.levels[i].window \in Windows
    /\ Inputs \subseteq [Creators -> Requests]
    /\ 0 \in Windows /\ Windows \subseteq Nat
    /\ 0 \in Times /\ Times \subseteq Nat
    /\ MaxEdits \in Nat /\ MaxFaults \in Nat

VARIABLES
    request,   \* what each creator was asked
    pc,        \* where each creator is
    owner,     \* who holds the lock on a guild's row
    view,      \* what a creator's transaction sees of templates and cases
    draft,     \* the case a creator is about to write
    template,  \* committed template rows
    cases,     \* committed cases
    audits,    \* committed audit entries, as <<creator, result>>
    hints,     \* cases submitted to the queue, by creator
    clock,
    edits,     \* staff edits so far
    faults,    \* store errors and crashes so far
    inForce    \* ghost: template rows in force during a request

tables == <<template, cases>>
outside == <<template, clock, edits, faults, inForce>>
vars == <<request, pc, owner, view, draft, cases, audits, hints, outside>>

Init ==
    /\ request \in Inputs
    /\ pc = [c \in Creators |-> "idle"]
    /\ owner = [g \in Guilds |-> {}]
    /\ view = [c \in Creators |-> None]
    /\ draft = [c \in Creators |-> None]
    /\ template \in {f \in [Templates -> UNION {TemplateRows[t] : t \in Templates}] :
                      \A t \in Templates : f[t] \in TemplateRows[t] /\ f[t].version = 1}
    /\ cases = {}
    /\ audits = {}
    /\ hints = {}
    /\ clock = 0
    /\ edits = 0
    /\ faults = 0
    /\ inForce = [c \in Creators |-> {}]

GuildOfRequest(c) == request[c].guild

\* A case before it has its number, and after.
Draft ==
    [by : Creators, guild : Guilds, template : Templates, target : Members, number : Nat,
     version : Nat, level : Level, matched : Nat \ {0}, decided : Times, created : Times]
CaseRecord == {k \in Draft : k.number # 0}

InTransaction == {"read", "decide", "number", "commit"}
Ended == {"idle", "submit", "audit", "done"}

\* What a transaction may see.
View == [template : [Templates -> Row], cases : SUBSET CaseRecord]

TypeOK ==
    /\ request \in [Creators -> Requests]
    /\ pc \in [Creators -> {"lock"} \cup InTransaction \cup Ended]
    /\ owner \in [Guilds -> SUBSET Creators]
    /\ view \in [Creators -> View \cup {None}]
    /\ draft \in [Creators -> Draft \cup {None}]
    /\ template \in [Templates -> Row]
    /\ \A t \in Templates : template[t] \in TemplateRows[t]
    /\ cases \subseteq CaseRecord
    /\ audits \subseteq Creators \X {"success", "failure"}
    /\ hints \subseteq Creators
    /\ clock \in Times /\ edits \in 0 .. MaxEdits /\ faults \in 0 .. MaxFaults
    /\ inForce \in [Creators -> SUBSET Row]
-----------------------------------------------------------------------------
(* The environment                                                         *)

\* Update and Archive of TemplateService commit; requests under way see it or not.
Edit(t) ==
    /\ edits < MaxEdits
    /\ edits' = edits + 1
    /\ \E r \in TemplateRows[t] \ {template[t]} :
          /\ template' = [template EXCEPT ![t] = r]
          /\ inForce' = [c \in Creators |->
                            IF pc[c] \notin Ended /\ request[c].template = t
                            THEN inForce[c] \cup {r} ELSE inForce[c]]
    /\ UNCHANGED <<request, pc, owner, view, draft, cases, audits, hints, clock, faults>>

Tick ==
    /\ clock' \in {now \in Times : now > clock}
    /\ UNCHANGED <<request, pc, owner, view, draft, tables, audits, hints, edits, faults, inForce>>
-----------------------------------------------------------------------------
(* Locking and reading                                                     *)

Arrive(c) ==
    /\ pc[c] = "idle"
    /\ pc' = [pc EXCEPT ![c] = "lock"]
    /\ inForce' = [inForce EXCEPT ![c] = {template[request[c].template]}]
    /\ UNCHANGED <<request, owner, view, draft, tables, audits, hints, clock, edits, faults>>

\* SELECT ... FOR UPDATE of the guild's row.
NeverWaits(g) == TRUE
Free(g) == owner[g] = {}

Lock(c) ==
    /\ pc[c] = "lock"
    /\ Free(GuildOfRequest(c))
    /\ owner' = [owner EXCEPT ![GuildOfRequest(c)] = @ \cup {c}]
    /\ pc' = [pc EXCEPT ![c] = "read"]
    /\ UNCHANGED <<request, view, draft, cases, audits, hints, outside>>

\* The end of the transaction, committed or rolled back.
KeepsLock(c) ==
    /\ view' = [view EXCEPT ![c] = None]
    /\ draft' = [draft EXCEPT ![c] = None]
    /\ UNCHANGED owner

EndTransaction(c) ==
    /\ view' = [view EXCEPT ![c] = None]
    /\ draft' = [draft EXCEPT ![c] = None]
    /\ owner' = [owner EXCEPT ![GuildOfRequest(c)] = @ \ {c}]

\* A refusal of create: permission, validation or an unavailable template.
Refuse(c) ==
    /\ EndTransaction(c)
    /\ pc' = [pc EXCEPT ![c] = "audit"]

\* The checks of the input, and the first read of the transaction.
Read(c) ==
    /\ pc[c] = "read"
    /\ IF request[c].allowed
       THEN /\ view' = [view EXCEPT ![c] = [template |-> template, cases |-> cases]]
            /\ pc' = [pc EXCEPT ![c] = "decide"]
            /\ UNCHANGED <<owner, draft>>
       ELSE Refuse(c)
    /\ UNCHANGED <<request, cases, audits, hints, outside>>
-----------------------------------------------------------------------------
(* Deciding                                                                *)

\* GetCaseTemplateExpanded reads the row, then the levels; both by guild.
RowSeen(c) == view[c].template[request[c].template]
LatestLevels(c) == template[request[c].template].levels
LevelsSeen(c) == RowSeen(c).levels

Applies(c) ==
    /\ GuildOf[request[c].template] = GuildOfRequest(c)
    /\ RowSeen(c).usable

\* CountTemplateCasesForTarget: cases of this template and member since then.
Matching(history, r, since) ==
    {k \in history : /\ k.guild = r.guild /\ k.template = r.template
                     /\ k.target = r.target /\ k.created >= since}

\* One count for each window, ending now, with the case under way.
CountsAt(history, r, now) ==
    [w \in Windows |->
        Cardinality(Matching(history, r, IF w = 0 \/ w > now THEN 0 ELSE now - w)) + 1]

\* selectTemplateLevel and the snapshot of what it selected.
Decide(c) ==
    /\ pc[c] = "decide"
    /\ LET levels == LevelsSeen(c)
           counts == CountsAt(view[c].cases, request[c], clock)
           i == Select(levels, counts)
       IN  IF Applies(c) /\ i # 0
           THEN /\ draft' = [draft EXCEPT ![c] =
                      [by |-> c, guild |-> GuildOfRequest(c), number |-> 0,
                       template |-> request[c].template, target |-> request[c].target,
                       version |-> RowSeen(c).version, level |-> levels[i],
                       matched |-> Matched(levels[i], counts),
                       decided |-> clock, created |-> clock]]
                /\ pc' = [pc EXCEPT ![c] = "number"]
                /\ UNCHANGED <<owner, view>>
           ELSE Refuse(c)
    /\ UNCHANGED <<request, cases, audits, hints, outside>>
-----------------------------------------------------------------------------
(* Writing                                                                 *)

CasesOf(g) == {k \in cases : k.guild = g}
Highest0(ks) == IF ks = {} THEN 0 ELSE CHOOSE n \in {k.number : k \in ks} : \A k \in ks : k.number <= n

NextOfAll(g) == Highest0(cases) + 1
NextCaseNumber(g) == Highest0(CasesOf(g)) + 1

\* CreateCase takes the time and allocates the number in its own transaction.
Number(c) ==
    /\ pc[c] = "number"
    /\ draft' = [draft EXCEPT ![c].number = NextCaseNumber(GuildOfRequest(c)),
                              ![c].created = clock]
    /\ pc' = [pc EXCEPT ![c] = "commit"]
    /\ UNCHANGED <<request, owner, view, cases, audits, hints, outside>>

Faulty ==
    /\ faults < MaxFaults
    /\ faults' = faults + 1

\* Case, event, action rows and audit entry, under the unique index on guild
\* and number; a duplicate would be a StoreError. What committed may be answered
\* by an error: the request then ends, without a hint and not audited as failed.
AuditsToo(c) == audits' = audits \cup {<<c, "success">>}

Commit(c) ==
    /\ pc[c] = "commit"
    /\ ~\E k \in CasesOf(GuildOfRequest(c)) : k.number = draft[c].number
    /\ cases' = cases \cup {draft[c]}
    /\ AuditsToo(c)
    /\ EndTransaction(c)
    /\ \/ pc' = [pc EXCEPT ![c] = "submit"] /\ UNCHANGED faults
       \/ pc' = [pc EXCEPT ![c] = "done"] /\ Faulty
    /\ UNCHANGED <<request, hints, template, clock, edits, inForce>>

\* The hint, once WithGuildCaseLock has returned without an error.
InsideTransaction == {"commit", "submit"}
AfterCommit == {"submit"}

Submit(c) ==
    /\ pc[c] \in AfterCommit
    /\ hints' = hints \cup {c}
    /\ pc' = [pc EXCEPT ![c] = "done"]
    /\ UNCHANGED <<request, owner, view, draft, cases, audits, outside>>

\* The failure entry, outside of any transaction; its own error is ignored.
AuditFailure(c) ==
    /\ pc[c] = "audit"
    /\ audits' \in {audits, audits \cup {<<c, "failure">>}}
    /\ pc' = [pc EXCEPT ![c] = "done"]
    /\ UNCHANGED <<request, owner, view, draft, cases, hints, outside>>
-----------------------------------------------------------------------------
(* Faults                                                                  *)

\* A statement fails, the lock is not granted in time, or the request's
\* context ends: rolled back, and not audited.
StoreError(c) ==
    /\ Faulty
    /\ pc[c] \in {"lock"} \cup InTransaction
    /\ EndTransaction(c)
    /\ pc' = [pc EXCEPT ![c] = "done"]
    /\ UNCHANGED <<request, tables, audits, hints, clock, edits, inForce>>

\* The process ends: open transactions are rolled back, requests are gone.
Crash ==
    /\ Faulty
    /\ \E c \in Creators : pc[c] \notin {"idle", "done"}
    /\ pc' = [c \in Creators |-> IF pc[c] = "idle" THEN "idle" ELSE "done"]
    /\ owner' = [g \in Guilds |-> {}]
    /\ view' = [c \in Creators |-> None]
    /\ draft' = [c \in Creators |-> None]
    /\ UNCHANGED <<request, tables, audits, hints, clock, edits, inForce>>

Advance(c) == Read(c) \/ Decide(c) \/ Number(c) \/ Commit(c) \/ Submit(c) \/ AuditFailure(c)

Next ==
    \/ \E c \in Creators : Arrive(c) \/ Lock(c) \/ Advance(c) \/ StoreError(c)
    \/ \E t \in Templates : Edit(t)
    \/ Tick
    \/ Crash

Spec == Init /\ [][Next]_vars
-----------------------------------------------------------------------------
(* What it implements                                                      *)

\* A creation is pending until it commits or is refused.
StageOf(at) ==
    CASE at = "idle" -> "idle"
      [] at \in {"lock"} \cup InTransaction -> "pending"
      [] at = "submit" -> "recorded"
      [] at = "audit" -> "refused"
      [] at = "done" -> "over"

Register == INSTANCE CaseRegister WITH stage <- [c \in Creators |-> StageOf(pc[c])]

\* Locks, snapshots and separate reads are not to be seen from outside: every
\* creation is as if it had been made in one moment, its commit.
RegisterSpec == Register!Spec
-----------------------------------------------------------------------------
(* Properties                                                              *)

\* The cases of a guild are numbered 1, 2, ...: no number is used twice, and a
\* refused, failed or crashed creation leaves no gap.
NumbersGapless ==
    \A g \in Guilds : {k.number : k \in CasesOf(g)} = 1 .. Cardinality(CasesOf(g))

\* "The guild lock makes simultaneous cases observe a deterministic history"
\* (docs/architecture.md): each case was matched against exactly the cases with
\* smaller numbers, as if the guild's cases had been created one at a time.
EscalationSerial ==
    \A k \in cases :
        k.matched = Cardinality({j \in Matching(cases, k, 0) :
            /\ j.number <= k.number
            /\ k.level.window # 0 => j.created + k.level.window >= k.decided})

\* The policy a case captured is one template row, its version and its levels
\* together, that was in force while the request was under way: never a mix of
\* two edits, never one that was replaced before the request came.
PolicyInForce ==
    \A k \in cases : \E r \in inForce[k.by] :
        r.usable /\ r.version = k.version /\ \E i \in DOMAIN r.levels : r.levels[i] = k.level

\* Others learn what became of a request: a case has its success entry, and
\* nothing else has one; a request with a failure entry left no case; workers
\* are only told of cases they can read.
OutcomeIsTold ==
    \A c \in Creators :
        /\ <<c, "success">> \in audits <=> \E k \in cases : k.by = c
        /\ c \in hints => <<c, "success">> \in audits
        /\ <<c, "failure">> \in audits => <<c, "success">> \notin audits

\* The lock on a guild is held by the one request whose transaction is open, and
\* every way out of the transaction gives it back.
LockIsTransaction ==
    \A g \in Guilds :
        /\ owner[g] = {c \in Creators : GuildOfRequest(c) = g /\ pc[c] \in InTransaction}
        /\ Cardinality(owner[g]) <= 1
=============================================================================
