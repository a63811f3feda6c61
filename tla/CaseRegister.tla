---------------------------- MODULE CaseRegister ----------------------------
(***************************************************************************)
(* What creating a case promises to staff and members, without locks,      *)
(* transactions or snapshots:                                              *)
(*                                                                         *)
(*   - a creation is a single moment. It applies a policy that was in      *)
(*     force during the request, to all cases that the guild has at that   *)
(*     moment, with the level that the documentation promises;             *)
(*   - the case gets the guild's next number, and is on record with its    *)
(*     audit entry from that moment on;                                    *)
(*   - a request is refused only for a reason: it is not permitted, or a   *)
(*     policy in force during the request could not be applied;            *)
(*   - only what is on record is handed to the workers.                    *)
(*                                                                         *)
(* A request may be given up at any time before its moment, and then       *)
(* leaves nothing. CaseCreation implements this specification.             *)
(***************************************************************************)
EXTENDS Escalation

CONSTANTS Creators, Guilds, Templates, GuildOf, TemplateRows, Windows, Times

VARIABLES
    request,   \* what each creator was asked
    stage,     \* "idle", "pending", "recorded", "refused" or "over"
    template,  \* the policies in force
    clock,
    inForce,   \* the policies that have been in force during a request
    cases,
    audits,
    hints

policyVars == <<request, template, clock, inForce>>
registerVars == <<policyVars, stage, cases, audits, hints>>

Init ==
    /\ stage = [c \in Creators |-> "idle"]
    /\ template \in [Templates -> UNION {TemplateRows[t] : t \in Templates}]
    /\ clock = 0
    /\ inForce = [c \in Creators |-> {}]
    /\ cases = {} /\ audits = {} /\ hints = {}

Ask(c) ==
    /\ stage[c] = "idle"
    /\ stage' = [stage EXCEPT ![c] = "pending"]
    /\ inForce' = [inForce EXCEPT ![c] = {template[request[c].template]}]
    /\ UNCHANGED <<request, template, clock, cases, audits, hints>>

Edit(t) ==
    /\ \E r \in TemplateRows[t] :
          /\ template' = [template EXCEPT ![t] = r]
          /\ inForce' = [c \in Creators |-> inForce[c] \cup
                            (IF stage[c] = "pending" /\ request[c].template = t THEN {r} ELSE {})]
    /\ UNCHANGED <<request, clock, stage, cases, audits, hints>>

Tick ==
    /\ clock' \in {now \in Times : now > clock}
    /\ UNCHANGED <<request, template, inForce, stage, cases, audits, hints>>
-----------------------------------------------------------------------------
\* The cases of a request's member and template that are at most w old, or all
\* of them; and their number with the one under way, for each window.
Counting(r, w, now) ==
    {k \in cases : /\ k.guild = r.guild /\ k.template = r.template /\ k.target = r.target
                   /\ w # 0 => k.created + w >= now}
Counts(r, now) == [w \in Windows |-> Cardinality(Counting(r, w, now)) + 1]

CasesOfGuild(g) == {k \in cases : k.guild = g}

\* The level of policy r for c at a time, or 0.
LevelFor(c, r, now) == DocumentedLevel(r.levels, Counts(request[c], now))

Permitted(c) == request[c].allowed /\ GuildOf[request[c].template] = request[c].guild

\* The case of request c under policy r, decided at one time and dated a later one.
CaseOf(c, r, decided, created) ==
    LET level == r.levels[LevelFor(c, r, decided)] IN
    [by |-> c, guild |-> request[c].guild, template |-> request[c].template,
     target |-> request[c].target, number |-> Cardinality(CasesOfGuild(request[c].guild)) + 1,
     version |-> r.version, level |-> level,
     matched |-> Counts(request[c], decided)[level.window],
     decided |-> decided, created |-> created]

\* Its case is on record; the request goes on, or ends without a word.
Record(c) ==
    /\ stage[c] = "pending" /\ Permitted(c)
    /\ \E r \in inForce[c], decided, created \in Times :
          /\ decided <= created /\ created <= clock
          /\ r.usable /\ LevelFor(c, r, decided) # 0
          /\ cases' = cases \cup {CaseOf(c, r, decided, created)}
    /\ audits' = audits \cup {<<c, "success">>}
    /\ stage' \in {[stage EXCEPT ![c] = "recorded"], [stage EXCEPT ![c] = "over"]}
    /\ UNCHANGED <<policyVars, hints>>

Refuse(c) ==
    /\ stage[c] = "pending"
    /\ Permitted(c) => \E r \in inForce[c] : r.usable => LevelFor(c, r, clock) = 0
    /\ stage' = [stage EXCEPT ![c] = "refused"]
    /\ UNCHANGED <<policyVars, cases, audits, hints>>
-----------------------------------------------------------------------------
Tell(c) ==
    /\ stage[c] = "recorded"
    /\ hints' = hints \cup {c}
    /\ stage' = [stage EXCEPT ![c] = "over"]
    /\ UNCHANGED <<policyVars, cases, audits>>

TellRefusal(c) ==
    /\ stage[c] = "refused"
    /\ audits' \in {audits, audits \cup {<<c, "failure">>}}
    /\ stage' = [stage EXCEPT ![c] = "over"]
    /\ UNCHANGED <<policyVars, cases, hints>>

\* Requests end without a word; their cases, if any, stay.
GiveUp ==
    /\ \E gone \in SUBSET {c \in Creators : stage[c] # "idle"} :
          stage' = [c \in Creators |-> IF c \in gone THEN "over" ELSE stage[c]]
    /\ UNCHANGED <<policyVars, cases, audits, hints>>

Next ==
    \/ \E c \in Creators : Ask(c) \/ Record(c) \/ Refuse(c) \/ Tell(c) \/ TellRefusal(c)
    \/ \E t \in Templates : Edit(t)
    \/ Tick \/ GiveUp

Spec == Init /\ [][Next]_registerVars
=============================================================================
