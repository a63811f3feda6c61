------------------------- MODULE CaseCreationProofs -------------------------
(***************************************************************************)
(* Proofs about CaseCreation for every set of creators, guilds, templates  *)
(* and members, every set of template rows the service lets be, any clock, *)
(* and every number of staff edits, store errors and crashes.              *)
(***************************************************************************)
EXTENDS CaseCreation, EscalationProofs

-----------------------------------------------------------------------------
(* The inductive invariant                                                 *)

\* Transactions on one guild exclude each other.
Locked ==
    /\ \A g \in Guilds :
          owner[g] = {c \in Creators : GuildOfRequest(c) = g /\ pc[c] \in InTransaction}
    /\ \A c, d \in Creators :
          /\ pc[c] \in InTransaction /\ pc[d] \in InTransaction
          /\ GuildOfRequest(c) = GuildOfRequest(d)
          => c = d

\* The earlier cases that count for a case.
Within(k, history) ==
    {j \in Matching(history, k, 0) :
        k.level.window # 0 => j.created + k.level.window >= k.decided}

\* The policy that a case captured.
FromPolicy(k) ==
    \E r \in inForce[k.by] :
        r.usable /\ r.version = k.version /\ \E i \in DOMAIN r.levels : r.levels[i] = k.level

\* What a transaction sees of its template and of its guild's cases is still so.
Sees(c) ==
    /\ view[c] \in View
    /\ RowSeen(c) \in inForce[c] /\ RowSeen(c) \in TemplateRows[request[c].template]
    /\ {k \in view[c].cases : k.guild = GuildOfRequest(c)} = CasesOf(GuildOfRequest(c))

\* A draft is matched against the cases its guild has.
Drafted(c) ==
    /\ draft[c] \in Draft
    /\ draft[c].by = c /\ draft[c].guild = GuildOfRequest(c)
    /\ FromPolicy(draft[c])
    /\ draft[c].matched = Cardinality(Within(draft[c], cases)) + 1
    /\ draft[c].decided <= draft[c].created /\ draft[c].created <= clock

\* The number of a draft is the next one of its guild.
Numbered(c) == draft[c].number = Cardinality(CasesOf(GuildOfRequest(c))) + 1

Works(c) ==
    /\ pc[c] \notin Ended => template[request[c].template] \in inForce[c]
    /\ pc[c] = "decide" => Sees(c)
    /\ pc[c] \in {"number", "commit"} => Drafted(c)
    /\ pc[c] = "commit" => Numbered(c)

Working == \A c \in Creators : Works(c)

\* No entry and no case ahead of the step that writes it.
Told ==
    \A c \in Creators :
        /\ pc[c] \in {"idle", "lock", "audit"} \cup InTransaction => <<c, "success">> \notin audits
        /\ pc[c] \in {"idle", "lock", "submit"} \cup InTransaction => <<c, "failure">> \notin audits
        /\ pc[c] = "submit" => <<c, "success">> \in audits

Inv ==
    /\ TypeOK /\ Locked /\ Working /\ Told
    /\ IsFiniteSet(cases)
    /\ NumbersGapless /\ EscalationSerial /\ PolicyInForce /\ OutcomeIsTold

-----------------------------------------------------------------------------
(* What the operators return                                               *)

\* A creator's guild is a guild, and its template a template.
LEMMA RequestType ==
    ASSUME TypeOK, NEW c \in Creators
    PROVE  /\ GuildOfRequest(c) \in Guilds
           /\ request[c].template \in Templates
           /\ request[c].target \in Members
BY DEF TypeOK, GuildOfRequest, Requests

\* The cases of a guild, and those that count for a case, are finitely many.
LEMMA CasesFinite ==
    ASSUME IsFiniteSet(cases), NEW g, NEW k
    PROVE  /\ IsFiniteSet(CasesOf(g)) /\ Cardinality(CasesOf(g)) \in Nat
           /\ IsFiniteSet(Within(k, cases)) /\ Cardinality(Within(k, cases)) \in Nat
<1>1. CasesOf(g) \in SUBSET cases /\ Within(k, cases) \in SUBSET cases
  BY DEF CasesOf, Within, Matching
<1>2. IsFiniteSet(CasesOf(g)) /\ IsFiniteSet(Within(k, cases))
  BY <1>1, FS_Subset
<1>3. QED
  BY <1>2, FS_CardinalityType

\* Where numbers are gapless, the next one counts the cases.
LEMMA NextNumber ==
    ASSUME cases \subseteq CaseRecord, IsFiniteSet(cases), NumbersGapless, NEW g \in Guilds
    PROVE  NextCaseNumber(g) = Cardinality(CasesOf(g)) + 1
<1> DEFINE ks == CasesOf(g)
           numbers == {k.number : k \in ks}
<1>1. Cardinality(ks) \in Nat /\ numbers = 1 .. Cardinality(ks)
  BY CasesFinite DEF NumbersGapless
<1>2. CASE ks = {}
  <2>1. Cardinality(ks) = 0
    BY <1>2, FS_EmptySet
  <2>2. QED
    BY <1>2, <2>1 DEF NextCaseNumber, Highest0
<1>3. CASE ks # {}
  <2>1. Cardinality(ks) \in numbers
    <3>1. numbers # {}
      BY <1>3
    <3>2. QED
      BY <1>1, <3>1
  <2>2. \A n \in numbers : n <= Cardinality(ks) /\ n \in Nat
    BY <1>1
  <2>3. \A k \in ks : k.number \in numbers
    OBVIOUS
  <2>4. PICK k0 \in ks : k0.number = Cardinality(ks)
    BY <2>1
  <2> HIDE DEF numbers, ks
  <2>5. \A n \in numbers : (\A k \in ks : k.number <= n) => n = Cardinality(ks)
    BY <2>2, <2>4, <1>1
  <2>6. \A k \in ks : k.number <= Cardinality(ks)
    BY <2>2, <2>3
  <2>7. (CHOOSE n \in numbers : \A k \in ks : k.number <= n) = Cardinality(ks)
    BY <2>1, <2>5, <2>6
  <2>8. Highest0(ks) = Cardinality(ks)
    BY <1>3, <2>7 DEF Highest0, numbers
  <2>9. QED
    BY <2>8 DEF NextCaseNumber, ks
<1>4. QED
  BY <1>2, <1>3

\* The level that was selected for a request, and what it was matched against.
LEMMA SelectedLevel ==
    ASSUME Inv, NEW c \in Creators, pc[c] = "decide",
           NEW i, i = Select(LevelsSeen(c), CountsAt(view[c].cases, request[c], clock)), i # 0
    PROVE  /\ i \in DOMAIN LevelsSeen(c)
           /\ LevelsSeen(c)[i] \in Level
           /\ LevelsSeen(c)[i].window \in Windows
           /\ LevelsSeen(c)[i].isDefault => LevelsSeen(c)[i].window = 0
<1> DEFINE levels == LevelsSeen(c)
<1>1. RowSeen(c) \in TemplateRows[request[c].template] /\ request[c].template \in Templates
  BY RequestType DEF Inv, Working, Works, Sees
<1>2. /\ Accepted(levels) /\ Stored(levels)
      /\ \A n \in DOMAIN levels : levels[n].window \in Windows
  BY <1>1, CreationAssumption DEF LevelsSeen
<1> HIDE DEF levels
<1>3. i \in DOMAIN levels
  BY <1>2, SelectEnabled DEF EnabledAt, levels
<1>4. levels[i] \in Level /\ AcceptedLevel(levels[i])
  BY <1>2, <1>3, StoredLevel DEF Accepted
<1>5. QED
  BY <1>2, <1>3, <1>4 DEF levels, AcceptedLevel

\* The count over what the transaction sees is the count over the cases there
\* are.
LEMMA Counted ==
    ASSUME Inv, NEW c \in Creators, pc[c] = "decide",
           NEW i, i = Select(LevelsSeen(c), CountsAt(view[c].cases, request[c], clock)), i # 0,
           NEW k, k.guild = GuildOfRequest(c), k.template = request[c].template,
           k.target = request[c].target, k.level = LevelsSeen(c)[i], k.decided = clock
    PROVE  Matched(k.level, CountsAt(view[c].cases, request[c], clock))
             = Cardinality(Within(k, cases)) + 1
<1> DEFINE w == k.level.window
           since == IF w = 0 \/ w > clock THEN 0 ELSE clock - w
           seen == Matching(view[c].cases, request[c], since)
<1>1. w \in Windows /\ (k.level.isDefault => w = 0) /\ Windows \subseteq Nat
  BY SelectedLevel, CreationAssumption
<1>2. clock \in Nat
  BY CreationAssumption DEF Inv, TypeOK
<1>3. Matched(k.level, CountsAt(view[c].cases, request[c], clock)) = Cardinality(seen) + 1
  BY <1>1 DEF Matched, CountsAt
<1>4. /\ Sees(c)
      /\ request[c].guild = GuildOfRequest(c)
      /\ \A j \in cases : j.created \in Nat
  BY CreationAssumption DEF Inv, TypeOK, Working, Works, GuildOfRequest, CaseRecord, Draft
<1>5. ASSUME NEW j, j.guild = GuildOfRequest(c)
      PROVE  j \in view[c].cases <=> j \in cases
  BY <1>4, <1>5 DEF Sees, CasesOf
<1>6. ASSUME NEW j \in cases
      PROVE  j.created >= since <=> (w # 0 => j.created + w >= clock)
  <2>1. j.created \in Nat /\ w \in Nat
    BY <1>1, <1>4
  <2> HIDE DEF w
  <2>2. QED
    BY <1>2, <2>1
<1>7. \A j \in cases : j.created >= 0
  BY <1>4
<1> HIDE DEF since
<1>8. seen = Within(k, cases)
  BY <1>4, <1>5, <1>6, <1>7 DEF Within, Matching
<1>9. QED
  BY <1>3, <1>8

-----------------------------------------------------------------------------
(* The invariant holds at the start                                        *)

LEMMA InitInv == Init => Inv
<1> SUFFICES ASSUME Init PROVE Inv
  OBVIOUS
<1>1. IsFiniteSet(cases) /\ Cardinality(cases) = 0
  BY FS_EmptySet DEF Init
<1>2. TypeOK
  <2>1. /\ template \in [Templates -> Row]
        /\ \A t \in Templates : template[t] \in TemplateRows[t]
    BY CreationAssumption DEF Init
  <2>2. request \in [Creators -> Requests]
    BY CreationAssumption DEF Init
  <2>3. QED
    BY <2>1, <2>2, CreationAssumption DEF Init, TypeOK, Ended, InTransaction
<1>3. Locked /\ Working /\ Told
  BY DEF Init, Locked, Working, Works, Told, InTransaction, Ended
<1>4. NumbersGapless
  <2>1. \A g \in Guilds : CasesOf(g) = {}
    BY DEF Init, CasesOf
  <2>2. \A g \in Guilds : Cardinality(CasesOf(g)) = 0
    BY <2>1, FS_EmptySet
  <2>3. QED
    BY <2>1, <2>2 DEF NumbersGapless
<1>5. EscalationSerial /\ PolicyInForce /\ OutcomeIsTold
  BY DEF Init, EscalationSerial, PolicyInForce, OutcomeIsTold
<1>6. QED
  BY <1>1, <1>2, <1>3, <1>4, <1>5 DEF Inv

-----------------------------------------------------------------------------
(* Types and locks                                                         *)

\* Every way out of a transaction keeps the types of what it resets.
LEMMA EndTyped ==
    ASSUME TypeOK, NEW c \in Creators, EndTransaction(c)
    PROVE  /\ owner' \in [Guilds -> SUBSET Creators]
           /\ view' \in [Creators -> View \cup {None}]
           /\ draft' \in [Creators -> Draft \cup {None}]
BY DEF TypeOK, EndTransaction

\* What is drafted is a draft.
LEMMA DecideTyped ==
    ASSUME Inv, NEW c \in Creators, Decide(c), pc'[c] = "number"
    PROVE  /\ draft' = [draft EXCEPT ![c] = draft'[c]]
           /\ draft'[c] \in Draft
           /\ draft'[c].by = c /\ draft'[c].guild = GuildOfRequest(c)
           /\ draft'[c].decided = clock /\ draft'[c].created = clock
           /\ draft'[c].matched = Cardinality(Within(draft'[c], cases)) + 1
           /\ RowSeen(c).usable /\ draft'[c].version = RowSeen(c).version
           /\ \E i \in DOMAIN RowSeen(c).levels : RowSeen(c).levels[i] = draft'[c].level
           /\ UNCHANGED <<owner, view>>
<1> DEFINE levels == LevelsSeen(c)
           counts == CountsAt(view[c].cases, request[c], clock)
           i == Select(levels, counts)
           k == [by |-> c, guild |-> GuildOfRequest(c), number |-> 0,
                 template |-> request[c].template, target |-> request[c].target,
                 version |-> RowSeen(c).version, level |-> levels[i],
                 matched |-> Matched(levels[i], counts),
                 decided |-> clock, created |-> clock]
<1>1. TypeOK /\ pc[c] = "decide"
  BY DEF Inv, Decide
<1>2. ~Refuse(c)
  BY <1>1 DEF Refuse, TypeOK
<1>3. /\ Applies(c) /\ i # 0
      /\ draft' = [draft EXCEPT ![c] = k]
      /\ UNCHANGED <<owner, view>>
  BY <1>2 DEF Decide
<1>4. draft'[c] = k
  BY <1>1, <1>3 DEF TypeOK
<1>5. /\ i \in DOMAIN levels /\ levels[i] \in Level
      /\ levels = RowSeen(c).levels
  BY <1>1, <1>3, SelectedLevel DEF LevelsSeen
<1>6. Matched(levels[i], counts) = Cardinality(Within(k, cases)) + 1
  <2>1. /\ k.guild = GuildOfRequest(c) /\ k.template = request[c].template
        /\ k.target = request[c].target /\ k.level = levels[i] /\ k.decided = clock
    OBVIOUS
  <2> HIDE DEF k, i
  <2>2. i = Select(LevelsSeen(c), CountsAt(view[c].cases, request[c], clock))
    BY DEF i
  <2>3. QED
    BY <1>1, <1>3, <2>1, <2>2, Counted
<1>7. Matched(levels[i], counts) \in Nat \ {0}
  <2> HIDE DEF i, counts, levels, k
  <2>1. Cardinality(Within(k, cases)) \in Nat
    BY CasesFinite DEF Inv
  <2>2. QED
    BY <1>6, <2>1
<1>8. RowSeen(c).version \in Nat
  <2>1. RowSeen(c) \in Row
    BY <1>1, RequestType, CreationAssumption DEF Inv, Working, Works, Sees
  <2>2. QED
    BY <2>1 DEF Row
<1>9. clock \in Times
  BY <1>1 DEF TypeOK
<1>10. k \in Draft
  <2> HIDE DEF i, counts, levels
  <2>1. QED
    BY <1>1, <1>5, <1>7, <1>8, <1>9, RequestType DEF Draft
<1>11. /\ k.by = c /\ k.guild = GuildOfRequest(c) /\ k.decided = clock /\ k.created = clock
       /\ k.matched = Matched(levels[i], counts) /\ k.version = RowSeen(c).version
       /\ k.level = levels[i]
  OBVIOUS
<1>12. RowSeen(c).usable
  BY <1>3 DEF Applies
<1> HIDE DEF k, i, counts, levels
<1>13. QED
  BY <1>3, <1>4, <1>5, <1>6, <1>10, <1>11, <1>12

LEMMA StepTypeOK == Inv /\ [Next]_vars => TypeOK'
<1> SUFFICES ASSUME Inv, [Next]_vars PROVE TypeOK'
  OBVIOUS
<1>0. TypeOK
  BY DEF Inv
<1>1. ASSUME NEW c \in Creators, Arrive(c) PROVE TypeOK'
  <2>1. template[request[c].template] \in Row
    BY <1>0, RequestType DEF TypeOK
  <2>2. QED
    BY <1>0, <1>1, <2>1 DEF TypeOK, Arrive, tables
<1>2. ASSUME NEW c \in Creators, Lock(c) PROVE TypeOK'
  BY <1>0, <1>2, RequestType DEF TypeOK, Lock, outside, InTransaction
<1>3. ASSUME NEW c \in Creators, Read(c) PROVE TypeOK'
  <2>1. CASE request[c].allowed
    <3>1. [template |-> template, cases |-> cases] \in View
      BY <1>0 DEF TypeOK, View
    <3>2. QED
      BY <1>0, <1>3, <2>1, <3>1 DEF TypeOK, Read, outside, InTransaction
  <2>2. CASE ~request[c].allowed
    BY <1>0, <1>3, <2>2, EndTyped DEF TypeOK, Read, Refuse, outside, Ended
  <2>3. QED
    BY <2>1, <2>2
<1>4. ASSUME NEW c \in Creators, Decide(c) PROVE TypeOK'
  <2>1. CASE pc'[c] = "number"
    <3>1. pc' = [pc EXCEPT ![c] = "number"]
      BY <1>0, <1>4, <2>1 DEF Decide, Refuse, TypeOK
    <3>2. /\ draft' = [draft EXCEPT ![c] = draft'[c]] /\ draft'[c] \in Draft
          /\ UNCHANGED <<owner, view>>
      BY <1>4, <2>1, DecideTyped
    <3>3. draft' \in [Creators -> Draft \cup {None}]
      BY <1>0, <3>2 DEF TypeOK
    <3>4. UNCHANGED <<request, cases, audits, hints, template, clock, edits, faults, inForce>>
      BY <1>4 DEF Decide, outside
    <3>5. QED
      BY <1>0, <3>1, <3>2, <3>3, <3>4 DEF TypeOK, InTransaction
  <2>2. CASE pc'[c] # "number"
    <3>1. Refuse(c) /\ UNCHANGED <<request, cases, audits, hints, outside>>
      BY <1>0, <1>4, <2>2 DEF Decide, TypeOK
    <3>2. QED
      BY <1>0, <3>1, EndTyped DEF TypeOK, Refuse, outside, Ended
  <2>3. QED
    BY <2>1, <2>2
<1>5. ASSUME NEW c \in Creators, Number(c) PROVE TypeOK'
  <2>1. draft[c] \in Draft
    BY <1>5 DEF Inv, Working, Works, Number, Drafted
  <2>2. NextCaseNumber(GuildOfRequest(c)) \in Nat
    <3>1. GuildOfRequest(c) \in Guilds /\ cases \subseteq CaseRecord
      BY <1>0, RequestType DEF TypeOK
    <3>2. NextCaseNumber(GuildOfRequest(c)) = Cardinality(CasesOf(GuildOfRequest(c))) + 1
      BY <3>1, NextNumber DEF Inv
    <3>3. Cardinality(CasesOf(GuildOfRequest(c))) \in Nat
      BY CasesFinite DEF Inv
    <3>4. QED
      BY <3>2, <3>3
  <2>3. [draft[c] EXCEPT !.number = NextCaseNumber(GuildOfRequest(c)), !.created = clock] \in Draft
    BY <1>0, <2>1, <2>2 DEF TypeOK, Draft
  <2>4. draft' \in [Creators -> Draft \cup {None}]
    BY <1>0, <1>5, <2>3 DEF Number, TypeOK
  <2>5. QED
    BY <1>0, <1>5, <2>4 DEF TypeOK, Number, outside, InTransaction
<1>6. ASSUME NEW c \in Creators, Commit(c) PROVE TypeOK'
  <2>1. draft[c] \in CaseRecord
    <3>1. draft[c] \in Draft /\ Numbered(c)
      BY <1>6 DEF Inv, Working, Works, Commit, Drafted
    <3>2. QED
      BY <3>1, CasesFinite DEF Inv, Numbered, CaseRecord
  <2>2. QED
    BY <1>0, <1>6, <2>1, EndTyped, CreationAssumption DEF TypeOK, Commit, Faulty, AuditsToo, Ended
<1>7. ASSUME NEW c \in Creators, Submit(c) PROVE TypeOK'
  BY <1>0, <1>7 DEF TypeOK, Submit, outside, Ended
<1>8. ASSUME NEW c \in Creators, AuditFailure(c) PROVE TypeOK'
  BY <1>0, <1>8 DEF TypeOK, AuditFailure, outside, Ended
<1>9. ASSUME NEW c \in Creators, StoreError(c) PROVE TypeOK'
  BY <1>0, <1>9, EndTyped, CreationAssumption DEF TypeOK, StoreError, Faulty, tables, Ended
<1>10. ASSUME NEW t \in Templates, Edit(t) PROVE TypeOK'
  <2>1. PICK r \in TemplateRows[t] :
          /\ template' = [template EXCEPT ![t] = r]
          /\ inForce' = [c \in Creators |->
                            IF pc[c] \notin Ended /\ request[c].template = t
                            THEN inForce[c] \cup {r} ELSE inForce[c]]
    BY <1>10 DEF Edit
  <2>2. r \in Row
    BY CreationAssumption
  <2>3. QED
    BY <1>0, <1>10, <2>1, <2>2, CreationAssumption DEF TypeOK, Edit
<1>11. CASE Tick
  BY <1>0, <1>11 DEF TypeOK, Tick, tables
<1>12. CASE Crash
  BY <1>0, <1>12, CreationAssumption DEF TypeOK, Crash, Faulty, tables, Ended
<1>13. CASE UNCHANGED vars
  BY <1>0, <1>13 DEF TypeOK, vars, outside
<1>14. QED
  BY <1>1, <1>2, <1>3, <1>4, <1>5, <1>6, <1>7, <1>8, <1>9, <1>10, <1>11, <1>12, <1>13
  DEF Next, Advance

\* Leaving a transaction gives its lock back and disturbs no other.
LEMMA EndLocked ==
    ASSUME TypeOK, Locked, NEW c \in Creators, EndTransaction(c),
           NEW s, s \notin InTransaction, pc' = [pc EXCEPT ![c] = s], UNCHANGED request
    PROVE  Locked'
<1>1. \A d \in Creators : pc'[d] \in InTransaction <=> d # c /\ pc[d] \in InTransaction
  BY DEF TypeOK
<1>2. \A d \in Creators : GuildOfRequest(d)' = GuildOfRequest(d)
  BY DEF GuildOfRequest
<1>3. ASSUME NEW g \in Guilds
      PROVE  owner'[g] = {d \in Creators : GuildOfRequest(d) = g /\ pc'[d] \in InTransaction}
  <2>1. owner'[g] = IF g = GuildOfRequest(c) THEN owner[g] \ {c} ELSE owner[g]
    BY RequestType DEF EndTransaction, TypeOK
  <2>2. QED
    BY <1>1, <2>1 DEF Locked
<1>4. QED
  BY <1>1, <1>2, <1>3 DEF Locked

\* Steps inside and outside of a transaction leave the locks alone.
LEMMA SameLocked ==
    ASSUME Locked, UNCHANGED <<owner, request>>,
           \A d \in Creators : pc'[d] \in InTransaction <=> pc[d] \in InTransaction
    PROVE  Locked'
BY DEF Locked, GuildOfRequest

LEMMA StepLocked == Inv /\ [Next]_vars => Locked'
<1> SUFFICES ASSUME Inv, [Next]_vars PROVE Locked'
  OBVIOUS
<1>0. TypeOK /\ Locked
  BY DEF Inv
<1>1. ASSUME NEW c \in Creators, Arrive(c) PROVE Locked'
  BY <1>0, <1>1, SameLocked DEF Arrive, TypeOK, InTransaction
<1>2. ASSUME NEW c \in Creators, Lock(c) PROVE Locked'
  <2> DEFINE g == GuildOfRequest(c)
  <2>1. g \in Guilds /\ owner[g] = {}
    BY <1>0, <1>2, RequestType DEF Lock, Free
  <2>2. \A d \in Creators : pc[d] \in InTransaction => GuildOfRequest(d) # g
    BY <1>0, <2>1 DEF Locked
  <2>3. \A d \in Creators : pc'[d] \in InTransaction <=> d = c \/ pc[d] \in InTransaction
    BY <1>0, <1>2 DEF Lock, TypeOK, InTransaction
  <2>4. /\ owner' = [owner EXCEPT ![g] = {c}]
        /\ \A d \in Creators : GuildOfRequest(d)' = GuildOfRequest(d)
    BY <1>2, <2>1 DEF Lock, GuildOfRequest
  <2> HIDE DEF g
  <2>5. \A h \in Guilds :
           owner'[h] = {d \in Creators : GuildOfRequest(d) = h /\ pc'[d] \in InTransaction}
    BY <1>0, <2>1, <2>2, <2>3, <2>4 DEF Locked, TypeOK, g
  <2>6. QED
    BY <1>0, <2>2, <2>3, <2>4, <2>5 DEF Locked, g
<1>3. ASSUME NEW c \in Creators, Read(c) PROVE Locked'
  <2>1. CASE request[c].allowed
    BY <1>0, <1>3, <2>1, SameLocked DEF Read, TypeOK, InTransaction
  <2>2. CASE ~request[c].allowed
    BY <1>0, <1>3, <2>2, EndLocked DEF Read, Refuse, InTransaction
  <2>3. QED
    BY <2>1, <2>2
<1>4. ASSUME NEW c \in Creators, Decide(c) PROVE Locked'
  <2>1. CASE Refuse(c)
    BY <1>0, <1>4, <2>1, EndLocked DEF Decide, Refuse, InTransaction
  <2>2. CASE pc' = [pc EXCEPT ![c] = "number"] /\ UNCHANGED owner
    BY <1>0, <1>4, <2>2, SameLocked DEF Decide, TypeOK, InTransaction
  <2>3. QED
    BY <1>4, <2>1, <2>2 DEF Decide
<1>5. ASSUME NEW c \in Creators, Number(c) PROVE Locked'
  BY <1>0, <1>5, SameLocked DEF Number, TypeOK, InTransaction
<1>6. ASSUME NEW c \in Creators, Commit(c) PROVE Locked'
  BY <1>0, <1>6, EndLocked DEF Commit, InTransaction
<1>7. ASSUME NEW c \in Creators, Submit(c) PROVE Locked'
  BY <1>0, <1>7, SameLocked DEF Submit, AfterCommit, TypeOK, InTransaction
<1>8. ASSUME NEW c \in Creators, AuditFailure(c) PROVE Locked'
  BY <1>0, <1>8, SameLocked DEF AuditFailure, TypeOK, InTransaction
<1>9. ASSUME NEW c \in Creators, StoreError(c) PROVE Locked'
  BY <1>0, <1>9, EndLocked DEF StoreError, InTransaction
<1>10. ASSUME NEW t \in Templates, Edit(t) PROVE Locked'
  BY <1>0, <1>10, SameLocked DEF Edit
<1>11. CASE Tick
  BY <1>0, <1>11, SameLocked DEF Tick
<1>12. CASE Crash
  <2>1. /\ \A d \in Creators : pc'[d] \notin InTransaction
        /\ \A g \in Guilds : owner'[g] = {}
    BY <1>12 DEF Crash, InTransaction
  <2>2. QED
    BY <2>1 DEF Locked
<1>13. CASE UNCHANGED vars
  BY <1>0, <1>13, SameLocked DEF vars
<1>14. QED
  BY <1>1, <1>2, <1>3, <1>4, <1>5, <1>6, <1>7, <1>8, <1>9, <1>10, <1>11, <1>12, <1>13
  DEF Next, Advance

-----------------------------------------------------------------------------
(* What others are told                                                    *)

\* A step that writes no case, entry or hint, and moves requests towards an
\* ending they may have.
LEMMA QuietTold ==
    ASSUME Told, OutcomeIsTold, UNCHANGED <<cases, audits, hints>>,
           \A d \in Creators :
               \/ pc'[d] = pc[d]
               \/ /\ pc[d] \in {"idle", "lock"} \cup InTransaction
                  /\ pc'[d] \in {"lock", "audit"} \cup InTransaction
               \/ pc'[d] = "done"
    PROVE  Told' /\ OutcomeIsTold'
BY DEF Told, OutcomeIsTold, InTransaction

LEMMA StepTold == Inv /\ [Next]_vars => Told' /\ OutcomeIsTold'
<1> SUFFICES ASSUME Inv, [Next]_vars PROVE Told' /\ OutcomeIsTold'
  OBVIOUS
<1>0. TypeOK /\ Told /\ OutcomeIsTold
  BY DEF Inv
<1>1. ASSUME NEW c \in Creators, Arrive(c) PROVE Told' /\ OutcomeIsTold'
  BY <1>0, <1>1, QuietTold DEF Arrive, tables, TypeOK
<1>2. ASSUME NEW c \in Creators, Lock(c) PROVE Told' /\ OutcomeIsTold'
  BY <1>0, <1>2, QuietTold DEF Lock, TypeOK, InTransaction
<1>3. ASSUME NEW c \in Creators, Read(c) PROVE Told' /\ OutcomeIsTold'
  BY <1>0, <1>3, QuietTold DEF Read, Refuse, TypeOK, InTransaction
<1>4. ASSUME NEW c \in Creators, Decide(c) PROVE Told' /\ OutcomeIsTold'
  <2>1. pc' = [pc EXCEPT ![c] = "number"] \/ pc' = [pc EXCEPT ![c] = "audit"]
    BY <1>4 DEF Decide, Refuse
  <2>2. UNCHANGED <<cases, audits, hints>> /\ pc[c] = "decide"
    BY <1>4 DEF Decide
  <2>3. QED
    BY <1>0, <2>1, <2>2, QuietTold DEF TypeOK, InTransaction
<1>5. ASSUME NEW c \in Creators, Number(c) PROVE Told' /\ OutcomeIsTold'
  BY <1>0, <1>5, QuietTold DEF Number, TypeOK, InTransaction
<1>6. ASSUME NEW c \in Creators, Commit(c) PROVE Told' /\ OutcomeIsTold'
  <2>1. draft[c].by = c
    BY <1>6 DEF Inv, Working, Works, Commit, Drafted
  <2>2. /\ cases' = cases \cup {draft[c]} /\ audits' = audits \cup {<<c, "success">>}
        /\ UNCHANGED hints
        /\ pc[c] = "commit"
        /\ pc' = [pc EXCEPT ![c] = "submit"] \/ pc' = [pc EXCEPT ![c] = "done"]
    BY <1>6 DEF Commit, AuditsToo
  <2>3. /\ \A d \in Creators : <<d, "success">> \in audits' <=> d = c \/ <<d, "success">> \in audits
        /\ \A d \in Creators : <<d, "failure">> \in audits' <=> <<d, "failure">> \in audits
        /\ \A d \in Creators : (\E k \in cases' : k.by = d) <=> d = c \/ \E k \in cases : k.by = d
    BY <2>1, <2>2
  <2>4. pc'[c] \in {"submit", "done"} /\ \A d \in Creators : d # c => pc'[d] = pc[d]
    BY <1>0, <2>2 DEF TypeOK
  <2>5. <<c, "failure">> \notin audits
    BY <1>0, <2>2 DEF Told, InTransaction
  <2>6. ASSUME NEW d \in Creators
        PROVE  /\ pc'[d] \in {"idle", "lock", "audit"} \cup InTransaction
                     => <<d, "success">> \notin audits'
               /\ pc'[d] \in {"idle", "lock", "submit"} \cup InTransaction
                     => <<d, "failure">> \notin audits'
               /\ pc'[d] = "submit" => <<d, "success">> \in audits'
    <3>1. CASE d = c
      BY <2>3, <2>4, <2>5, <3>1 DEF InTransaction
    <3>2. CASE d # c
      BY <1>0, <2>3, <2>4, <3>2 DEF Told
    <3>3. QED
      BY <3>1, <3>2
  <2>7. Told'
    BY <2>6 DEF Told, InTransaction
  <2>8. OutcomeIsTold'
    BY <1>0, <2>2, <2>3, <2>5 DEF OutcomeIsTold
  <2>9. QED
    BY <2>7, <2>8
<1>7. ASSUME NEW c \in Creators, Submit(c) PROVE Told' /\ OutcomeIsTold'
  BY <1>0, <1>7 DEF Told, OutcomeIsTold, Submit, AfterCommit, TypeOK, InTransaction
<1>8. ASSUME NEW c \in Creators, AuditFailure(c) PROVE Told' /\ OutcomeIsTold'
  <2>1. <<c, "success">> \notin audits
    BY <1>0, <1>8 DEF Told, AuditFailure
  <2>2. /\ audits' \in {audits, audits \cup {<<c, "failure">>}}
        /\ UNCHANGED <<cases, hints>>
        /\ pc' = [pc EXCEPT ![c] = "done"]
    BY <1>8 DEF AuditFailure
  <2>3. /\ \A d \in Creators : <<d, "success">> \in audits' <=> <<d, "success">> \in audits
        /\ \A d \in Creators : <<d, "failure">> \in audits' => d = c \/ <<d, "failure">> \in audits
    BY <2>2
  <2>4. \A d \in Creators : pc'[d] = IF d = c THEN "done" ELSE pc[d]
    BY <1>0, <2>2 DEF TypeOK
  <2>5. ASSUME NEW d \in Creators
        PROVE  /\ pc'[d] \in {"idle", "lock", "audit"} \cup InTransaction
                     => <<d, "success">> \notin audits'
               /\ pc'[d] \in {"idle", "lock", "submit"} \cup InTransaction
                     => <<d, "failure">> \notin audits'
               /\ pc'[d] = "submit" => <<d, "success">> \in audits'
    <3>1. CASE d = c
      BY <2>4, <3>1 DEF InTransaction
    <3>2. CASE d # c
      BY <1>0, <2>3, <2>4, <3>2 DEF Told
    <3>3. QED
      BY <3>1, <3>2
  <2>6. OutcomeIsTold'
    BY <1>0, <2>1, <2>2, <2>3 DEF OutcomeIsTold
  <2>7. Told'
    BY <2>5 DEF Told, InTransaction
  <2>8. QED
    BY <2>6, <2>7
<1>9. ASSUME NEW c \in Creators, StoreError(c) PROVE Told' /\ OutcomeIsTold'
  BY <1>0, <1>9, QuietTold DEF StoreError, tables, TypeOK
<1>10. ASSUME NEW t \in Templates, Edit(t) PROVE Told' /\ OutcomeIsTold'
  BY <1>0, <1>10, QuietTold DEF Edit
<1>11. CASE Tick
  BY <1>0, <1>11, QuietTold DEF Tick, tables
<1>12. CASE Crash
  BY <1>0, <1>12, QuietTold DEF Crash, tables
<1>13. CASE UNCHANGED vars
  BY <1>0, <1>13, QuietTold DEF vars
<1>14. QED
  BY <1>1, <1>2, <1>3, <1>4, <1>5, <1>6, <1>7, <1>8, <1>9, <1>10, <1>11, <1>12, <1>13
  DEF Next, Advance

-----------------------------------------------------------------------------
(* What the requests under way rely on                                     *)

\* Within looks at one guild only.
LEMMA WithinSame ==
    ASSUME NEW k, NEW before, NEW after,
           \A j : j.guild = k.guild => (j \in before <=> j \in after)
    PROVE  Within(k, before) = Within(k, after)
BY DEF Within, Matching

\* A request keeps what it relies on through the steps of others: its template
\* may be edited and the clock may run, its guild's cases stay.
LEMMA OthersWork ==
    ASSUME Inv, NEW d \in Creators, UNCHANGED request,
           pc'[d] = pc[d], view'[d] = view[d], draft'[d] = draft[d],
           inForce[d] \subseteq inForce'[d],
           pc[d] \notin Ended => template'[request[d].template] \in inForce'[d],
           clock' \in Times, clock <= clock',
           pc[d] \in InTransaction =>
               \A k : k.guild = GuildOfRequest(d) => (k \in cases' <=> k \in cases)
    PROVE  Works(d)'
<1> DEFINE g == GuildOfRequest(d)
<1>0. GuildOfRequest(d)' = g
  BY DEF GuildOfRequest
<1>1. Works(d)
  BY DEF Inv, Working
<1>2. pc[d] \in InTransaction => CasesOf(g)' = CasesOf(g)
  BY <1>0 DEF CasesOf
<1>3. (pc[d] \notin Ended => template[request[d].template] \in inForce[d])'
  BY DEF Ended
<1>4. (pc[d] = "decide" => Sees(d))'
  <2>1. HAVE pc'[d] = "decide"
  <2>2. Sees(d) /\ CasesOf(g)' = CasesOf(g)
    BY <1>1, <1>2, <2>1 DEF Works, InTransaction
  <2> HIDE DEF g
  <2>3. RowSeen(d)' = RowSeen(d)
    BY DEF RowSeen
  <2>4. QED
    BY <1>0, <2>2, <2>3 DEF Sees, g
<1>5. (pc[d] \in {"number", "commit"} => Drafted(d))'
  <2>1. HAVE pc'[d] \in {"number", "commit"}
  <2>2. Drafted(d)
    BY <1>1, <2>1 DEF Works
  <2>3. FromPolicy(draft[d])'
    BY <2>2 DEF Drafted, FromPolicy
  <2>4. Within(draft[d], cases') = Within(draft[d], cases)
    BY <2>1, <2>2, WithinSame DEF Drafted, InTransaction
  <2>5. draft[d].created <= clock'
    <3>1. draft[d].created \in Nat /\ clock \in Nat /\ clock' \in Nat
      BY <2>2, CreationAssumption DEF Drafted, Draft, Inv, TypeOK
    <3>2. QED
      BY <2>2, <3>1 DEF Drafted
  <2>6. QED
    BY <1>0, <2>2, <2>3, <2>4, <2>5 DEF Drafted
<1>6. (pc[d] = "commit" => Numbered(d))'
  <2>1. HAVE pc'[d] = "commit"
  <2>2. Numbered(d) /\ CasesOf(g)' = CasesOf(g)
    BY <1>1, <1>2, <2>1 DEF Works, InTransaction
  <2> HIDE DEF g
  <2>3. QED
    BY <1>0, <2>2 DEF Numbered, g
<1>7. QED
  BY <1>3, <1>4, <1>5, <1>6 DEF Works

\* While one request is in a transaction, what another one commits is a case of
\* another guild.
LEMMA CommitElsewhere ==
    ASSUME Inv, NEW c \in Creators, Commit(c), NEW d \in Creators, d # c, pc[d] \in InTransaction
    PROVE  \A k : k.guild = GuildOfRequest(d) => (k \in cases' <=> k \in cases)
<1>1. GuildOfRequest(c) # GuildOfRequest(d)
  BY DEF Inv, Locked, Commit, InTransaction
<1>2. draft[c].guild = GuildOfRequest(c)
  BY DEF Inv, Working, Works, Commit, Drafted
<1>3. QED
  BY <1>1, <1>2 DEF Commit

\* A number and a later creation time leave the rest of a draft as it was.
LEMMA NumberWorks ==
    ASSUME Inv, NEW c \in Creators, Number(c)
    PROVE  Works(c)'
<1> DEFINE g == GuildOfRequest(c)
           k == draft'[c]
<1>0. TypeOK /\ Drafted(c) /\ pc'[c] = "commit"
  BY DEF Inv, Working, Works, Number, TypeOK
<1>1. /\ draft[c] \in Draft /\ draft[c].by = c /\ draft[c].guild = g
      /\ k = [draft[c] EXCEPT !.number = NextCaseNumber(g), !.created = clock]
  BY <1>0 DEF Number, Drafted, TypeOK
<1>2. g \in Guilds /\ cases \subseteq CaseRecord
  BY <1>0, RequestType DEF TypeOK
<1>3. /\ Cardinality(CasesOf(g)) \in Nat
      /\ NextCaseNumber(g) = Cardinality(CasesOf(g)) + 1
  BY <1>2, CasesFinite, NextNumber DEF Inv
<1>4. clock \in Times /\ clock \in Nat
  BY <1>0, CreationAssumption DEF TypeOK
<1> HIDE DEF k, g
<1>5. k \in Draft
  <2>1. NextCaseNumber(g) \in Nat
    BY <1>3
  <2>2. [draft[c] EXCEPT !.number = NextCaseNumber(g), !.created = clock] \in Draft
    BY <1>1, <1>4, <2>1 DEF Draft
  <2>3. QED
    BY <1>1, <2>2
<1>6. /\ k.by = c /\ k.guild = g
      /\ k.number = Cardinality(CasesOf(g)) + 1 /\ k.created = clock
      /\ k.version = draft[c].version /\ k.level = draft[c].level
      /\ k.template = draft[c].template /\ k.target = draft[c].target
      /\ k.matched = draft[c].matched /\ k.decided = draft[c].decided
  BY <1>1, <1>3, <1>4 DEF Draft
<1>7. Within(k, cases) = Within(draft[c], cases)
  BY <1>1, <1>6 DEF Within, Matching
<1>8. k.decided <= k.created /\ k.created <= clock
  <2>1. draft[c].decided \in Nat /\ draft[c].created \in Nat
    BY <1>1, CreationAssumption DEF Draft
  <2>2. QED
    BY <1>0, <1>4, <1>6, <2>1 DEF Drafted
<1>9. /\ UNCHANGED <<request, cases, clock, inForce, template>>
      /\ g' = g
  BY DEF Number, outside, g, GuildOfRequest
<1>10. FromPolicy(k)
  <2>1. FromPolicy(draft[c])
    BY <1>0 DEF Drafted
  <2>2. QED
    BY <1>1, <1>6, <2>1 DEF FromPolicy
<1>11. Drafted(c)'
  <2>1. k.matched = Cardinality(Within(k, cases)) + 1
    BY <1>0, <1>6, <1>7 DEF Drafted
  <2>2. QED
    BY <1>5, <1>6, <1>8, <1>9, <1>10, <2>1 DEF Drafted, FromPolicy, Within, Matching, k, g
<1>12. Numbered(c)'
  BY <1>6, <1>9 DEF Numbered, CasesOf, k, g
<1>13. template'[request'[c].template] \in inForce'[c]
  BY <1>9 DEF Inv, Working, Works, Number, Ended
<1>14. QED
  BY <1>0, <1>11, <1>12, <1>13 DEF Works

LEMMA StepWorking == Inv /\ [Next]_vars => Working'
<1> SUFFICES ASSUME Inv, [Next]_vars PROVE Working'
  OBVIOUS
<1>0. TypeOK /\ Working
  BY DEF Inv
<1>a. clock \in Times /\ clock <= clock
  BY <1>0, CreationAssumption DEF TypeOK
<1>b. \A d \in Creators : pc[d] \notin Ended => template[request[d].template] \in inForce[d]
  BY <1>0 DEF Working, Works
\* Steps of one creator that touch no table.
<1>c. ASSUME NEW c \in Creators,
             UNCHANGED <<request, cases, template, clock>>,
             \A d \in Creators \ {c} :
                pc'[d] = pc[d] /\ view'[d] = view[d] /\ draft'[d] = draft[d] /\ inForce'[d] = inForce[d],
             Works(c)'
      PROVE  Working'
  <2>1. ASSUME NEW d \in Creators, d # c PROVE Works(d)'
    BY <1>a, <1>b, <1>c, <2>1, OthersWork
  <2>2. QED
    BY <1>c, <2>1 DEF Working
\* A creator that has left its transaction, or never had one.
<1>d. ASSUME NEW c \in Creators, pc'[c] \in Ended PROVE Works(c)'
  BY <1>d DEF Works, Ended
<1>1. ASSUME NEW c \in Creators, Arrive(c) PROVE Working'
  <2>1. Works(c)'
    BY <1>0, <1>1 DEF Arrive, Works, TypeOK, tables
  <2>2. QED
    BY <1>0, <1>1, <1>c, <2>1 DEF Arrive, TypeOK, tables
<1>2. ASSUME NEW c \in Creators, Lock(c) PROVE Working'
  <2>1. Works(c)'
    BY <1>0, <1>2, <1>b DEF Lock, Works, TypeOK, outside, Ended
  <2>2. QED
    BY <1>0, <1>2, <1>c, <2>1 DEF Lock, TypeOK, outside
<1>3. ASSUME NEW c \in Creators, Read(c) PROVE Working'
  <2>1. CASE request[c].allowed
    <3>1. /\ pc'[c] = "decide" /\ view'[c] = [template |-> template, cases |-> cases]
          /\ pc[c] = "read" /\ UNCHANGED <<request, cases, template, inForce>>
      BY <1>0, <1>3, <2>1 DEF Read, TypeOK, outside
    <3>2. Sees(c)'
      <4>1. view'[c] \in View
        BY <1>0, <3>1 DEF View, TypeOK
      <4>2. /\ RowSeen(c)' = template[request[c].template]
            /\ template[request[c].template] \in inForce[c]
            /\ template[request[c].template] \in TemplateRows[request[c].template]
        BY <1>0, <1>b, <3>1, RequestType DEF RowSeen, Ended, TypeOK
      <4>3. QED
        BY <3>1, <4>1, <4>2 DEF Sees, CasesOf, GuildOfRequest
    <3>3. Works(c)'
      BY <1>b, <3>1, <3>2 DEF Works, Ended
    <3>4. QED
      BY <1>0, <1>3, <1>c, <2>1, <3>3 DEF Read, TypeOK, outside
  <2>2. CASE ~request[c].allowed
    <3>1. Works(c)'
      BY <1>0, <1>3, <1>d, <2>2 DEF Read, Refuse, TypeOK, Ended
    <3>2. QED
      BY <1>0, <1>3, <1>c, <2>2, <3>1 DEF Read, Refuse, EndTransaction, TypeOK, outside
  <2>3. QED
    BY <2>1, <2>2
<1>4. ASSUME NEW c \in Creators, Decide(c) PROVE Working'
  <2>0. pc[c] = "decide" /\ UNCHANGED <<request, cases, template, clock, inForce>>
    BY <1>4 DEF Decide, outside
  <2>1. CASE Refuse(c)
    <3>1. Works(c)'
      BY <1>0, <1>d, <2>1 DEF Refuse, TypeOK, Ended
    <3>2. QED
      BY <1>0, <1>c, <2>0, <2>1, <3>1 DEF Refuse, EndTransaction, TypeOK
  <2>2. CASE pc' = [pc EXCEPT ![c] = "number"]
    <3>1. pc'[c] = "number"
      BY <1>0, <2>2 DEF TypeOK
    <3>2. /\ draft' = [draft EXCEPT ![c] = draft'[c]]
          /\ draft'[c] \in Draft
          /\ draft'[c].by = c /\ draft'[c].guild = GuildOfRequest(c)
          /\ draft'[c].decided = clock /\ draft'[c].created = clock
          /\ draft'[c].matched = Cardinality(Within(draft'[c], cases)) + 1
          /\ RowSeen(c).usable /\ draft'[c].version = RowSeen(c).version
          /\ \E i \in DOMAIN RowSeen(c).levels : RowSeen(c).levels[i] = draft'[c].level
          /\ UNCHANGED <<owner, view>>
      BY <1>4, <3>1, DecideTyped
    <3>3. RowSeen(c) \in inForce[c]
      BY <1>0, <2>0 DEF Working, Works, Sees
    <3>4. Drafted(c)'
      BY <1>a, <2>0, <3>2, <3>3
      DEF Drafted, FromPolicy, Within, Matching, GuildOfRequest
    <3>5. Works(c)'
      BY <1>b, <2>0, <3>1, <3>4 DEF Works, Ended
    <3>6. QED
      BY <1>0, <1>c, <2>0, <2>2, <3>2, <3>5 DEF TypeOK
  <2>3. QED
    BY <1>4, <2>1, <2>2 DEF Decide
<1>5. ASSUME NEW c \in Creators, Number(c) PROVE Working'
  BY <1>0, <1>5, <1>c, NumberWorks DEF Number, TypeOK, outside
<1>6. ASSUME NEW c \in Creators, Commit(c) PROVE Working'
  <2>1. Works(c)'
    BY <1>0, <1>6, <1>d DEF Commit, TypeOK, Ended
  <2>2. ASSUME NEW d \in Creators, d # c PROVE Works(d)'
    <3>1. /\ pc'[d] = pc[d] /\ view'[d] = view[d] /\ draft'[d] = draft[d]
          /\ UNCHANGED <<request, template, inForce, clock>>
      BY <1>0, <1>6, <2>2 DEF Commit, EndTransaction, TypeOK
    <3>2. pc[d] \in InTransaction =>
             \A k : k.guild = GuildOfRequest(d) => (k \in cases' <=> k \in cases)
      BY <1>6, <2>2, CommitElsewhere
    <3>3. QED
      BY <1>a, <1>b, <3>1, <3>2, OthersWork
  <2>3. QED
    BY <2>1, <2>2 DEF Working
<1>7. ASSUME NEW c \in Creators, Submit(c) PROVE Working'
  <2>1. Works(c)'
    BY <1>0, <1>7, <1>d DEF Submit, TypeOK, Ended
  <2>2. QED
    BY <1>0, <1>7, <1>c, <2>1 DEF Submit, TypeOK, outside
<1>8. ASSUME NEW c \in Creators, AuditFailure(c) PROVE Working'
  <2>1. Works(c)'
    BY <1>0, <1>8, <1>d DEF AuditFailure, TypeOK, Ended
  <2>2. QED
    BY <1>0, <1>8, <1>c, <2>1 DEF AuditFailure, TypeOK, outside
<1>9. ASSUME NEW c \in Creators, StoreError(c) PROVE Working'
  <2>1. Works(c)'
    BY <1>0, <1>9, <1>d DEF StoreError, TypeOK, Ended
  <2>2. QED
    BY <1>0, <1>9, <1>c, <2>1 DEF StoreError, EndTransaction, TypeOK, tables
<1>10. ASSUME NEW t \in Templates, Edit(t) PROVE Working'
  <2>1. PICK r \in TemplateRows[t] :
          /\ template' = [template EXCEPT ![t] = r]
          /\ inForce' = [c \in Creators |->
                            IF pc[c] \notin Ended /\ request[c].template = t
                            THEN inForce[c] \cup {r} ELSE inForce[c]]
    BY <1>10 DEF Edit
  <2>2. UNCHANGED <<request, pc, view, draft, cases, clock>>
    BY <1>10 DEF Edit
  <2>3. ASSUME NEW d \in Creators PROVE Works(d)'
    <3>1. inForce[d] \subseteq inForce'[d]
      BY <2>1
    <3>2. pc[d] \notin Ended => template'[request[d].template] \in inForce'[d]
      BY <1>0, <1>b, <2>1, RequestType DEF TypeOK
    <3>3. QED
      BY <1>a, <2>2, <3>1, <3>2, OthersWork
  <2>4. QED
    BY <2>3 DEF Working
<1>11. CASE Tick
  <2>1. /\ clock' \in Times /\ clock <= clock'
        /\ UNCHANGED <<request, pc, view, draft, cases, template, inForce>>
    BY <1>0, <1>11, CreationAssumption DEF Tick, tables, TypeOK
  <2>2. \A d \in Creators : Works(d)'
    BY <1>b, <2>1, OthersWork
  <2>3. QED
    BY <2>2 DEF Working
<1>12. CASE Crash
  <2>1. \A d \in Creators : pc'[d] \in Ended
    BY <1>12 DEF Crash, Ended
  <2>2. QED
    BY <1>d, <2>1 DEF Working
<1>13. CASE UNCHANGED vars
  <2>1. UNCHANGED <<request, pc, view, draft, cases, template, inForce, clock>>
    BY <1>13 DEF vars, outside
  <2>2. \A d \in Creators : Works(d)'
    BY <1>a, <1>b, <2>1, OthersWork
  <2>3. QED
    BY <2>2 DEF Working
<1>14. QED
  BY <1>1, <1>2, <1>3, <1>4, <1>5, <1>6, <1>7, <1>8, <1>9, <1>10, <1>11, <1>12, <1>13
  DEF Next, Advance

-----------------------------------------------------------------------------
(* The committed cases                                                     *)

\* Only Commit writes a case.
LEMMA OnlyCommitWrites ==
    ASSUME [Next]_vars, \A c \in Creators : ~Commit(c)
    PROVE  cases' = cases
BY DEF Next, Advance, vars, tables, outside, Arrive, Lock, Read, Decide, Number, Submit,
   AuditFailure, StoreError, Edit, Tick, Crash

\* The rows in force during a request stay on record once it has left a case.
LEMMA PolicyStays ==
    ASSUME Inv, [Next]_vars, NEW k \in cases
    PROVE  FromPolicy(k)'
<1>1. k.by \in Creators
  BY DEF Inv, TypeOK, CaseRecord, Draft
<1>2. pc[k.by] # "idle"
  BY <1>1 DEF Inv, Told, OutcomeIsTold
<1>3. inForce[k.by] \subseteq inForce'[k.by]
  <2>1. ASSUME NEW c \in Creators, Arrive(c) PROVE inForce'[k.by] = inForce[k.by]
    <3>1. c # k.by
      BY <1>2, <2>1 DEF Arrive
    <3>2. QED
      BY <1>1, <2>1, <3>1 DEF Arrive, Inv, TypeOK
  <2>2. ASSUME NEW t \in Templates, Edit(t) PROVE inForce[k.by] \subseteq inForce'[k.by]
    BY <1>1, <2>2 DEF Edit
  <2>3. CASE UNCHANGED inForce
    BY <2>3
  <2>4. QED
    BY <2>1, <2>2, <2>3 DEF Next, Advance, vars, tables, outside, Lock, Read, Decide, Number,
       Commit, Submit, AuditFailure, StoreError, Tick, Crash
<1>4. FromPolicy(k)
  BY DEF Inv, PolicyInForce, FromPolicy
<1>5. QED
  BY <1>3, <1>4 DEF FromPolicy

\* The case that Commit adds is new, and the highest of its guild.
LEMMA CommitAdds ==
    ASSUME Inv, NEW c \in Creators, Commit(c)
    PROVE  /\ draft[c] \in CaseRecord /\ draft[c] \notin cases
           /\ cases' = cases \cup {draft[c]}
           /\ draft[c].number = Cardinality(CasesOf(draft[c].guild)) + 1
           /\ \A k \in cases : k.guild = draft[c].guild => k.number < draft[c].number
<1> DEFINE g == GuildOfRequest(c)
           n == Cardinality(CasesOf(g))
<1>1. /\ draft[c] \in Draft /\ draft[c].guild = g /\ draft[c].number = n + 1
      /\ cases' = cases \cup {draft[c]}
  BY DEF Inv, Working, Works, Commit, Drafted, Numbered
<1>2. n \in Nat /\ g \in Guilds
  BY CasesFinite, RequestType DEF Inv
<1>3. {k.number : k \in CasesOf(g)} = 1 .. n
  BY <1>2 DEF Inv, NumbersGapless
<1>4. ASSUME NEW k \in cases, k.guild = g PROVE k.number < n + 1
  <2>1. k.number \in 1 .. n
    BY <1>3, <1>4 DEF CasesOf
  <2> HIDE DEF n
  <2>2. QED
    BY <1>2, <2>1
<1> HIDE DEF n, g
<1>5. draft[c] \notin cases
  BY <1>1, <1>2, <1>4
<1>6. QED
  BY <1>1, <1>2, <1>4, <1>5 DEF CaseRecord, n

LEMMA StepNumbers == Inv /\ [Next]_vars => IsFiniteSet(cases)' /\ NumbersGapless'
<1> SUFFICES ASSUME Inv, [Next]_vars PROVE IsFiniteSet(cases)' /\ NumbersGapless'
  OBVIOUS
<1>1. IsFiniteSet(cases) /\ NumbersGapless
  BY DEF Inv
<1>2. CASE \A c \in Creators : ~Commit(c)
  BY <1>1, <1>2, OnlyCommitWrites DEF NumbersGapless, CasesOf
<1>3. ASSUME NEW c \in Creators, Commit(c) PROVE IsFiniteSet(cases)' /\ NumbersGapless'
  <2> DEFINE k == draft[c]
  <2>1. /\ k \notin cases /\ cases' = cases \cup {k}
        /\ k.number = Cardinality(CasesOf(k.guild)) + 1
    BY <1>3, CommitAdds
  <2> HIDE DEF k
  <2>2. IsFiniteSet(cases')
    BY <1>1, <2>1, FS_AddElement
  <2>3. ASSUME NEW g \in Guilds
        PROVE  {j.number : j \in CasesOf(g)'} = 1 .. Cardinality(CasesOf(g)')
    <3>1. /\ {j.number : j \in CasesOf(g)} = 1 .. Cardinality(CasesOf(g))
          /\ IsFiniteSet(CasesOf(g)) /\ Cardinality(CasesOf(g)) \in Nat
      BY <1>1, CasesFinite DEF NumbersGapless
    <3>2. CASE k.guild # g
      <4>1. CasesOf(g)' = CasesOf(g)
        BY <2>1, <3>2 DEF CasesOf
      <4>2. QED
        BY <3>1, <4>1
    <3>3. CASE k.guild = g
      <4>1. CasesOf(g)' = CasesOf(g) \cup {k} /\ k \notin CasesOf(g)
        BY <2>1, <3>3 DEF CasesOf
      <4>2. Cardinality(CasesOf(g)') = Cardinality(CasesOf(g)) + 1
        BY <3>1, <4>1, FS_AddElement
      <4>3. {j.number : j \in CasesOf(g)'} = {j.number : j \in CasesOf(g)} \cup {k.number}
        BY <4>1
      <4>4. \A n \in Nat : (1 .. n) \cup {n + 1} = 1 .. n + 1
        OBVIOUS
      <4>5. {j.number : j \in CasesOf(g)'}
              = (1 .. Cardinality(CasesOf(g))) \cup {Cardinality(CasesOf(g)) + 1}
        BY <2>1, <3>1, <3>3, <4>3
      <4>6. QED
        BY <3>1, <4>2, <4>4, <4>5
    <3>4. QED
      BY <3>2, <3>3
  <2>4. NumbersGapless'
    BY <2>3 DEF NumbersGapless
  <2>5. QED
    BY <2>2, <2>4
<1>4. QED
  BY <1>2, <1>3

LEMMA StepPolicy == Inv /\ [Next]_vars => PolicyInForce'
<1> SUFFICES ASSUME Inv, [Next]_vars, NEW k \in cases' PROVE FromPolicy(k)'
  BY DEF PolicyInForce, FromPolicy
<1>1. CASE k \in cases
  BY <1>1, PolicyStays
<1>2. CASE k \notin cases
  <2>1. PICK c \in Creators : Commit(c)
    BY <1>2, OnlyCommitWrites
  <2>2. k = draft[c]
    BY <1>2, <2>1 DEF Commit
  <2>3. FromPolicy(k)
    BY <2>1, <2>2 DEF Inv, Working, Works, Commit, Drafted
  <2>4. QED
    BY <2>1, <2>3 DEF Commit, FromPolicy
<1>3. QED
  BY <1>1, <1>2

\* The cases with smaller numbers that count for a case, itself included.
Serially(k, history) ==
    {j \in Matching(history, k, 0) :
        /\ j.number <= k.number
        /\ k.level.window # 0 => j.created + k.level.window >= k.decided}

LEMMA StepSerial == Inv /\ [Next]_vars => EscalationSerial'
<1> SUFFICES ASSUME Inv, [Next]_vars, NEW k \in cases'
             PROVE  k.matched = Cardinality(Serially(k, cases'))
  BY DEF EscalationSerial, Serially, Matching
<1>1. \A j \in cases : j \in Draft
  BY DEF Inv, TypeOK, CaseRecord
<1>2. CASE k \in cases
  <2>1. k.matched = Cardinality(Serially(k, cases))
    BY <1>2 DEF Inv, EscalationSerial, Serially
  <2>2. Serially(k, cases') = Serially(k, cases)
    <3>1. CASE \A c \in Creators : ~Commit(c)
      BY <3>1, OnlyCommitWrites
    <3>2. ASSUME NEW c \in Creators, Commit(c)
          PROVE  Serially(k, cases') = Serially(k, cases)
      <4>1. /\ cases' = cases \cup {draft[c]}
            /\ draft[c] \in CaseRecord
            /\ k.guild = draft[c].guild => k.number < draft[c].number
        BY <1>2, <3>2, CommitAdds
      <4>2. k.number \in Nat /\ draft[c].number \in Nat
        BY <1>1, <1>2, <4>1 DEF CaseRecord, Draft
      <4>3. draft[c] \notin Serially(k, cases')
        BY <4>1, <4>2 DEF Serially, Matching
      <4>4. QED
        BY <4>1, <4>3 DEF Serially, Matching
    <3>3. QED
      BY <3>1, <3>2
  <2>3. QED
    BY <2>1, <2>2
<1>3. CASE k \notin cases
  <2>1. PICK c \in Creators : Commit(c)
    BY <1>3, OnlyCommitWrites
  <2>2. /\ k = draft[c] /\ cases' = cases \cup {k} /\ k \in CaseRecord
        /\ \A j \in cases : j.guild = k.guild => j.number < k.number
    BY <1>3, <2>1, CommitAdds
  <2>3. /\ k.matched = Cardinality(Within(k, cases)) + 1
        /\ k.decided <= k.created
    BY <2>1, <2>2 DEF Inv, Working, Works, Commit, Drafted
  <2>4. /\ k.number \in Nat /\ k.decided \in Nat /\ k.created \in Nat /\ k.level.window \in Nat
        /\ \A j \in cases : j.number \in Nat
    <3>1. k \in Draft /\ k.level \in Level
      BY <2>2 DEF CaseRecord, Draft
    <3>2. QED
      BY <1>1, <3>1, CreationAssumption DEF Draft, Level
  <2>5. Serially(k, cases') = Within(k, cases) \cup {k}
    <3>1. k \in Serially(k, cases')
      BY <2>2, <2>3, <2>4 DEF Serially, Matching
    <3>2. ASSUME NEW j \in cases
          PROVE  j \in Serially(k, cases') <=> j \in Within(k, cases)
      <4>1. j.guild = k.guild => j.number <= k.number
        BY <2>2, <2>4
      <4>2. QED
        BY <2>2, <4>1 DEF Serially, Within, Matching
    <3>3. \A j : j \in Serially(k, cases') \cup Within(k, cases) => j \in cases \/ j = k
      BY <2>2 DEF Serially, Within, Matching
    <3>4. QED
      BY <3>1, <3>2, <3>3
  <2>6. k \notin Within(k, cases)
    BY <1>3 DEF Within, Matching
  <2>7. IsFiniteSet(Within(k, cases))
    BY CasesFinite DEF Inv
  <2>8. QED
    BY <2>3, <2>5, <2>6, <2>7, FS_AddElement
<1>4. QED
  BY <1>2, <1>3

-----------------------------------------------------------------------------
(* The theorems                                                            *)

\* One transaction at a time on a guild, from the same facts.
LEMMA OneOwner == Inv => LockIsTransaction
<1> SUFFICES ASSUME Inv, NEW g \in Guilds PROVE Cardinality(owner[g]) <= 1
  BY DEF Inv, Locked, LockIsTransaction
<1>1. \A c, d \in owner[g] : c = d
  BY DEF Inv, Locked
<1>2. CASE owner[g] = {}
  BY <1>2, FS_EmptySet
<1>3. ASSUME NEW c \in owner[g] PROVE Cardinality(owner[g]) <= 1
  <2>1. owner[g] = {c}
    BY <1>1
  <2>2. Cardinality({c}) = 1
    BY FS_Singleton
  <2>3. QED
    BY <2>1, <2>2
<1>4. QED
  BY <1>2, <1>3

\* Every behaviour of the creators keeps the invariant.
THEOREM Invariance == Spec => []Inv
<1>1. Init => Inv
  BY InitInv
<1>2. Inv /\ [Next]_vars => Inv'
  BY StepTypeOK, StepLocked, StepTold, StepWorking, StepNumbers, StepPolicy, StepSerial DEF Inv
<1>3. QED
  BY <1>1, <1>2, PTL DEF Spec

\* The variables keep their types, drafts and views included.
THEOREM TypeCorrect == Spec => []TypeOK
<1>1. Inv => TypeOK
  BY DEF Inv
<1>2. QED
  BY <1>1, Invariance, PTL

\* The lock on a guild belongs to its one open transaction, whatever errors,
\* refusals and crashes end it.
THEOREM LockHeld == Spec => []LockIsTransaction
BY OneOwner, Invariance, PTL

\* The numbers of a guild's cases have no gap and no duplicate, for any number
\* of concurrent creators.
THEOREM NumbersHaveNoGap == Spec => []NumbersGapless
<1>1. Inv => NumbersGapless
  BY DEF Inv
<1>2. QED
  BY <1>1, Invariance, PTL

\* Every case was matched against exactly the cases numbered before it.
THEOREM HistoryIsSerial == Spec => []EscalationSerial
<1>1. Inv => EscalationSerial
  BY DEF Inv
<1>2. QED
  BY <1>1, Invariance, PTL

\* A case captured one policy that was in force during its request.
THEOREM PolicyWasInForce == Spec => []PolicyInForce
<1>1. Inv => PolicyInForce
  BY DEF Inv
<1>2. QED
  BY <1>1, Invariance, PTL

\* Audit entries and hints tell what became of a request.
THEOREM OutcomesTold == Spec => []OutcomeIsTold
<1>1. Inv => OutcomeIsTold
  BY DEF Inv
<1>2. QED
  BY <1>1, Invariance, PTL

-----------------------------------------------------------------------------
(* A creation is one moment of CaseRegister                                *)

\* A draft is the case that policy r asks for, with the cases there are.
DraftedBy(c, r) ==
    LET counts == CountsAt(cases, request[c], draft[c].decided)
        i == Select(r.levels, counts)
    IN  /\ r \in inForce[c] /\ r \in TemplateRows[request[c].template]
        /\ r.usable /\ i # 0
        /\ draft[c].version = r.version /\ draft[c].level = r.levels[i]
        /\ draft[c].matched = Matched(r.levels[i], counts)

\* A draft answers a permitted request.
Answers(c) ==
    /\ request[c].allowed
    /\ GuildOf[request[c].template] = GuildOfRequest(c)
    /\ draft[c].template = request[c].template /\ draft[c].target = request[c].target
    /\ \E r \in inForce[c] : DraftedBy(c, r)

Chooses(c) ==
    /\ pc[c] = "decide" => request[c].allowed
    /\ pc[c] \in {"number", "commit"} => Answers(c)

Choosing == \A c \in Creators : Chooses(c)

\* Counts depend on the cases of the request's guild alone.
LEMMA CountsOfGuild ==
    ASSUME NEW before, NEW after, NEW r, NEW now,
           \A k : k.guild = r.guild => (k \in before <=> k \in after)
    PROVE  CountsAt(before, r, now) = CountsAt(after, r, now)
<1>1. \A since : Matching(before, r, since) = Matching(after, r, since)
  BY DEF Matching
<1>2. QED
  BY <1>1 DEF CountsAt

\* What a request was asked stays, and so do the rows in force during it.
LEMMA RequestStays ==
    ASSUME TypeOK, [Next]_vars, NEW c \in Creators, pc[c] # "idle"
    PROVE  /\ UNCHANGED request
           /\ inForce[c] \subseteq inForce'[c]
<1>1. UNCHANGED request
  BY DEF Next, Advance, vars, outside, Arrive, Lock, Read, Decide, Number, Commit, Submit,
     AuditFailure, StoreError, Edit, Tick, Crash
<1>2. ASSUME NEW d \in Creators, Arrive(d) PROVE inForce'[c] = inForce[c]
  <2>1. d # c
    BY <1>2 DEF Arrive
  <2>2. QED
    BY <1>2, <2>1 DEF Arrive, TypeOK
<1>3. ASSUME NEW t \in Templates, Edit(t) PROVE inForce[c] \subseteq inForce'[c]
  BY <1>3 DEF Edit
<1>4. ASSUME NEW d \in Creators, Lock(d) \/ Advance(d) \/ StoreError(d)
      PROVE  inForce' = inForce
  BY <1>4 DEF Advance, outside, tables, Lock, Read, Decide, Number, Commit, Submit, AuditFailure,
     StoreError
<1>5. CASE Tick \/ Crash \/ UNCHANGED vars
  BY <1>5 DEF Tick, Crash, vars, outside
<1>6. QED
  BY <1>1, <1>2, <1>3, <1>4, <1>5 DEF Next

\* Where a creator that has decided, or may, comes from.
LEMMA ComesFrom ==
    ASSUME TypeOK, [Next]_vars, NEW c \in Creators, pc'[c] \in {"decide", "number", "commit"}
    PROVE  \/ pc'[c] = pc[c] /\ draft'[c] = draft[c]
           \/ Read(c) \/ Decide(c) \/ Number(c)
<1>1. ASSUME NEW d \in Creators,
             Arrive(d) \/ Lock(d) \/ Commit(d) \/ Submit(d) \/ AuditFailure(d) \/ StoreError(d)
      PROVE  pc'[c] = pc[c] /\ draft'[c] = draft[c]
  BY <1>1 DEF TypeOK, Arrive, Lock, Commit, Submit, AuditFailure, StoreError, EndTransaction
<1>2. ASSUME NEW d \in Creators, d # c, Read(d) \/ Decide(d) \/ Number(d)
      PROVE  pc'[c] = pc[c] /\ draft'[c] = draft[c]
  BY <1>2 DEF TypeOK, Read, Decide, Number, Refuse, EndTransaction
<1>3. ~Crash
  BY DEF Crash
<1>4. ASSUME NEW t \in Templates, Edit(t)
      PROVE  pc'[c] = pc[c] /\ draft'[c] = draft[c]
  BY <1>4 DEF Edit
<1>5. CASE Tick \/ UNCHANGED vars
  BY <1>5 DEF Tick, vars
<1>6. QED
  BY <1>1, <1>2, <1>3, <1>4, <1>5 DEF Next, Advance

\* The steps of others leave an answer what it is.
LEMMA AnswerStays ==
    ASSUME Inv, [Next]_vars, NEW c \in Creators, pc[c] \in {"number", "commit"}, Answers(c),
           pc'[c] = pc[c], draft'[c] = draft[c]
    PROVE  Answers(c)'
<1>1. TypeOK /\ pc[c] # "idle" /\ pc[c] \in InTransaction
  BY DEF Inv, InTransaction
<1>2. UNCHANGED request /\ inForce[c] \subseteq inForce'[c]
  BY <1>1, RequestStays
<1>3. \A k : k.guild = request[c].guild => (k \in cases' <=> k \in cases)
  <2>1. CASE \A d \in Creators : ~Commit(d)
    BY <2>1, OnlyCommitWrites
  <2>2. ASSUME NEW d \in Creators, Commit(d)
        PROVE  \A k : k.guild = request[c].guild => (k \in cases' <=> k \in cases)
    <3>1. pc'[d] \in {"submit", "done"}
      BY <1>1, <2>2 DEF Commit, TypeOK
    <3>2. d # c
      BY <3>1
    <3>3. QED
      BY <1>1, <2>2, <3>2, CommitElsewhere DEF GuildOfRequest
  <2>3. QED
    BY <2>1, <2>2
<1>4. PICK r \in inForce[c] : DraftedBy(c, r)
  BY DEF Answers
<1>5. CountsAt(cases', request[c], draft[c].decided) = CountsAt(cases, request[c], draft[c].decided)
  BY <1>3, CountsOfGuild
<1>6. CountsAt(cases, request[c], draft[c].decided)' = CountsAt(cases, request[c], draft[c].decided)
  BY <1>2, <1>5 DEF CountsAt, Matching
<1>7. DraftedBy(c, r)'
  BY <1>2, <1>4, <1>6 DEF DraftedBy
<1>8. QED
  BY <1>2, <1>4, <1>7 DEF Answers, GuildOfRequest

\* What a creator decides answers its request.
LEMMA DecideAnswers ==
    ASSUME Inv, Choosing, NEW c \in Creators, Decide(c), pc'[c] = "number"
    PROVE  Answers(c)'
<1> DEFINE r == RowSeen(c)
           counts == CountsAt(view[c].cases, request[c], clock)
           i == Select(r.levels, counts)
           k == [by |-> c, guild |-> GuildOfRequest(c), number |-> 0,
                 template |-> request[c].template, target |-> request[c].target,
                 version |-> r.version, level |-> r.levels[i],
                 matched |-> Matched(r.levels[i], counts),
                 decided |-> clock, created |-> clock]
<1>1. TypeOK /\ pc[c] = "decide" /\ request[c].allowed
  BY DEF Inv, Decide, Choosing, Chooses
<1>2. ~Refuse(c)
  BY <1>1 DEF Refuse, TypeOK
<1>3. Applies(c) /\ i # 0 /\ draft' = [draft EXCEPT ![c] = k]
  BY <1>2 DEF Decide, LevelsSeen
<1>4. draft'[c] = k
  BY <1>1, <1>3 DEF TypeOK
<1>5. Sees(c)
  BY <1>1 DEF Inv, Working, Works
<1>6. counts = CountsAt(cases, request[c], clock)
  <2>1. \A j : j.guild = request[c].guild => (j \in view[c].cases <=> j \in cases)
    BY <1>5 DEF Sees, CasesOf, GuildOfRequest
  <2>2. QED
    BY <2>1, CountsOfGuild
<1>7. UNCHANGED <<request, cases, inForce, clock>>
  BY DEF Decide, outside
<1>8. r \in inForce[c] /\ r \in TemplateRows[request[c].template]
  BY <1>5 DEF Sees
<1>9. PICK p : p = r
  OBVIOUS
<1>10. CountsAt(cases, request[c], clock)' = counts
  BY <1>6, <1>7 DEF CountsAt, Matching
<1>11. /\ k.template = request[c].template /\ k.target = request[c].target
       /\ k.version = p.version /\ k.level = p.levels[i] /\ k.decided = clock
       /\ k.matched = Matched(p.levels[i], counts)
  BY <1>9
<1>12. PICK n : n = i
  OBVIOUS
<1> HIDE DEF k, i
<1>13. DraftedBy(c, p)'
  <2>1. CountsAt(cases', request'[c], draft'[c].decided) = counts
    BY <1>4, <1>6, <1>7, <1>11
  <2> HIDE DEF counts
  <2>2. Select(p.levels, counts) = n /\ n # 0 /\ p.usable
    BY <1>3, <1>9, <1>12 DEF i, Applies
  <2>3. QED
    BY <1>4, <1>7, <1>8, <1>9, <1>11, <1>12, <2>1, <2>2 DEF DraftedBy, CountsAt, Matching
<1>14. GuildOf[request[c].template] = GuildOfRequest(c)
  BY <1>3 DEF Applies
<1>15. QED
  BY <1>1, <1>4, <1>7, <1>8, <1>9, <1>11, <1>13, <1>14 DEF Answers, GuildOfRequest

\* A number and a creation time leave the answer what it was.
LEMMA NumberAnswers ==
    ASSUME Inv, Choosing, NEW c \in Creators, Number(c)
    PROVE  Answers(c)'
<1>1. TypeOK /\ Answers(c) /\ draft[c] \in Draft
  BY DEF Inv, Number, Choosing, Chooses, Working, Works, Drafted
<1>2. draft'[c] = [draft[c] EXCEPT !.number = NextCaseNumber(GuildOfRequest(c)), !.created = clock]
  BY <1>1 DEF Number, TypeOK
<1>3. /\ draft'[c].template = draft[c].template /\ draft'[c].target = draft[c].target
      /\ draft'[c].version = draft[c].version /\ draft'[c].level = draft[c].level
      /\ draft'[c].matched = draft[c].matched /\ draft'[c].decided = draft[c].decided
  BY <1>1, <1>2 DEF Draft
<1>4. UNCHANGED <<request, cases, inForce>>
  BY DEF Number, outside
<1>5. PICK r \in inForce[c] : DraftedBy(c, r)
  BY <1>1 DEF Answers
<1>6. CountsAt(cases, request[c], draft[c].decided)' = CountsAt(cases, request[c], draft[c].decided)
  BY <1>3, <1>4 DEF CountsAt, Matching
<1>7. DraftedBy(c, r)'
  BY <1>3, <1>4, <1>5, <1>6 DEF DraftedBy
<1>8. QED
  BY <1>1, <1>3, <1>4, <1>5, <1>7 DEF Answers, GuildOfRequest

LEMMA StepChoosing == Inv /\ Choosing /\ [Next]_vars => Choosing'
<1> SUFFICES ASSUME Inv, Choosing, [Next]_vars, NEW c \in Creators PROVE Chooses(c)'
  BY DEF Choosing
<1>1. TypeOK /\ Chooses(c)
  BY DEF Inv, Choosing
<1>2. CASE pc'[c] = pc[c] /\ draft'[c] = draft[c] /\ pc[c] \in {"decide", "number", "commit"}
  <2>1. UNCHANGED request
    BY <1>1, <1>2, RequestStays
  <2>2. pc[c] \in {"number", "commit"} => Answers(c)'
    BY <1>1, <1>2, AnswerStays DEF Chooses
  <2>3. QED
    BY <1>1, <1>2, <2>1, <2>2 DEF Chooses
<1>3. CASE Read(c)
  <2>1. pc'[c] = "decide" => request'[c].allowed
    BY <1>1, <1>3 DEF Read, Refuse, TypeOK
  <2>2. pc'[c] \notin {"number", "commit"}
    BY <1>1, <1>3 DEF Read, Refuse, TypeOK
  <2>3. QED
    BY <2>1, <2>2 DEF Chooses
<1>4. CASE Decide(c)
  <2>1. pc'[c] \in {"number", "audit"}
    BY <1>1, <1>4 DEF Decide, Refuse, TypeOK
  <2>2. pc'[c] = "number" => Answers(c)'
    BY <1>4, DecideAnswers
  <2>3. QED
    BY <2>1, <2>2 DEF Chooses
<1>5. CASE Number(c)
  <2>1. pc'[c] = "commit"
    BY <1>1, <1>5 DEF Number, TypeOK
  <2>2. Answers(c)'
    BY <1>5, NumberAnswers
  <2>3. QED
    BY <2>1, <2>2 DEF Chooses
<1>6. CASE pc'[c] \notin {"decide", "number", "commit"}
  BY <1>6 DEF Chooses
<1>7. QED
  BY <1>1, <1>2, <1>3, <1>4, <1>5, <1>6, ComesFrom

LEMMA AlwaysChoosing == Spec => [](Inv /\ Choosing)
<1>1. Init => Choosing
  BY DEF Init, Choosing, Chooses
<1>2. Inv /\ Choosing /\ [Next]_vars => Choosing'
  BY StepChoosing
<1>3. QED
  BY <1>1, <1>2, Invariance, PTL DEF Spec

-----------------------------------------------------------------------------
(* The abstract operators over the concrete state                          *)

\* The register counts as everyone does.
LEMMA RegisterCardinality ==
    \A S : Register!Cardinality(S) = Cardinality(S)
BY DEF Register!Cardinality, Cardinality

\* The register's counts are the counts of the code, and its level the level
\* that the documentation promises.
LEMMA RegisterCounts ==
    ASSUME Inv, NEW c \in Creators, NEW now \in Times
    PROVE  Register!Counts(request[c], now) = CountsAt(cases, request[c], now)
<1>1. ASSUME NEW w \in Windows
      PROVE  Register!Counting(request[c], w, now)
                = Matching(cases, request[c], IF w = 0 \/ w > now THEN 0 ELSE now - w)
  <2>1. w \in Nat /\ now \in Nat
    BY CreationAssumption
  <2>2. \A k \in cases : k.created \in Nat
    BY CreationAssumption DEF Inv, TypeOK, CaseRecord, Draft
  <2> DEFINE since == IF w = 0 \/ w > now THEN 0 ELSE now - w
  <2>3. ASSUME NEW k \in cases
        PROVE  k.created >= since <=> (w # 0 => k.created + w >= now)
    BY <2>1, <2>2
  <2> HIDE DEF since
  <2>4. Register!Counting(request[c], w, now) = Matching(cases, request[c], since)
    BY <2>3 DEF Register!Counting, Matching
  <2>5. QED
    BY <2>4 DEF since
<1>2. \A w \in Windows :
         Register!Counting(request[c], w, now)
            = Matching(cases, request[c], IF w = 0 \/ w > now THEN 0 ELSE now - w)
  BY <1>1
<1>3. QED
  BY <1>2, RegisterCardinality DEF Register!Counts, CountsAt

LEMMA RegisterLevel ==
    ASSUME NEW c \in Creators, NEW r \in TemplateRows[request[c].template], NEW now,
           request[c].template \in Templates,
           Register!Counts(request[c], now) = CountsAt(cases, request[c], now)
    PROVE  Register!LevelFor(c, r, now) = Select(r.levels, CountsAt(cases, request[c], now))
<1> DEFINE counts == CountsAt(cases, request[c], now)
<1>1. Stored(r.levels) /\ Accepted(r.levels)
  BY CreationAssumption
<1>2. Select(r.levels, counts) = DocumentedLevel(r.levels, counts)
  BY <1>1, SelectIsDocumented
<1>3. Register!DocumentedLevel(r.levels, counts) = DocumentedLevel(r.levels, counts)
  BY DEF Register!DocumentedLevel, Register!DefaultAt, Register!DueAt, Register!EnabledAt,
     Register!Highest, DocumentedLevel, DefaultAt, DueAt, EnabledAt, Highest
<1>4. QED
  BY <1>2, <1>3 DEF Register!LevelFor

-----------------------------------------------------------------------------
(* Every step of a creation is a step of the register, or none             *)

Stages == [c \in Creators |-> StageOf(pc[c])]

\* The stage of one creator moves with its place in the code.
LEMMA StageMoves ==
    ASSUME TypeOK, NEW c \in Creators, NEW at \in {"lock"} \cup InTransaction \cup Ended,
           pc' = [pc EXCEPT ![c] = at]
    PROVE  Stages' = [Stages EXCEPT ![c] = StageOf(at)]
<1>1. \A d \in Creators : StageOf(pc[d])' = IF d = c THEN StageOf(at) ELSE StageOf(pc[d])
  BY DEF TypeOK, StageOf, InTransaction, Ended
<1>2. QED
  BY <1>1 DEF Stages

\* A commit records the case that a policy in force asks for at that moment.
LEMMA CommitRecords ==
    ASSUME Inv, Choosing, NEW c \in Creators, Commit(c)
    PROVE  Register!Record(c)
<1> DEFINE k == draft[c]
<1>1. /\ TypeOK /\ pc[c] = "commit" /\ Answers(c) /\ Drafted(c)
      /\ k \in Draft /\ k.by = c /\ k.guild = request[c].guild
      /\ k.decided <= k.created /\ k.created <= clock
  BY DEF Inv, Commit, Choosing, Chooses, Working, Works, Drafted, GuildOfRequest
<1>2. /\ k.number = Cardinality(CasesOf(request[c].guild)) + 1
      /\ cases' = cases \cup {k}
  BY <1>1, CommitAdds
<1>3. PICK r \in inForce[c] : DraftedBy(c, r)
  BY <1>1 DEF Answers
<1>4. PICK now \in Times : now = k.decided
  BY <1>1 DEF Draft
<1>5. PICK counts : counts = CountsAt(cases, request[c], now)
  OBVIOUS
<1>6. PICK i : i = Select(r.levels, counts)
  OBVIOUS
<1>7. /\ r \in TemplateRows[request[c].template] /\ r.usable /\ i # 0
      /\ k.version = r.version /\ k.level = r.levels[i]
      /\ k.matched = Matched(r.levels[i], counts)
  BY <1>3, <1>4, <1>5, <1>6 DEF DraftedBy
<1>8. Register!Counts(request[c], now) = counts
  BY <1>5, RegisterCounts
<1>9. Register!LevelFor(c, r, now) = i
  BY <1>1, <1>5, <1>6, <1>7, <1>8, RegisterLevel, RequestType
<1>10. k.matched = counts[k.level.window]
  <2>1. Stored(r.levels) /\ Accepted(r.levels)
    BY <1>1, <1>7, RequestType, CreationAssumption
  <2>2. i \in DOMAIN r.levels
    BY <1>6, <1>7, <2>1, SelectEnabled DEF EnabledAt
  <2>3. AcceptedLevel(k.level)
    BY <1>7, <2>1, <2>2 DEF Accepted
  <2>4. QED
    BY <1>7, <2>3 DEF AcceptedLevel, Matched
<1>11. Register!Cardinality(Register!CasesOfGuild(request[c].guild))
          = Cardinality(CasesOf(request[c].guild))
  BY RegisterCardinality DEF Register!CasesOfGuild, CasesOf
<1>12. k.template = request[c].template /\ k.target = request[c].target
  BY <1>1 DEF Answers
<1>13. k = [by |-> k.by, guild |-> k.guild, template |-> k.template, target |-> k.target,
            number |-> k.number, version |-> k.version, level |-> k.level,
            matched |-> k.matched, decided |-> k.decided, created |-> k.created]
  BY <1>1 DEF Draft
<1> HIDE DEF k
<1>14. k = Register!CaseOf(c, r, now, k.created)
  BY <1>1, <1>2, <1>4, <1>7, <1>8, <1>9, <1>10, <1>11, <1>12, <1>13 DEF Register!CaseOf
<1>15. k.created \in Times
  BY <1>1 DEF Draft
<1>16. /\ Stages[c] = "pending"
       /\ Stages' \in {[Stages EXCEPT ![c] = "recorded"], [Stages EXCEPT ![c] = "over"]}
  BY <1>1, StageMoves DEF Commit, Stages, StageOf, InTransaction, Ended
<1>17. Register!Permitted(c)
  BY <1>1 DEF Register!Permitted, Answers, GuildOfRequest
<1>18. UNCHANGED <<request, template, clock, inForce, hints>> /\ audits' = audits \cup {<<c, "success">>}
  BY DEF Commit, AuditsToo
<1>19. cases' = cases \cup {Register!CaseOf(c, r, now, k.created)}
  BY <1>2, <1>14 DEF k
<1>20. now <= k.created /\ k.created <= clock /\ Register!LevelFor(c, r, now) # 0
  BY <1>1, <1>4, <1>7, <1>9 DEF k
<1>21. QED
  BY <1>3, <1>7, <1>15, <1>16, <1>17, <1>18, <1>19, <1>20
  DEF Register!Record, Register!policyVars, Stages

\* A refusal has its reason, by the cases and a policy in force at that moment.
LEMMA RefuseHasReason ==
    ASSUME Inv, Choosing, NEW c \in Creators, Read(c) \/ Decide(c), Refuse(c)
    PROVE  Register!Refuse(c)
<1>1. TypeOK /\ pc[c] \in {"read", "decide"}
  BY DEF Inv, Read, Decide
<1>2. Stages[c] = "pending" /\ Stages' = [Stages EXCEPT ![c] = "refused"]
  BY <1>1, StageMoves DEF Refuse, Stages, StageOf, InTransaction, Ended
<1>3. UNCHANGED <<request, template, clock, inForce, cases, audits, hints>>
  BY DEF Read, Decide, outside
<1>4. ASSUME Register!Permitted(c)
      PROVE  \E r \in inForce[c] : r.usable => Register!LevelFor(c, r, clock) = 0
  <2> DEFINE r == RowSeen(c)
             counts == CountsAt(view[c].cases, request[c], clock)
  <2>1. pc[c] = "decide" /\ Decide(c)
    <3>1. ~Read(c)
      BY <1>1, <1>4 DEF Read, Refuse, Register!Permitted, TypeOK
    <3>2. QED
      BY <3>1 DEF Decide
  <2>2. Sees(c)
    BY <2>1 DEF Inv, Working, Works
  <2>3. r.usable => Select(r.levels, counts) = 0
    BY <1>1, <1>4, <2>1
    DEF Decide, Refuse, TypeOK, Applies, LevelsSeen, Register!Permitted, GuildOfRequest
  <2>4. counts = CountsAt(cases, request[c], clock)
    <3>1. \A j : j.guild = request[c].guild => (j \in view[c].cases <=> j \in cases)
      BY <2>2 DEF Sees, CasesOf, GuildOfRequest
    <3>2. QED
      BY <3>1, CountsOfGuild
  <2>5. r \in inForce[c] /\ r \in TemplateRows[request[c].template]
    BY <2>2 DEF Sees
  <2> HIDE DEF r, counts
  <2>6. Register!LevelFor(c, r, clock) = Select(r.levels, counts)
    <3>1. clock \in Times /\ request[c].template \in Templates
      BY <1>1, RequestType DEF TypeOK
    <3>2. Register!Counts(request[c], clock) = CountsAt(cases, request[c], clock)
      BY <3>1, RegisterCounts
    <3>3. QED
      BY <2>4, <2>5, <3>1, <3>2, RegisterLevel
  <2>7. QED
    BY <2>3, <2>5, <2>6
<1>5. QED
  BY <1>2, <1>3, <1>4 DEF Register!Refuse, Register!policyVars, Stages

LEMMA StepRegister == Inv /\ Choosing /\ [Next]_vars => [Register!Next]_(Register!registerVars)
<1> SUFFICES ASSUME Inv, Choosing, [Next]_vars
             PROVE  Register!Next \/ UNCHANGED Register!registerVars
  OBVIOUS
<1>0. TypeOK
  BY DEF Inv
\* Steps inside of a transaction are not to be seen.
<1>a. ASSUME UNCHANGED <<request, template, clock, inForce, cases, audits, hints>>,
             Stages' = Stages
      PROVE  UNCHANGED Register!registerVars
  BY <1>a DEF Register!registerVars, Register!policyVars, Stages
<1>b. ASSUME NEW c \in Creators, NEW at \in {"read", "decide", "number", "commit"},
             pc[c] \in {"lock", "read", "decide", "number"}, pc' = [pc EXCEPT ![c] = at]
      PROVE  Stages' = Stages
  <2>1. StageOf(at) = "pending" /\ Stages[c] = "pending"
    BY <1>b DEF StageOf, Stages, InTransaction
  <2>2. Stages' = [Stages EXCEPT ![c] = StageOf(at)]
    BY <1>0, <1>b, StageMoves DEF InTransaction
  <2>3. QED
    BY <2>1, <2>2 DEF Stages
<1>1. ASSUME NEW c \in Creators, Arrive(c) PROVE Register!Next
  <2>1. Stages[c] = "idle" /\ Stages' = [Stages EXCEPT ![c] = "pending"]
    BY <1>0, <1>1, StageMoves DEF Arrive, Stages, StageOf, InTransaction
  <2>2. Register!Ask(c)
    BY <1>1, <2>1 DEF Arrive, Register!Ask, tables, Stages
  <2>3. QED
    BY <2>2 DEF Register!Next
<1>2. ASSUME NEW c \in Creators, Lock(c) PROVE UNCHANGED Register!registerVars
  <2>1. Stages' = Stages
    BY <1>2, <1>b DEF Lock
  <2>2. QED
    BY <1>2, <1>a, <2>1 DEF Lock, outside
<1>3. ASSUME NEW c \in Creators, Read(c)
      PROVE  Register!Next \/ UNCHANGED Register!registerVars
  <2>1. CASE Refuse(c)
    BY <1>3, <2>1, RefuseHasReason DEF Register!Next
  <2>2. CASE pc' = [pc EXCEPT ![c] = "decide"]
    <3>1. Stages' = Stages
      BY <1>3, <1>b, <2>2 DEF Read
    <3>2. QED
      BY <1>3, <1>a, <3>1 DEF Read, outside
  <2>3. QED
    BY <1>3, <2>1, <2>2 DEF Read
<1>4. ASSUME NEW c \in Creators, Decide(c)
      PROVE  Register!Next \/ UNCHANGED Register!registerVars
  <2>1. CASE Refuse(c)
    BY <1>4, <2>1, RefuseHasReason DEF Register!Next
  <2>2. CASE pc' = [pc EXCEPT ![c] = "number"]
    <3>1. Stages' = Stages
      BY <1>4, <1>b, <2>2 DEF Decide
    <3>2. QED
      BY <1>4, <1>a, <3>1 DEF Decide, outside
  <2>3. QED
    BY <1>4, <2>1, <2>2 DEF Decide
<1>5. ASSUME NEW c \in Creators, Number(c) PROVE UNCHANGED Register!registerVars
  <2>1. Stages' = Stages
    BY <1>5, <1>b DEF Number
  <2>2. QED
    BY <1>5, <1>a, <2>1 DEF Number, outside
<1>6. ASSUME NEW c \in Creators, Commit(c) PROVE Register!Next
  BY <1>6, CommitRecords DEF Register!Next
<1>7. ASSUME NEW c \in Creators, Submit(c) PROVE Register!Next
  <2>1. Stages[c] = "recorded" /\ Stages' = [Stages EXCEPT ![c] = "over"]
    BY <1>0, <1>7, StageMoves DEF Submit, AfterCommit, Stages, StageOf, InTransaction, Ended
  <2>2. Register!Tell(c)
    BY <1>7, <2>1 DEF Submit, Register!Tell, Register!policyVars, outside, Stages
  <2>3. QED
    BY <2>2 DEF Register!Next
<1>8. ASSUME NEW c \in Creators, AuditFailure(c) PROVE Register!Next
  <2>1. Stages[c] = "refused" /\ Stages' = [Stages EXCEPT ![c] = "over"]
    BY <1>0, <1>8, StageMoves DEF AuditFailure, Stages, StageOf, InTransaction, Ended
  <2>2. Register!TellRefusal(c)
    BY <1>8, <2>1 DEF AuditFailure, Register!TellRefusal, Register!policyVars, outside, Stages
  <2>3. QED
    BY <2>2 DEF Register!Next
\* Requests that end, with all else as it was.
<1>c. ASSUME UNCHANGED <<request, template, clock, inForce, cases, audits, hints>>,
             NEW gone \in SUBSET {c \in Creators : Stages[c] # "idle"},
             Stages' = [c \in Creators |-> IF c \in gone THEN "over" ELSE Stages[c]]
      PROVE  Register!Next
  <2>1. Register!GiveUp
    BY <1>c DEF Register!GiveUp, Register!policyVars, Stages
  <2>2. QED
    BY <2>1 DEF Register!Next
<1>9. ASSUME NEW c \in Creators, StoreError(c) PROVE Register!Next
  <2>1. Stages[c] = "pending" /\ Stages' = [Stages EXCEPT ![c] = "over"]
    BY <1>0, <1>9, StageMoves DEF StoreError, Stages, StageOf, InTransaction, Ended
  <2>2. {c} \in SUBSET {d \in Creators : Stages[d] # "idle"}
    BY <2>1
  <2>3. Stages' = [d \in Creators |-> IF d \in {c} THEN "over" ELSE Stages[d]]
    BY <2>1 DEF Stages
  <2>4. QED
    BY <1>9, <1>c, <2>2, <2>3 DEF StoreError, tables
<1>10. ASSUME NEW t \in Templates, Edit(t) PROVE Register!Next
  <2>1. PICK r \in TemplateRows[t] :
          /\ template' = [template EXCEPT ![t] = r]
          /\ inForce' = [c \in Creators |->
                            IF pc[c] \notin Ended /\ request[c].template = t
                            THEN inForce[c] \cup {r} ELSE inForce[c]]
    BY <1>10 DEF Edit
  <2>2. \A c \in Creators : pc[c] \notin Ended <=> Stages[c] = "pending"
    BY <1>0 DEF TypeOK, Stages, StageOf, Ended, InTransaction
  <2>3. inForce' = [c \in Creators |-> inForce[c] \cup
                       (IF Stages[c] = "pending" /\ request[c].template = t THEN {r} ELSE {})]
    BY <2>1, <2>2
  <2>4. UNCHANGED <<request, clock, Stages, cases, audits, hints>>
    BY <1>10 DEF Edit, Stages
  <2>5. Register!Edit(t)
    BY <2>1, <2>3, <2>4 DEF Register!Edit, Stages
  <2>6. QED
    BY <2>5 DEF Register!Next
<1>11. CASE Tick
  <2>1. Register!Tick
    BY <1>11 DEF Tick, Register!Tick, tables
  <2>2. QED
    BY <2>1 DEF Register!Next
<1>12. CASE Crash
  <2>1. /\ pc' = [c \in Creators |-> IF pc[c] = "idle" THEN "idle" ELSE "done"]
        /\ UNCHANGED <<request, template, clock, inForce, cases, audits, hints>>
    BY <1>12 DEF Crash, tables
  <2>2. PICK gone \in SUBSET Creators : gone = {c \in Creators : Stages[c] # "idle"}
    OBVIOUS
  <2>3. \A c \in Creators : StageOf(pc[c])' = IF c \in gone THEN "over" ELSE Stages[c]
    BY <1>0, <2>1, <2>2 DEF TypeOK, Stages, StageOf, Ended, InTransaction
  <2>4. Stages' = [c \in Creators |-> IF c \in gone THEN "over" ELSE Stages[c]]
    BY <2>3 DEF Stages
  <2>5. QED
    BY <1>c, <2>1, <2>2, <2>4
<1>13. CASE UNCHANGED vars
  BY <1>13, <1>a DEF vars, outside, Stages
<1>14. QED
  BY <1>1, <1>2, <1>3, <1>4, <1>5, <1>6, <1>7, <1>8, <1>9, <1>10, <1>11, <1>12, <1>13
  DEF Next, Advance

\* Creating a case is atomic: every behaviour of the code, with its lock, its
\* snapshot and its reads and writes one by one, is a behaviour of CaseRegister,
\* in which a case is one step that takes the documented level of a policy in
\* force for the cases there are.
THEOREM CreationImplementsRegister == Spec => RegisterSpec
<1>1. Init => Register!Init
  <2>1. Init => Stages = [c \in Creators |-> "idle"]
    BY DEF Init, Stages, StageOf, InTransaction
  <2>2. QED
    BY <2>1 DEF Init, Register!Init, Stages
<1>2. Inv /\ Choosing /\ [Next]_vars => [Register!Next]_(Register!registerVars)
  BY StepRegister
<1>3. QED
  BY <1>1, <1>2, AlwaysChoosing, PTL DEF Spec, RegisterSpec, Register!Spec
=============================================================================
