-------------------------- MODULE EscalationProofs --------------------------
(***************************************************************************)
(* Proofs about Escalation for policies of any length: the scan of         *)
(* selectTemplateLevel is well defined, ends at a level of the policy, and *)
(* picks the level that the comment over it describes.                     *)
(***************************************************************************)
EXTENDS Escalation, TLAPS, FiniteSetTheorems

-----------------------------------------------------------------------------
(* Induction on the turns of the scan                                      *)

\* The least-number principle for a set: TLAPS cannot instantiate the library's
\* induction theorems with a formula, so the proofs below argue with the least
\* counterexample.
LEMMA LeastNumber ==
    ASSUME NEW T, T \subseteq Nat, T # {}
    PROVE  \E n \in T : \A m \in T : n <= m
<1>1. PICK n \in T : \A m \in T : <<m, n>> \notin OpToRel(<, Nat)
  BY NatLessThanWellFounded, WFMin
<1>2. \A m \in T : ~(m < n)
  BY <1>1 DEF OpToRel
<1>3. QED
  BY <1>2

\* A set of naturals that holds 0, and n + 1 with every n below a bound, holds
\* every number up to the bound.
LEMMA UpTo ==
    ASSUME NEW T, NEW bound \in Nat, 0 \in T,
           \A n \in 0 .. bound : n \in T /\ n < bound => n + 1 \in T
    PROVE  0 .. bound \subseteq T
<1> DEFINE Missing == (0 .. bound) \ T
<1>1. SUFFICES ASSUME Missing # {} PROVE FALSE
  OBVIOUS
<1>2. PICK n \in Missing : \A m \in Missing : n <= m
  <2>1. Missing \subseteq Nat
    OBVIOUS
  <2> HIDE DEF Missing
  <2>2. QED
    BY <1>1, <2>1, LeastNumber
<1>3. n # 0 /\ n \in 1 .. bound
  BY <1>2
<1>4. n - 1 \in 0 .. bound /\ n - 1 \notin Missing /\ n - 1 < bound
  BY <1>2, <1>3
<1>5. QED
  BY <1>2, <1>4

-----------------------------------------------------------------------------
(* The scan is what its equations say                                      *)

Start == [fallback |-> 0, best |-> 0, invalid |-> FALSE]

\* f is the scan of the first n levels.
IsScan(f, policy, counts, n) ==
    f = [i \in 0 .. n |->
            IF i = 0 THEN Start ELSE Consider(policy, counts, f[i - 1], i)]

\* A longer scan.
LEMMA ScanExtends ==
    ASSUME NEW policy, NEW counts, NEW n \in Nat, NEW f,
           IsScan(f, policy, counts, n)
    PROVE  \E g : IsScan(g, policy, counts, n + 1)
<1> DEFINE g == [i \in 0 .. n + 1 |->
                    IF i = n + 1 THEN Consider(policy, counts, f[n], n + 1) ELSE f[i]]
<1>1. \A i \in 0 .. n : g[i] = f[i]
  OBVIOUS
<1>2. \A i \in 0 .. n + 1 :
         g[i] = IF i = 0 THEN Start ELSE Consider(policy, counts, g[i - 1], i)
  <2>1. TAKE i \in 0 .. n + 1
  <2>2. CASE i = n + 1
    BY <2>2, <1>1
  <2>3. CASE i \in 0 .. n
    <3>1. i # 0 => i - 1 \in 0 .. n
      BY <2>3
    <3>2. f[i] = IF i = 0 THEN Start ELSE Consider(policy, counts, f[i - 1], i)
      BY <2>3 DEF IsScan
    <3>3. QED
      BY <2>3, <3>1, <3>2, <1>1
  <2>4. QED
    BY <2>2, <2>3
<1>3. g = [i \in 0 .. n + 1 |->
             IF i = 0 THEN Start ELSE Consider(policy, counts, g[i - 1], i)]
  BY <1>2, Zenon
<1>4. QED
  BY <1>3 DEF IsScan

\* There is a scan of every policy.
LEMMA ScanExists ==
    ASSUME NEW policy, NEW counts, NEW n \in Nat
    PROVE  \E f : IsScan(f, policy, counts, n)
<1> DEFINE T == {i \in Nat : \E f : IsScan(f, policy, counts, i)}
<1>1. 0 \in T
  <2> DEFINE f == [i \in 0 .. 0 |-> Start]
  <2>1. f = [i \in 0 .. 0 |->
               IF i = 0 THEN Start ELSE Consider(policy, counts, f[i - 1], i)]
    OBVIOUS
  <2>2. QED
    BY <2>1 DEF IsScan
<1>2. \A i \in 0 .. n : i \in T /\ i < n => i + 1 \in T
  BY ScanExtends
<1>3. 0 .. n \subseteq T
  <2> HIDE DEF T
  <2> QED
    BY <1>1, <1>2, UpTo
<1>4. QED
  BY <1>3

\* What Scan returns is the end of such a scan.
LEMMA ScanIsScan ==
    ASSUME NEW policy, NEW counts, Len(policy) \in Nat
    PROVE  \E f : /\ IsScan(f, policy, counts, Len(policy))
                  /\ Scan(policy, counts) = f[Len(policy)]
<1> DEFINE f == CHOOSE f : IsScan(f, policy, counts, Len(policy))
<1>1. IsScan(f, policy, counts, Len(policy))
  BY ScanExists
<1>2. Scan(policy, counts) = f[Len(policy)]
  BY DEF Scan, IsScan, Start
<1>3. QED
  BY <1>1, <1>2

-----------------------------------------------------------------------------
(* What the scan knows after each turn                                     *)

\* Level i outranks level j.
Outranks(policy, i, j) ==
    \/ policy[j].trigger < policy[i].trigger
    \/ policy[j].trigger = policy[i].trigger /\ policy[j].position < policy[i].position

Seen == [fallback : Nat, best : Nat, invalid : BOOLEAN]

\* After n levels: the default level if it was among them, and the one that
\* outranks all others of those that are due.
Knows(policy, counts, n, seen) ==
    /\ seen \in Seen /\ ~seen.invalid
    /\ seen.fallback <= n /\ seen.best <= n
    /\ seen.fallback = 0 => \A i \in DefaultAt(policy) : n < i
    /\ seen.fallback # 0 => seen.fallback \in DefaultAt(policy)
    /\ seen.best = 0 => \A i \in DueAt(policy, counts) : n < i
    /\ seen.best # 0 =>
          /\ seen.best \in DueAt(policy, counts)
          /\ \A j \in DueAt(policy, counts) \ {seen.best} :
                 j <= n => Outranks(policy, seen.best, j)

\* The levels of a stored policy, and the numbers in them.
LEMMA StoredLevel ==
    ASSUME NEW policy, Stored(policy), NEW i \in DOMAIN policy
    PROVE  /\ policy[i] \in Level
           /\ policy[i].trigger \in Nat
           /\ policy[i].position \in Nat
<1>1. policy[i] \in Level
  BY DEF Stored
<1>2. QED
  BY <1>1 DEF Level

\* One turn of the loop adds a level to what is known.
LEMMA ConsiderKnows ==
    ASSUME NEW policy, NEW counts, Stored(policy), Accepted(policy),
           NEW n \in 0 .. Len(policy) - 1, NEW seen, Knows(policy, counts, n, seen)
    PROVE  Knows(policy, counts, n + 1, Consider(policy, counts, seen, n + 1))
<1> DEFINE l == policy[n + 1]
           next == Consider(policy, counts, seen, n + 1)
<1>1. /\ Len(policy) \in Nat /\ n \in Nat
      /\ n + 1 \in DOMAIN policy /\ DOMAIN policy = 1 .. Len(policy)
  BY DEF Stored
<1>2. l \in Level /\ AcceptedLevel(l)
  BY <1>1, StoredLevel DEF Accepted
<1>3. ~seen.invalid
  BY DEF Knows
<1>4. /\ n + 1 \in EnabledAt(policy) <=> l.enabled
      /\ n + 1 \in DefaultAt(policy) <=> l.enabled /\ l.isDefault
      /\ n + 1 \in DueAt(policy, counts) <=>
            l.enabled /\ ~l.isDefault /\ l.trigger <= counts[l.window]
  BY <1>1, <1>2 DEF EnabledAt, DefaultAt, DueAt, Level
<1>5. DueAt(policy, counts) \subseteq DOMAIN policy /\ DefaultAt(policy) \subseteq DOMAIN policy
  BY DEF DueAt, EnabledAt, DefaultAt
<1>6. seen \in Seen
  BY DEF Knows
<1>7. CASE ~l.enabled
  <2>1. next = seen
    BY <1>7 DEF Consider
  <2> HIDE DEF next
  <2>2. Knows(policy, counts, n + 1, next)
    BY <1>1, <1>4, <1>5, <1>6, <1>7, <2>1 DEF Knows
  <2>3. QED
    BY <2>2 DEF next
<1>8. CASE l.enabled /\ l.isDefault
  <2>1. next = [seen EXCEPT !.fallback = n + 1]
    BY <1>3, <1>8 DEF Consider
  <2> HIDE DEF next
  <2>2. /\ next \in Seen /\ ~next.invalid
        /\ next.fallback = n + 1 /\ next.best = seen.best
    BY <1>1, <1>3, <1>6, <2>1 DEF Seen
  <2>3. Knows(policy, counts, n + 1, next)
    BY <1>1, <1>4, <1>5, <1>6, <1>8, <2>2 DEF Knows
  <2>4. QED
    BY <2>3 DEF next
<1>9. CASE l.enabled /\ ~l.isDefault
  <2>1. l.trigger > 0
    BY <1>2, <1>9 DEF AcceptedLevel
  <2>2. next = IF Matched(l, counts) >= l.trigger /\ Better(policy, n + 1, seen.best)
               THEN [seen EXCEPT !.best = n + 1] ELSE seen
    BY <1>2, <1>3, <1>9, <2>1 DEF Consider, Level
  <2>3. Matched(l, counts) >= l.trigger <=> n + 1 \in DueAt(policy, counts)
    BY <1>4, <1>9 DEF Matched
  <2>4. CASE n + 1 \notin DueAt(policy, counts)
    <3>1. next = seen
      BY <2>2, <2>3, <2>4
    <3> HIDE DEF next
    <3>2. Knows(policy, counts, n + 1, next)
      BY <1>1, <1>4, <1>5, <1>6, <1>9, <2>4, <3>1 DEF Knows
    <3>3. QED
      BY <3>2 DEF next
  <2>5. CASE n + 1 \in DueAt(policy, counts) /\ Better(policy, n + 1, seen.best)
    <3>1. next = [seen EXCEPT !.best = n + 1]
      BY <2>2, <2>3, <2>5
    <3>2. seen.best # 0 => Outranks(policy, n + 1, seen.best)
      BY <2>5 DEF Better, Outranks
    <3>3. \A j \in DueAt(policy, counts) : j <= n => Outranks(policy, n + 1, j)
      <4>1. TAKE j \in DueAt(policy, counts)
      <4>2. HAVE j <= n
      <4>3. seen.best # 0
        BY <1>1, <1>5, <4>2 DEF Knows
      <4>4. CASE j = seen.best
        BY <3>2, <4>3, <4>4
      <4>5. CASE j # seen.best
        <5>1. Outranks(policy, seen.best, j)
          BY <4>2, <4>3, <4>5 DEF Knows
        <5>2. seen.best \in DOMAIN policy /\ j \in DOMAIN policy
          BY <1>5, <4>3 DEF Knows
        <5>3. /\ policy[j].trigger \in Nat /\ policy[j].position \in Nat
              /\ policy[seen.best].trigger \in Nat /\ policy[seen.best].position \in Nat
              /\ l.trigger \in Nat /\ l.position \in Nat
          BY <1>1, <5>2, StoredLevel
        <5>4. Outranks(policy, n + 1, seen.best)
          BY <3>2, <4>3
        <5>5. QED
          BY ONLY <5>1, <5>3, <5>4 DEF Outranks
      <4>6. QED
        BY <4>4, <4>5
    <3>4. \A j \in DueAt(policy, counts) : j <= n + 1 /\ j # n + 1 => j <= n
      BY <1>1, <1>5
    <3> HIDE DEF next
    <3>5. /\ next \in Seen /\ ~next.invalid
          /\ next.fallback = seen.fallback /\ next.best = n + 1
      BY <1>1, <1>3, <1>6, <3>1 DEF Seen
    <3>6. Knows(policy, counts, n + 1, next)
      BY <1>1, <1>4, <1>5, <1>6, <1>9, <2>5, <3>3, <3>4, <3>5 DEF Knows
    <3>7. QED
      BY <3>6 DEF next
  <2>6. CASE n + 1 \in DueAt(policy, counts) /\ ~Better(policy, n + 1, seen.best)
    <3>1. next = seen
      BY <2>2, <2>3, <2>6
    <3>2. seen.best # 0 /\ Outranks(policy, seen.best, n + 1)
      <4>1. seen.best # 0
        BY <2>6 DEF Better
      <4>2. seen.best \in DOMAIN policy /\ seen.best # n + 1
        BY <1>1, <1>5, <4>1 DEF Knows
      <4>3. policy[seen.best].position # l.position
        BY <1>1, <4>2 DEF Stored
      <4>4. /\ policy[seen.best].trigger \in Nat /\ policy[seen.best].position \in Nat
            /\ l.trigger \in Nat /\ l.position \in Nat
        BY <1>1, <4>2, StoredLevel
      <4>5. QED
        BY <2>6, <4>1, <4>3, <4>4 DEF Better, Outranks
    <3>3. \A j \in DueAt(policy, counts) : j <= n + 1 /\ j # n + 1 => j <= n
      BY <1>1, <1>5
    <3> HIDE DEF next
    <3>4. Knows(policy, counts, n + 1, next)
      BY <1>1, <1>4, <1>5, <1>6, <1>9, <2>6, <3>1, <3>2, <3>3 DEF Knows
    <3>5. QED
      BY <3>4 DEF next
  <2>7. QED
    BY <2>4, <2>5, <2>6
<1>10. QED
  BY <1>7, <1>8, <1>9

\* At the end the scan knows the whole policy.
LEMMA ScanKnows ==
    ASSUME NEW policy, NEW counts, Stored(policy), Accepted(policy)
    PROVE  Knows(policy, counts, Len(policy), Scan(policy, counts))
<1>1. Len(policy) \in Nat /\ DOMAIN policy = 1 .. Len(policy)
  BY DEF Stored
<1>2. PICK f : /\ IsScan(f, policy, counts, Len(policy))
               /\ Scan(policy, counts) = f[Len(policy)]
  BY <1>1, ScanIsScan
<1> DEFINE T == {n \in Nat : Knows(policy, counts, n, f[n])}
<1>3. \A n \in 0 .. Len(policy) :
         f[n] = IF n = 0 THEN Start ELSE Consider(policy, counts, f[n - 1], n)
  BY <1>2 DEF IsScan
<1>4. 0 \in T
  <2>1. f[0] = Start
    BY <1>1, <1>3
  <2>2. \A i \in DefaultAt(policy) \cup DueAt(policy, counts) : 0 < i
    BY <1>1 DEF DefaultAt, DueAt, EnabledAt
  <2>3. Knows(policy, counts, 0, f[0])
    BY <2>1, <2>2 DEF Knows, Start, Seen
  <2>4. QED
    BY <2>3
<1>5. ASSUME NEW n \in 0 .. Len(policy), n \in T, n < Len(policy)
      PROVE  n + 1 \in T
  <2>1. f[n + 1] = Consider(policy, counts, f[n], n + 1)
    BY <1>1, <1>3, <1>5
  <2>2. n \in 0 .. Len(policy) - 1
    BY <1>1, <1>5
  <2>3. Knows(policy, counts, n + 1, f[n + 1])
    BY <1>5, <2>1, <2>2, ConsiderKnows
  <2>4. QED
    BY <2>3
<1>6. 0 .. Len(policy) \subseteq T
  <2> HIDE DEF T
  <2> QED
    BY <1>1, <1>4, <1>5, UpTo
<1>7. QED
  BY <1>1, <1>2, <1>6

-----------------------------------------------------------------------------
(* What Select returns                                                     *)

\* The one default level of an accepted policy.
LEMMA OneDefault ==
    ASSUME NEW policy, Stored(policy), Accepted(policy),
           NEW i \in DefaultAt(policy), NEW j \in DefaultAt(policy)
    PROVE  i = j
<1> DEFINE D == {k \in DOMAIN policy : policy[k].isDefault}
<1>1. Len(policy) \in Nat /\ DOMAIN policy = 1 .. Len(policy)
  BY DEF Stored
<1>2. IsFiniteSet(D)
  <2>1. IsFiniteSet(1 .. Len(policy))
    BY <1>1, FS_Interval
  <2>2. D \in SUBSET (1 .. Len(policy))
    BY <1>1
  <2>3. QED
    BY <2>1, <2>2, FS_Subset
<1>3. Cardinality(D) = 1
  BY DEF Accepted
<1>4. PICK x : D = {x}
  BY <1>2, <1>3, FS_Singleton
<1>5. i \in D /\ j \in D
  BY DEF DefaultAt, EnabledAt
<1>6. QED
  BY <1>4, <1>5

\* Two levels cannot outrank each other.
LEMMA OutranksOneWay ==
    ASSUME NEW policy, Stored(policy), NEW i \in DOMAIN policy, NEW j \in DOMAIN policy,
           Outranks(policy, i, j)
    PROVE  ~Outranks(policy, j, i)
BY StoredLevel DEF Outranks

\* A level that is selected is enabled, and is a level of the policy.
LEMMA SelectEnabled ==
    ASSUME NEW policy, NEW counts, Stored(policy), Accepted(policy), Select(policy, counts) # 0
    PROVE  Select(policy, counts) \in EnabledAt(policy)
BY ScanKnows DEF Select, Knows, DefaultAt, DueAt

\* With an enabled default level, some level is selected.
LEMMA DefaultSelects ==
    ASSUME NEW policy, NEW counts, Stored(policy), Accepted(policy), DefaultAt(policy) # {}
    PROVE  Select(policy, counts) # 0
<1>1. Knows(policy, counts, Len(policy), Scan(policy, counts))
  BY ScanKnows
<1>2. Scan(policy, counts).fallback # 0
  <2>1. PICK i \in DefaultAt(policy) : TRUE
    OBVIOUS
  <2>2. Len(policy) \in Nat /\ i \in 1 .. Len(policy)
    BY <2>1 DEF DefaultAt, EnabledAt, Stored
  <2>3. QED
    BY <1>1, <2>1, <2>2 DEF Knows
<1>3. QED
  BY <1>1, <1>2 DEF Select, Knows

\* The scan picks the documented level, for every policy that the service
\* accepts and the store keeps, and whatever the counts.
THEOREM SelectIsDocumented ==
    ASSUME NEW policy, NEW counts, Stored(policy), Accepted(policy)
    PROVE  Select(policy, counts) = DocumentedLevel(policy, counts)
<1> DEFINE seen == Scan(policy, counts)
           due == DueAt(policy, counts)
<1>1. Knows(policy, counts, Len(policy), seen)
  BY ScanKnows
<1>2. /\ Len(policy) \in Nat
      /\ \A i \in DefaultAt(policy) \cup due : i \in DOMAIN policy /\ i \in 1 .. Len(policy)
  BY DEF Stored, DefaultAt, DueAt, EnabledAt
<1>3. /\ seen.fallback = 0 <=> DefaultAt(policy) = {}
      /\ seen.best = 0 <=> due = {}
  BY <1>1, <1>2 DEF Knows
<1>4. CASE DefaultAt(policy) = {}
  BY <1>3, <1>4 DEF Select, DocumentedLevel
<1>5. CASE DefaultAt(policy) # {} /\ due = {}
  <2>1. seen.fallback \in DefaultAt(policy)
    BY <1>1, <1>3, <1>5 DEF Knows
  <2>2. seen.fallback = CHOOSE i \in DefaultAt(policy) : TRUE
    BY <2>1, OneDefault
  <2>3. QED
    BY <1>1, <1>3, <1>5, <2>2 DEF Select, DocumentedLevel, Knows
<1>6. CASE DefaultAt(policy) # {} /\ due # {}
  <2>1. seen.best \in due /\ \A j \in due \ {seen.best} : Outranks(policy, seen.best, j)
    BY <1>1, <1>2, <1>3, <1>6 DEF Knows
  <2>2. ASSUME NEW i \in due, \A j \in due \ {i} : Outranks(policy, i, j)
        PROVE  i = seen.best
    BY <1>2, <2>1, <2>2, OutranksOneWay
  <2>3. seen.best = CHOOSE i \in due : \A j \in due \ {i} : Outranks(policy, i, j)
    BY <2>1, <2>2
  <2>4. Highest(policy, due) = seen.best
    BY <2>3 DEF Highest, Outranks
  <2>5. QED
    BY <1>1, <1>3, <1>6, <2>4 DEF Select, DocumentedLevel, Knows
<1>7. QED
  BY <1>4, <1>5, <1>6
=============================================================================
