---------------------------- MODULE LegacyProofs -----------------------------
(***************************************************************************)
(* Proofs about the components of the legacy bot: the message cache, the   *)
(* tickets, the honeypots, the punishments and appeals, and the queue of   *)
(* events; for any number of members, channels, messages, jobs, events and *)
(* failures.                                                               *)
(*                                                                         *)
(* The cache's list is the front of the record of uses. A ticket is        *)
(* followed from the press that opens it to its closing: what the only     *)
(* reader of its messages has read is in the list or in the row. A         *)
(* honeypot's count is behind the number of bans by what its workers still *)
(* carry. A job of the punishments has done exactly what its list of calls *)
(* says up to the call it is at. An event is in the queue, at one worker,  *)
(* or done with.                                                           *)
(***************************************************************************)
EXTENDS MessageCache, LegacyTickets, LegacyHoneypot, LegacyBans, LegacyEvents,
        FiniteSetTheorems, SequenceTheorems, WellFoundedInduction, TLAPS

(* MessageCache. *)
Distinct(seq) == \A i, j \in DOMAIN seq : seq[i] = seq[j] => i = j

\* The list is the front of the record of uses, which names each message once.
CacheInv ==
    /\ order \in Seq(CacheKeys) /\ used \in Seq(CacheKeys)
    /\ Distinct(used)
    /\ Len(order) = IF Len(used) < CacheSize THEN Len(used) ELSE CacheSize
    /\ \A i \in 1 .. Len(order) : order[i] = used[i]
    /\ cached = Listed(order)
-----------------------------------------------------------------------------
\* An element in front: where everything is then.
LEMMA PushedFront ==
  ASSUME NEW S, NEW seq \in Seq(S), NEW m \in S
  PROVE  /\ <<m>> \o seq \in Seq(S) /\ Len(<<m>> \o seq) = Len(seq) + 1
         /\ (<<m>> \o seq)[1] = m
         /\ \A k \in 2 .. Len(seq) + 1 : (<<m>> \o seq)[k] = seq[k - 1]
  <1>1. <<m>> \in Seq(S) /\ Len(<<m>>) = 1 /\ <<m>>[1] = m
    OBVIOUS
  <1> QED
    BY <1>1, ConcatProperties

LEMMA MovedFront ==
  ASSUME NEW S, NEW seq \in Seq(S), NEW m \in S, Distinct(seq), NEW i \in DOMAIN seq, seq[i] = m
  PROVE  /\ MoveToFront(seq, m) \in Seq(S) /\ Len(MoveToFront(seq, m)) = Len(seq)
         /\ MoveToFront(seq, m)[1] = m
         /\ \A k \in 2 .. Len(seq) :
                MoveToFront(seq, m)[k] = IF k <= i THEN seq[k - 1] ELSE seq[k]
  <1>1. (CHOOSE j \in DOMAIN seq : seq[j] = m) = i
    BY DEF Distinct
  <1>2. i \in 1 .. Len(seq) /\ Len(seq) \in Nat /\ m \in Listed(seq)
    BY DEF Listed
  <1>3. PICK a : a = SubSeq(seq, 1, i - 1)
    OBVIOUS
  <1>4. PICK b : b = SubSeq(seq, i + 1, Len(seq))
    OBVIOUS
  <1>5. a \in Seq(S) /\ Len(a) = i - 1 /\ \A k \in 1 .. i - 1 : a[k] = seq[k]
    BY <1>2, <1>3, SubSeqProperties
  <1>6. b \in Seq(S) /\ Len(b) = Len(seq) - i /\ \A k \in 1 .. Len(seq) - i : b[k] = seq[i + k]
    BY <1>2, <1>4, SubSeqProperties
  <1>7. MoveToFront(seq, m) = <<m>> \o (a \o b)
    BY <1>1, <1>2, <1>3, <1>4 DEF MoveToFront, Without
  <1>8. PICK c : c = a \o b
    OBVIOUS
  <1>9. /\ c \in Seq(S) /\ Len(c) = Len(seq) - 1
        /\ \A k \in 1 .. Len(seq) - 1 : c[k] = IF k < i THEN seq[k] ELSE seq[k + 1]
    <2>1. c \in Seq(S) /\ Len(c) = Len(seq) - 1
      BY <1>2, <1>5, <1>6, <1>8, ConcatProperties
    <2>2. ASSUME NEW k \in 1 .. Len(seq) - 1
          PROVE  c[k] = IF k < i THEN seq[k] ELSE seq[k + 1]
      <3>1. c[k] = IF k <= Len(a) THEN a[k] ELSE b[k - Len(a)]
        <4>1. \A l \in 1 .. Len(a) + Len(b) : c[l] = IF l <= Len(a) THEN a[l] ELSE b[l - Len(a)]
          BY <1>5, <1>6, <1>8, ConcatProperties
        <4>2. k \in 1 .. Len(a) + Len(b)
          BY <1>2, <1>5, <1>6
        <4> QED
          BY <4>1, <4>2
      <3>2. CASE k < i
        BY <1>2, <1>5, <3>1, <3>2
      <3>3. CASE k >= i
        <4>1. k - (i - 1) \in 1 .. Len(seq) - i /\ ~(k <= i - 1)
          BY <1>2, <3>3
        <4>2. b[k - (i - 1)] = seq[i + (k - (i - 1))]
          BY <1>6, <4>1
        <4>3. i + (k - (i - 1)) = k + 1
          BY <1>2
        <4> QED
          BY <1>2, <1>5, <3>1, <3>3, <4>1, <4>2, <4>3
      <3> QED
        BY <1>2, <3>2, <3>3
    <2> QED
      BY <2>1, <2>2
  <1>10. /\ <<m>> \o c \in Seq(S) /\ Len(<<m>> \o c) = Len(c) + 1
         /\ (<<m>> \o c)[1] = m
         /\ \A k \in 2 .. Len(c) + 1 : (<<m>> \o c)[k] = c[k - 1]
    BY <1>9, PushedFront
  <1>11. ASSUME NEW k \in 2 .. Len(seq)
         PROVE  (<<m>> \o c)[k] = IF k <= i THEN seq[k - 1] ELSE seq[k]
    <2>1. k - 1 \in 1 .. Len(seq) - 1 /\ k \in 2 .. Len(c) + 1 /\ (k - 1) + 1 = k
      BY <1>2, <1>9
    <2>2. (<<m>> \o c)[k] = c[k - 1] /\ c[k - 1] = IF k - 1 < i THEN seq[k - 1] ELSE seq[(k - 1) + 1]
      BY <1>9, <1>10, <2>1
    <2> QED
      BY <1>2, <2>1, <2>2
  <1> QED
    BY <1>2, <1>7, <1>8, <1>9, <1>10, <1>11

\* The record of uses after a use: the message in front, the others in their
\* order, each once.
LEMMA UsedAgain ==
  ASSUME NEW S, NEW seq \in Seq(S), NEW m \in S, Distinct(seq)
  PROVE  /\ MoveToFront(seq, m) \in Seq(S) /\ Distinct(MoveToFront(seq, m))
         /\ m \notin Listed(seq) => MoveToFront(seq, m) = <<m>> \o seq
  <1>1. CASE m \notin Listed(seq)
    <2>1. MoveToFront(seq, m) = <<m>> \o seq
      BY <1>1 DEF MoveToFront, Without
    <2>2. \A i \in DOMAIN seq : seq[i] # m
      BY <1>1 DEF Listed
    <2> DEFINE f == <<m>> \o seq
    <2>3. /\ f \in Seq(S) /\ Len(f) = Len(seq) + 1 /\ f[1] = m
          /\ \A k \in 2 .. Len(seq) + 1 : f[k] = seq[k - 1]
      BY PushedFront
    <2>4. DOMAIN f = 1 .. Len(seq) + 1 /\ DOMAIN seq = 1 .. Len(seq) /\ Len(seq) \in Nat
      BY <2>3
    <2> HIDE DEF f
    <2>5. Distinct(f)
      <3> SUFFICES ASSUME NEW j \in DOMAIN f, NEW k \in DOMAIN f, f[j] = f[k] PROVE j = k
        BY DEF Distinct
      <3>1. CASE j = 1 /\ k = 1
        BY <3>1
      <3>2. CASE j = 1 /\ k # 1
        <4>1. k \in 2 .. Len(seq) + 1 /\ k - 1 \in DOMAIN seq
          BY <2>4, <3>2
        <4> QED
          BY <2>2, <2>3, <3>2, <4>1
      <3>3. CASE j # 1 /\ k = 1
        <4>1. j \in 2 .. Len(seq) + 1 /\ j - 1 \in DOMAIN seq
          BY <2>4, <3>3
        <4> QED
          BY <2>2, <2>3, <3>3, <4>1
      <3>4. CASE j # 1 /\ k # 1
        <4>1. /\ k \in 2 .. Len(seq) + 1 /\ k - 1 \in DOMAIN seq
              /\ j \in 2 .. Len(seq) + 1 /\ j - 1 \in DOMAIN seq
          BY <2>4, <3>4
        <4>2. j - 1 = k - 1
          BY <2>3, <4>1 DEF Distinct
        <4> QED
          BY <4>1, <4>2
      <3> QED
        BY <3>1, <3>2, <3>3, <3>4
    <2> QED
      BY <2>1, <2>3, <2>5 DEF f
  <1>2. CASE m \in Listed(seq)
    <2>1. PICK i \in DOMAIN seq : seq[i] = m
      BY <1>2 DEF Listed
    <2> DEFINE f == MoveToFront(seq, m)
    <2>2. /\ f \in Seq(S) /\ Len(f) = Len(seq) /\ f[1] = m
          /\ \A k \in 2 .. Len(seq) : f[k] = IF k <= i THEN seq[k - 1] ELSE seq[k]
      BY <2>1, MovedFront
    <2>3. DOMAIN f = 1 .. Len(seq) /\ DOMAIN seq = 1 .. Len(seq) /\ Len(seq) \in Nat
      BY <2>2
    <2> HIDE DEF f
    <2>4. Distinct(f)
      <3> DEFINE from(k) == IF k = 1 THEN i ELSE IF k <= i THEN k - 1 ELSE k
      <3>1. ASSUME NEW k \in DOMAIN f PROVE from(k) \in DOMAIN seq /\ f[k] = seq[from(k)]
        BY <2>1, <2>2, <2>3
      <3>2. ASSUME NEW j \in DOMAIN f, NEW k \in DOMAIN f, from(j) = from(k) PROVE j = k
        BY <2>3, <3>2
      <3> HIDE DEF from
      <3> QED
        BY <3>1, <3>2 DEF Distinct
    <2> QED
      BY <1>2, <2>2, <2>4 DEF f
  <1> QED
    BY <1>1, <1>2

LEMMA CacheInitInv == CacheInit => CacheInv
  BY MessageCacheAssumption DEF CacheInit, CacheInv, Distinct, Listed

\* The list is the front of the uses: where their entries are.
LEMMA Fronts ==
  ASSUME CacheInv
  PROVE  /\ Len(order) \in Nat /\ Len(used) \in Nat /\ Len(order) <= Len(used)
         /\ DOMAIN order = 1 .. Len(order) /\ DOMAIN used = 1 .. Len(used)
         /\ Distinct(order)
  BY MessageCacheAssumption DEF CacheInv, Distinct

\* A hit: the same element goes in front of the list and of the uses.
LEMMA HitInv ==
  ASSUME CacheInv, NEW m \in cached,
         order' = MoveToFront(order, m), used' = MoveToFront(used, m), cached' = cached
  PROVE  CacheInv'
  <1>1. PICK i \in DOMAIN order : order[i] = m
    BY DEF CacheInv, Listed
  <1>2. i \in DOMAIN used /\ used[i] = m /\ m \in CacheKeys
    BY <1>1, Fronts DEF CacheInv
  <1>3. /\ order' \in Seq(CacheKeys) /\ Len(order') = Len(order) /\ order'[1] = m
        /\ \A k \in 2 .. Len(order) : order'[k] = IF k <= i THEN order[k - 1] ELSE order[k]
    BY <1>1, <1>2, Fronts, MovedFront DEF CacheInv
  <1>4. /\ used' \in Seq(CacheKeys) /\ Len(used') = Len(used) /\ used'[1] = m
        /\ \A k \in 2 .. Len(used) : used'[k] = IF k <= i THEN used[k - 1] ELSE used[k]
    BY <1>1, <1>2, Fronts, MovedFront DEF CacheInv
  <1>5. Distinct(used')
    BY <1>2, UsedAgain DEF CacheInv
  <1>6. ASSUME NEW k \in 1 .. Len(order') PROVE order'[k] = used'[k]
    <2>1. k = 1 \/ k \in 2 .. Len(order)
      BY <1>3, Fronts
    <2>2. ASSUME k \in 2 .. Len(order) PROVE order'[k] = used'[k]
      <3>1. /\ k \in 2 .. Len(used) /\ k - 1 \in 1 .. Len(order) /\ k \in 1 .. Len(order)
        BY <2>2, Fronts
      <3> QED
        BY <1>3, <1>4, <2>2, <3>1 DEF CacheInv
    <2> QED
      BY <1>3, <1>4, <2>1, <2>2
  <1>7. cached = Listed(order')
    <2>1. DOMAIN order' = 1 .. Len(order)
      BY <1>3
    <2>2. ASSUME NEW k \in DOMAIN order' PROVE order'[k] \in cached
      <3>1. k = 1 \/ (k \in 2 .. Len(order) /\ k \in DOMAIN order /\ k - 1 \in DOMAIN order)
        BY <2>1, Fronts
      <3> QED
        BY <1>1, <1>3, <3>1 DEF CacheInv, Listed
    <2>3. ASSUME NEW k \in DOMAIN order PROVE \E j \in DOMAIN order' : order'[j] = order[k]
      <3>1. CASE k = i
        <4>1. 1 \in DOMAIN order'
          BY <2>1, Fronts
        <4> QED
          BY <1>1, <1>3, <3>1, <4>1
      <3>2. CASE k < i
        <4>1. k + 1 \in 2 .. Len(order) /\ k + 1 <= i /\ (k + 1) - 1 = k /\ k + 1 \in DOMAIN order'
          BY <2>1, <3>2, Fronts
        <4> QED
          BY <1>3, <4>1
      <3>3. CASE k > i
        <4>1. k \in 2 .. Len(order) /\ ~(k <= i) /\ k \in DOMAIN order'
          BY <2>1, <3>3, Fronts
        <4> QED
          BY <1>3, <4>1
      <3> QED
        BY <3>1, <3>2, <3>3, Fronts
    <2> QED
      BY <2>2, <2>3 DEF CacheInv, Listed
  <1> QED
    BY <1>3, <1>4, <1>5, <1>6, <1>7 DEF CacheInv

\* A new message goes in front; what no longer fits leaves the list and the map.
LEMMA NewMessageInv ==
  ASSUME CacheInv, NEW m \in CacheKeys, m \notin cached, AddMessage(m)
  PROVE  CacheInv'
  <1> DEFINE pushed == <<m>> \o order
  <1> DEFINE kept == IF Len(pushed) > CacheSize THEN Len(pushed) - 1 ELSE Len(pushed)
  <1>1. /\ pushed \in Seq(CacheKeys) /\ Len(pushed) = Len(order) + 1 /\ pushed[1] = m
        /\ \A k \in 2 .. Len(order) + 1 : pushed[k] = order[k - 1]
    BY PushedFront DEF CacheInv
  <1>2. /\ order' = SubSeq(pushed, 1, kept)
        /\ used' = MoveToFront(used, m)
        /\ cached' = (cached \cup {m}) \ Evicted(pushed)
    BY DEF AddMessage
  <1>3. used' \in Seq(CacheKeys) /\ Distinct(used')
    BY <1>2, UsedAgain DEF CacheInv
  <1>4. \A k \in DOMAIN order : order[k] # m
    BY DEF CacheInv, Listed
  <1> HIDE DEF pushed
  <1>5. /\ kept \in Nat /\ kept <= Len(order) + 1
        /\ kept = (IF Len(order) < CacheSize THEN Len(order) + 1 ELSE Len(order))
    BY <1>1, Fronts, MessageCacheAssumption DEF CacheInv
  <1>9. kept = IF Len(pushed) > CacheSize THEN Len(pushed) - 1 ELSE Len(pushed)
    OBVIOUS
  <1> HIDE DEF kept
  <1>6. /\ order' \in Seq(CacheKeys) /\ Len(order') = kept
        /\ \A k \in 1 .. kept : order'[k] = pushed[k]
    BY <1>1, <1>2, <1>5, Fronts, SubSeqProperties DEF kept
  <1>7. /\ kept = IF Len(used') < CacheSize THEN Len(used') ELSE CacheSize
        /\ \A k \in 1 .. kept : pushed[k] = used'[k]
    <2>1. CASE m \notin Listed(used)
      <3>4. used' = <<m>> \o used /\ used \in Seq(CacheKeys)
        BY <1>2, <2>1, UsedAgain DEF CacheInv
      <3>1. /\ Len(used') = Len(used) + 1 /\ used'[1] = m
            /\ \A k \in 2 .. Len(used) + 1 : used'[k] = used[k - 1]
        BY <3>4, PushedFront
      <3>2. kept = IF Len(used') < CacheSize THEN Len(used') ELSE CacheSize
        BY <1>5, <3>1, Fronts, MessageCacheAssumption DEF CacheInv
      <3>3. ASSUME NEW k \in 1 .. kept PROVE pushed[k] = used'[k]
        <4>2. kept \in Nat /\ kept <= Len(order) + 1 /\ k \in 1 .. kept
          BY <1>5
        <4>1. k = 1 \/ (k \in 2 .. Len(order) + 1 /\ k \in 2 .. Len(used) + 1 /\ k - 1 \in 1 .. Len(order))
          BY <4>2, Fronts
        <4> QED
          BY <1>1, <3>1, <4>1 DEF CacheInv
      <3> QED
        BY <3>2, <3>3
    <2>2. CASE m \in Listed(used)
      <3>1. PICK i \in DOMAIN used : used[i] = m
        BY <2>2 DEF Listed
      <3>2. i > Len(order)
        BY <1>4, <3>1, Fronts DEF CacheInv
      <3>3. /\ Len(used') = Len(used) /\ used'[1] = m
            /\ \A k \in 2 .. Len(used) : used'[k] = IF k <= i THEN used[k - 1] ELSE used[k]
        BY <1>2, <3>1, MovedFront DEF CacheInv
      <3>4. Len(order) = CacheSize /\ Len(order) < Len(used)
        BY <3>1, <3>2, Fronts, MessageCacheAssumption DEF CacheInv
      <3>5. ASSUME NEW k \in 1 .. kept PROVE pushed[k] = used'[k]
        <4>1. kept = Len(order)
          BY <1>5, <3>4, Fronts, MessageCacheAssumption
        <4>2. k = 1 \/ (k \in 2 .. Len(order) + 1 /\ k \in 2 .. Len(used) /\ k <= i /\ k - 1 \in 1 .. Len(order))
          BY <3>2, <3>4, <4>1, Fronts
        <4> QED
          BY <1>1, <3>3, <4>2 DEF CacheInv
      <3> QED
        BY <1>5, <3>3, <3>4, <3>5, Fronts, MessageCacheAssumption
    <2> QED
      BY <2>1, <2>2
  <1>8. cached' = Listed(order')
    <2>1. DOMAIN order' = 1 .. kept /\ DOMAIN pushed = 1 .. Len(order) + 1
      BY <1>1, <1>5, <1>6
    <2>2. Listed(pushed) = cached \cup {m}
      <3>1. ASSUME NEW k \in DOMAIN pushed PROVE pushed[k] \in cached \cup {m}
        <4>1. k = 1 \/ (k \in 2 .. Len(order) + 1 /\ k - 1 \in DOMAIN order)
          BY <2>1, Fronts
        <4> QED
          BY <1>1, <4>1 DEF CacheInv, Listed
      <3>2. ASSUME NEW k \in DOMAIN order PROVE \E j \in DOMAIN pushed : pushed[j] = order[k]
        <4>1. k + 1 \in 2 .. Len(order) + 1 /\ (k + 1) - 1 = k
          BY Fronts
        <4> QED
          BY <1>1, <2>1, <4>1
      <3>3. 1 \in DOMAIN pushed
        BY <2>1, Fronts
      <3> QED
        BY <1>1, <3>1, <3>2, <3>3 DEF CacheInv, Listed
    <2>3. Distinct(pushed)
      <3> SUFFICES ASSUME NEW j \in DOMAIN pushed, NEW k \in DOMAIN pushed, pushed[j] = pushed[k]
                   PROVE j = k
        BY DEF Distinct
      <3>1. \A l \in DOMAIN pushed : l = 1 \/ (l \in 2 .. Len(order) + 1 /\ l - 1 \in DOMAIN order)
        BY <2>1, Fronts
      <3>2. CASE j = 1 \/ k = 1
        BY <1>1, <1>4, <3>1, <3>2
      <3>3. CASE j # 1 /\ k # 1
        <4>1. j - 1 = k - 1
          BY <1>1, <3>1, <3>3, Fronts DEF Distinct
        <4> QED
          BY <2>1, <4>1
      <3> QED
        BY <3>2, <3>3
    <2>4. CASE Len(pushed) > CacheSize
      <3>1. Evicted(pushed) = {pushed[Len(order) + 1]} /\ kept = Len(order) /\ Len(order) + 1 \in DOMAIN pushed
        BY <1>1, <1>9, <2>1, <2>4, Fronts DEF Evicted
      <3>2. \A k \in DOMAIN pushed : k = Len(order) + 1 \/ k \in DOMAIN order'
        BY <2>1, <3>1, Fronts
      <3>3. \A k \in DOMAIN order' : k \in DOMAIN pushed /\ k # Len(order) + 1 /\ order'[k] = pushed[k]
        BY <1>6, <2>1, <3>1, Fronts
      <3> QED
        BY <1>2, <2>2, <2>3, <3>1, <3>2, <3>3 DEF Listed, Distinct
    <2>5. CASE ~(Len(pushed) > CacheSize)
      <3>1. Evicted(pushed) = {} /\ kept = Len(order) + 1
        BY <1>1, <1>9, <2>5 DEF Evicted
      <3> QED
        BY <1>2, <1>6, <2>1, <2>2, <3>1 DEF Listed
    <2> QED
      BY <2>4, <2>5
  <1> QED
    BY <1>3, <1>6, <1>7, <1>8 DEF CacheInv

LEMMA CacheNextInv == CacheInv /\ [CacheNext]_cacheVars => CacheInv'
  <1> SUFFICES ASSUME CacheInv, [CacheNext]_cacheVars PROVE CacheInv'
    OBVIOUS
  <1>1. ASSUME NEW m \in CacheKeys, GetMessage(m) PROVE CacheInv'
    BY <1>1, HitInv DEF GetMessage, Hit
  <1>2. ASSUME NEW m \in CacheKeys, AddMessage(m) PROVE CacheInv'
    <2>1. CASE m \in cached
      BY <1>2, <2>1, HitInv DEF AddMessage
    <2>2. CASE m \notin cached
      BY <1>2, <2>2, NewMessageInv
    <2> QED
      BY <2>1, <2>2
  <1>3. CASE UNCHANGED cacheVars
    BY <1>3 DEF cacheVars, CacheInv, Distinct, Listed
  <1> QED
    BY <1>1, <1>2, <1>3 DEF CacheNext

\* For every set of messages and every size: list and map agree, nothing is held
\* twice or beyond the size, and what is held is what was used last, in that order.
THEOREM CacheKeepsLatest == CacheSpec => []CacheSound
  <1>1. CacheInv => CacheSound
    <2> SUFFICES ASSUME CacheInv PROVE CacheTypeOK /\ KeepsMostRecent
      BY DEF CacheSound
    <2>1. CacheTypeOK
      <3>1. Len(order) <= CacheSize
        BY MessageCacheAssumption, Fronts DEF CacheInv
      <3>2. cached \subseteq CacheKeys
        BY Fronts DEF CacheInv, Listed
      <3> QED
        BY <3>1, <3>2, Fronts DEF CacheTypeOK, CacheInv, Distinct
    <2>2. KeepsMostRecent
      <3> DEFINE n == IF Len(used) < CacheSize THEN Len(used) ELSE CacheSize
      <3> DEFINE front == SubSeq(used, 1, n)
      <3>1. n \in Nat /\ n <= Len(used) /\ Len(order) = n
        BY MessageCacheAssumption, Fronts DEF CacheInv
      <3>2. front \in Seq(CacheKeys) /\ Len(front) = n /\ \A k \in 1 .. n : front[k] = used[k]
        BY <3>1, Fronts, SubSeqProperties DEF CacheInv
      <3>3. \A k \in 1 .. Len(order) : order[k] = front[k]
        BY <3>1, <3>2 DEF CacheInv
      <3>4. order = front
        BY <3>1, <3>2, <3>3, SeqEqual DEF CacheInv
      <3> QED
        BY <3>4 DEF KeepsMostRecent
    <2> QED
      BY <2>1, <2>2
  <1> QED
    BY <1>1, CacheInitInv, CacheNextInv, PTL DEF CacheSpec
-----------------------------------------------------------------------------
(* LegacyTickets. *)
Steps   == {"find", "thread", "register", "insert", "welcome", "done"}
Reading == {"content", "unregister", "drop", "state", "delete"}
Kept    == Reading \ {"content"}

RowType   == [state : {"open", "closed"}, owner : Users, content : SUBSET Messages]
OpenType  == [at : Steps, user : Users]
CloseType == [at : {"collect", "done"} \cup Reading, ticket : Opens, read : SUBSET Messages]
SendType  == [at : {"push", "done"}, ticket : Opens]

TicketShapes ==
    /\ settings \subseteq {"channel", "log"} /\ active \subseteq Opens
    /\ rows \in [Opens -> {NoRow} \cup RowType]
    /\ lists \in [Opens -> SUBSET Messages]
    /\ threads \in [Opens -> {"none", "silent", "welcomed", "deleted"}]
    /\ opening \in [Opens -> {Fresh} \cup OpenType]
    /\ closing \in [Closes -> {Fresh} \cup CloseType]
    /\ sending \in [Messages -> {Fresh, [at |-> "done"]} \cup SendType]
    /\ seen \in [Opens -> SUBSET Messages]
    /\ collects \in [Opens -> Nat]

Waits(x) == x.at = "waiting"

\* How far the press that opens a ticket is shows in what there is of it.
OpenOK(t) ==
    /\ opening[t].at \in {"waiting", "find", "thread"} => threads[t] = "none"
    /\ opening[t].at \in {"register", "insert", "welcome"} => threads[t] = "silent"
    /\ opening[t].at \in {"waiting", "find", "thread", "register"} => t \notin active
    /\ opening[t].at = "insert" => t \in active
    /\ opening[t].at \in {"waiting", "find", "thread", "register", "insert"} => rows[t] = NoRow
    /\ opening[t].at = "welcome" => rows[t] # NoRow
    /\ threads[t] = "welcomed" => rows[t] # NoRow

\* What there is of a ticket.
TicketOK(t) ==
    /\ rows[t] # NoRow => threads[t] # "none"
    /\ t \in active \/ lists[t] # {} => threads[t] # "none"
    /\ threads[t] = "deleted" => rows[t].state = "closed"
    /\ rows[t] # NoRow /\ t \notin active => collects[t] > 0
    /\ collects[t] > 0 => rows[t] # NoRow
    /\ collects[t] = 1 => seen[t] \subseteq lists[t] \cup rows[t].content
    /\ collects[t] = 1 /\ t \notin active => seen[t] \subseteq rows[t].content

\* A closing has a row; while it is the only one that read the list, what it
\* read is what was there, and is stored before anything is dropped.
CloseOK(k) ==
    ~Waits(closing[k]) =>
        LET t == closing[k].ticket
        IN  /\ rows[t] # NoRow /\ opening[t].at = "done"
            /\ closing[k].at = "delete" => rows[t].state = "closed"
            /\ closing[k].at \in Reading => collects[t] > 0
            /\ closing[k].at \in Reading /\ collects[t] = 1 => closing[k].read = seen[t]
            /\ closing[k].at \in Kept /\ collects[t] = 1 => rows[t].content = seen[t]

OneReader ==
    \A j, k \in Closes :
        /\ closing[j].at \in Reading /\ closing[k].at \in Reading
        /\ closing[j].ticket = closing[k].ticket /\ collects[closing[j].ticket] = 1
        => j = k

OneReads(t) ==
    \A j, k \in Closes :
        /\ closing[j].at \in Reading /\ closing[j].ticket = t
        /\ closing[k].at \in Reading /\ closing[k].ticket = t
        => j = k

SendOK(m) == sending[m].at = "push" => threads[sending[m].ticket] # "none"

TicketInv ==
    /\ TicketShapes /\ OneReader
    /\ \A t \in Opens : OpenOK(t) /\ TicketOK(t)
    /\ \A k \in Closes : CloseOK(k)
    /\ \A m \in Messages : SendOK(m)
-----------------------------------------------------------------------------
LEMMA TicketInitInv == TicketInit => TicketInv
  BY DEF TicketInit, TicketInv, TicketShapes, OneReader, OpenOK, TicketOK, CloseOK, SendOK,
         Fresh, NoRow, Waits, Reading

\* A record under way.
LEMMA TicketTypes ==
  ASSUME TicketShapes
  PROVE  /\ \A t \in Opens : /\ ~Waits(opening[t]) => opening[t] \in OpenType
                             /\ rows[t] # NoRow => rows[t] \in RowType
                             /\ rows[t].state # "none" => rows[t] # NoRow
         /\ \A k \in Closes : ~Waits(closing[k]) => closing[k] \in CloseType
         /\ \A m \in Messages : sending[m].at = "push" => sending[m] \in SendType
  BY DEF TicketShapes, Waits, Fresh, NoRow

\* What the steps of the press that opens ticket t have in common.
LEMMA OpenStep ==
  ASSUME TicketInv, NEW t \in Opens, opening[t].at # "done",
         NEW o \in OpenType, opening' = [opening EXCEPT ![t] = o],
         UNCHANGED <<settings, closing, sending, lists, ghosts>>,
         NEW r \in {NoRow} \cup RowType, rows' = [rows EXCEPT ![t] = r],
         r = rows[t] \/ rows[t] = NoRow,
         NEW h \in {"none", "silent", "welcomed", "deleted"}, threads' = [threads EXCEPT ![t] = h],
         h = threads[t] \/ h # "none",
         active' = active \/ active' = active \cup {t},
         OpenOK(t)', TicketOK(t)'
  PROVE  TicketInv'
  <1>1. TicketShapes'
    BY DEF TicketInv, TicketShapes, ghosts
  <1>2. OneReader'
    BY DEF TicketInv, OneReader, ghosts
  <1>3. ASSUME NEW u \in Opens \ {t} PROVE OpenOK(u)' /\ TicketOK(u)'
    <2>1. /\ OpenOK(u) /\ TicketOK(u)
          /\ opening'[u] = opening[u] /\ rows'[u] = rows[u] /\ threads'[u] = threads[u]
          /\ (u \in active' <=> u \in active) /\ lists'[u] = lists[u]
          /\ seen'[u] = seen[u] /\ collects'[u] = collects[u] /\ closing' = closing
      BY DEF TicketInv, TicketShapes, ghosts
    <2>2. OpenOK(u)'
      BY <2>1 DEF OpenOK
    <2> QED
      BY <2>1, <2>2 DEF TicketOK
  <1>4. ASSUME NEW k \in Closes PROVE CloseOK(k)'
    <2>1. CASE Waits(closing[k])
      BY <2>1 DEF CloseOK, Waits
    <2>2. CASE ~Waits(closing[k])
      <3>1. closing[k].ticket \in Opens \ {t} /\ rows[closing[k].ticket] # NoRow
        BY <2>2, TicketTypes DEF TicketInv, CloseOK, CloseType
      <3>2. /\ rows'[closing[k].ticket] = rows[closing[k].ticket]
            /\ opening'[closing[k].ticket] = opening[closing[k].ticket]
        BY <3>1 DEF TicketInv, TicketShapes
      <3> QED
        BY <2>2, <3>1, <3>2 DEF TicketInv, CloseOK, Waits, ghosts
    <2> QED
      BY <2>1, <2>2
  <1>5. ASSUME NEW m \in Messages PROVE SendOK(m)'
    <2>1. sending[m].at = "push" => sending[m].ticket \in Opens
      BY TicketTypes DEF TicketInv, SendType
    <2> QED
      BY <2>1 DEF TicketInv, TicketShapes, SendOK
  <1> QED
    BY <1>1, <1>2, <1>3, <1>4, <1>5 DEF TicketInv

\* A press under way moves on.
LEMMA OpensAt ==
  ASSUME TicketInv, NEW t \in Opens, ~Waits(opening[t]), NEW at \in Steps, OpenAt(t, at)
  PROVE  \E o \in OpenType : /\ opening' = [opening EXCEPT ![t] = o] /\ opening'[t] = o
                             /\ o.at = at /\ o.user = opening[t].user
  <1> DEFINE o == [opening[t] EXCEPT !.at = at]
  <1>1. opening[t] \in OpenType
    BY TicketTypes DEF TicketInv
  <1>2. o \in OpenType /\ o.at = at /\ o.user = opening[t].user
    BY <1>1 DEF OpenType
  <1>3. opening' = [opening EXCEPT ![t] = o] /\ opening'[t] = o
    BY DEF OpenAt, TicketInv, TicketShapes
  <1> QED
    BY <1>2, <1>3

LEMMA OpeningInv ==
  ASSUME TicketInv, NEW t \in Opens,
         \/ \E u \in Users : PressOpen(t, u)
         \/ FindUsersTicket(t) \/ StartThread(t) \/ RegisterThread(t)
         \/ InsertTicket(t) \/ SendWelcome(t) \/ OpenFails(t)
  PROVE  TicketInv'
  <1>1. /\ UNCHANGED <<settings, closing, sending, lists, ghosts>>
        /\ opening[t].at # "done"
        /\ OpenOK(t) /\ TicketOK(t)
        /\ rows[t] \in {NoRow} \cup RowType
        /\ threads[t] \in {"none", "silent", "welcomed", "deleted"}
        /\ (rows' = rows => rows' = [rows EXCEPT ![t] = rows[t]])
        /\ (threads' = threads => threads' = [threads EXCEPT ![t] = threads[t]])
    BY DEF PressOpen, FindUsersTicket, StartThread, RegisterThread, InsertTicket, SendWelcome,
           OpenFails, store, TicketInv, TicketShapes
  <1>2. ASSUME NEW at \in Steps, OpenAt(t, at), opening[t].at # "waiting"
        PROVE  \E o \in OpenType : opening' = [opening EXCEPT ![t] = o] /\ opening'[t] = o /\ o.at = at
    BY <1>2, OpensAt DEF Waits
  <1>3. CASE (\E u \in Users : PressOpen(t, u)) \/ FindUsersTicket(t) \/ OpenFails(t)
    <2>1. UNCHANGED <<rows, threads, active>>
      BY <1>3 DEF PressOpen, FindUsersTicket, OpenFails, store
    <2>4. PICK o \in OpenType : /\ opening' = [opening EXCEPT ![t] = o] /\ opening'[t] = o
                                /\ \/ opening[t].at \in {"waiting", "find"} /\ o.at \in {"find", "thread"}
                                   \/ o.at = "done"
      <3>1. ASSUME NEW u \in Users, PressOpen(t, u)
            PROVE  \E o \in OpenType : /\ opening' = [opening EXCEPT ![t] = o] /\ opening'[t] = o
                                       /\ opening[t].at = "waiting" /\ o.at = "find"
        <4> DEFINE o == [at |-> "find", user |-> u]
        <4>1. o \in OpenType
          BY DEF OpenType, Steps
        <4> QED
          BY <3>1, <4>1 DEF PressOpen, TicketInv, TicketShapes
      <3>2. CASE FindUsersTicket(t) \/ OpenFails(t)
        <4>1. PICK at \in Steps : /\ OpenAt(t, at) /\ opening[t].at # "waiting"
                                  /\ at = "done" \/ (at = "thread" /\ opening[t].at = "find")
          BY <3>2 DEF FindUsersTicket, OpenFails, Steps
        <4> QED
          BY <1>2, <4>1
      <3> QED
        BY <1>3, <3>1, <3>2
    <2>2. OpenOK(t)'
      BY <1>1, <2>4, <2>1 DEF OpenOK
    <2>3. TicketOK(t)'
      BY <1>1, <2>1 DEF TicketOK, ghosts
    <2> QED
      BY <1>1, <2>4, <2>1, <2>2, <2>3, OpenStep
  <1>4. CASE StartThread(t)
    <2>1. /\ threads' = [threads EXCEPT ![t] = "silent"] /\ threads'[t] = "silent"
          /\ UNCHANGED <<rows, active>> /\ opening[t].at = "thread"
      BY <1>4 DEF StartThread, TicketInv, TicketShapes
    <2>5. PICK o \in OpenType : /\ opening' = [opening EXCEPT ![t] = o] /\ opening'[t] = o
                                /\ o.at \in {"register", "done"}
      BY <1>2, <1>4 DEF StartThread, OpenAnswered, OpenOrder, Steps
    <2>2. OpenOK(t)'
      BY <1>1, <2>5, <2>1 DEF OpenOK
    <2>3. TicketOK(t)'
      BY <1>1, <2>1 DEF TicketOK, OpenOK, ghosts
    <2>4. PICK h \in {"none", "silent", "welcomed", "deleted"} : h = "silent"
      OBVIOUS
    <2> QED
      BY <1>1, <2>5, <2>1, <2>2, <2>3, <2>4, OpenStep
  <1>5. CASE RegisterThread(t)
    <2>1. /\ UNCHANGED <<rows, threads>> /\ active' = active \cup {t}
          /\ opening[t].at = "register"
      BY <1>5 DEF RegisterThread
    <2>5. PICK o \in OpenType : /\ opening' = [opening EXCEPT ![t] = o] /\ opening'[t] = o
                                /\ o.at \in {"insert", "done"}
      BY <1>2, <1>5 DEF RegisterThread, OpenAnswered, OpenOrder, Steps
    <2>2. OpenOK(t)'
      BY <1>1, <2>5, <2>1 DEF OpenOK
    <2>3. TicketOK(t)'
      BY <1>1, <2>1 DEF TicketOK, OpenOK, ghosts
    <2> QED
      BY <1>1, <2>5, <2>1, <2>2, <2>3, OpenStep
  <1>6. CASE InsertTicket(t)
    <2>1. PICK r \in RowType : /\ rows' = [rows EXCEPT ![t] = r] /\ rows'[t] = r
                               /\ r.state = "open" /\ r # NoRow
      <3> DEFINE r == [state |-> "open", owner |-> opening[t].user, content |-> {}]
      <3>1. opening[t].user \in Users
        BY <1>6, TicketTypes DEF InsertTicket, TicketInv, Waits, OpenType
      <3>2. r \in RowType /\ r.state = "open" /\ r # NoRow
        BY <3>1 DEF RowType, NoRow
      <3> QED
        BY <1>6, <3>2 DEF InsertTicket, TicketInv, TicketShapes
    <2>2. UNCHANGED <<threads, active>> /\ opening[t].at = "insert"
      BY <1>6 DEF InsertTicket
    <2>6. PICK o \in OpenType : /\ opening' = [opening EXCEPT ![t] = o] /\ opening'[t] = o
                                /\ o.at \in {"welcome", "done"}
      BY <1>2, <1>6 DEF InsertTicket, OpenAnswered, OpenOrder, Steps
    <2>3. OpenOK(t)'
      BY <1>1, <2>6, <2>1, <2>2 DEF OpenOK
    <2>4. TicketOK(t)'
      <3>1. t \in active /\ threads[t] = "silent" /\ rows[t] = NoRow /\ collects[t] \in Nat
        BY <1>1, <2>2 DEF OpenOK, TicketInv, TicketShapes
      <3>2. collects'[t] = 0
        BY <1>1, <3>1 DEF TicketOK, ghosts
      <3> QED
        BY <2>1, <2>2, <3>1, <3>2 DEF TicketOK
    <2>5. rows[t] = NoRow
      BY <1>1, <2>2 DEF OpenOK
    <2> QED
      BY <1>1, <2>6, <2>1, <2>2, <2>3, <2>4, <2>5, OpenStep
  <1>7. CASE SendWelcome(t)
    <2>1. /\ threads' = [threads EXCEPT ![t] = "welcomed"] /\ threads'[t] = "welcomed"
          /\ UNCHANGED <<rows, active>> /\ opening[t].at = "welcome"
      BY <1>7 DEF SendWelcome, TicketInv, TicketShapes
    <2>5. PICK o \in OpenType : /\ opening' = [opening EXCEPT ![t] = o] /\ opening'[t] = o
                                /\ o.at = "done"
      BY <1>2, <1>7 DEF SendWelcome, Steps
    <2>2. OpenOK(t)'
      BY <1>1, <2>5, <2>1 DEF OpenOK
    <2>3. TicketOK(t)'
      BY <1>1, <2>1 DEF TicketOK, OpenOK, ghosts
    <2>4. PICK h \in {"none", "silent", "welcomed", "deleted"} : h = "welcomed"
      OBVIOUS
    <2> QED
      BY <1>1, <2>5, <2>1, <2>2, <2>3, <2>4, OpenStep
  <1> QED
    BY <1>3, <1>4, <1>5, <1>6, <1>7

\* What the steps of closing k of ticket t have in common: the closing is c
\* after it, the row r, the list l, the ghosts s and n.
ClosingStep(k, t, c, r, l, s, n) ==
    /\ closing' = [closing EXCEPT ![k] = c] /\ c.ticket = t
    /\ UNCHANGED <<settings, opening, sending>>
    /\ rows[t] # NoRow /\ opening[t].at = "done"
    /\ r # NoRow /\ rows' = [rows EXCEPT ![t] = r]
    /\ r.state = rows[t].state \/ r.state = "closed"
    /\ lists' = [lists EXCEPT ![t] = l] /\ (l = lists[t] \/ l = {})
    /\ threads' = threads \/ threads' = [threads EXCEPT ![t] = "deleted"]
    /\ active' = active \/ active' = active \ {t}
    /\ seen' = [seen EXCEPT ![t] = s] /\ collects' = [collects EXCEPT ![t] = n]
    /\ ~Waits(closing[k]) => closing[k].ticket = t

LEMMA CloseStep ==
  ASSUME TicketInv, NEW k \in Closes, NEW t \in Opens, NEW c \in CloseType, NEW r \in RowType,
         NEW l \in SUBSET Messages, NEW s \in SUBSET Messages, NEW n \in Nat,
         ClosingStep(k, t, c, r, l, s, n),
         TicketOK(t)',
         \A j \in Closes : ~Waits(closing'[j]) /\ closing'[j].ticket = t => CloseOK(j)',
         n = 1 => OneReads(t)'
  PROVE  TicketInv'
  <1> USE DEF ClosingStep
  <1>1. TicketShapes'
    BY DEF TicketInv, TicketShapes
  <1>2. /\ closing'[k] = c /\ \A j \in Closes \ {k} : closing'[j] = closing[j]
        /\ rows'[t] = r /\ seen'[t] = s /\ collects'[t] = n /\ lists'[t] = l
        /\ \A u \in Opens \ {t} :
              /\ rows'[u] = rows[u] /\ threads'[u] = threads[u] /\ (u \in active' <=> u \in active)
              /\ lists'[u] = lists[u] /\ seen'[u] = seen[u] /\ collects'[u] = collects[u]
    BY DEF TicketInv, TicketShapes
  <1>3. ASSUME NEW u \in Opens \ {t} PROVE OpenOK(u)' /\ TicketOK(u)'
    <2>1. OpenOK(u)'
      BY <1>2 DEF TicketInv, OpenOK
    <2>2. TicketOK(u)
      BY DEF TicketInv
    <2> QED
      BY <1>2, <2>1, <2>2 DEF TicketOK
  <1>4. OpenOK(t)'
    <2>1. OpenOK(t) /\ opening'[t] = opening[t] /\ rows'[t] # NoRow
      BY <1>2 DEF TicketInv
    <2> QED
      BY <2>1 DEF OpenOK
  <1>5. ASSUME NEW j \in Closes PROVE CloseOK(j)'
    <2>1. CASE Waits(closing'[j])
      BY <2>1 DEF CloseOK, Waits
    <2>2. CASE ~Waits(closing'[j]) /\ closing'[j].ticket # t
      <3>1. closing'[j] = closing[j] /\ closing[j] \in CloseType
        <4>1. j # k /\ closing'[j] = closing[j]
          BY <1>2, <2>2
        <4> QED
          BY <2>2, <4>1, TicketTypes DEF TicketInv, Waits
      <3>2. closing[j].ticket \in Opens \ {t}
        BY <2>2, <3>1 DEF CloseType
      <3> QED
        BY <1>2, <2>2, <3>1, <3>2 DEF TicketInv, CloseOK, Waits
    <2> QED
      BY <2>1, <2>2
  <1>6. OneReader'
    <2> SUFFICES ASSUME NEW i \in Closes, NEW j \in Closes,
                        closing'[i].at \in Reading, closing'[j].at \in Reading,
                        closing'[i].ticket = closing'[j].ticket, collects'[closing'[i].ticket] = 1
                 PROVE  i = j
      BY DEF OneReader
    <2>1. CASE closing'[i].ticket = t
      <3>1. OneReads(t)'
        BY <1>2, <2>1
      <3> QED
        BY <2>1, <3>1 DEF OneReads
    <2>2. CASE closing'[i].ticket # t
      <3>1. closing'[i] = closing[i] /\ closing'[j] = closing[j]
        BY <1>2, <2>2
      <3>2. closing[i] \in CloseType
        BY <3>1, TicketTypes DEF TicketInv, Waits, Reading
      <3>3. collects'[closing[i].ticket] = collects[closing[i].ticket]
        BY <1>2, <2>2, <3>1, <3>2 DEF CloseType
      <3> QED
        BY <3>1, <3>3 DEF TicketInv, OneReader
    <2> QED
      BY <2>1, <2>2
  <1>7. ASSUME NEW m \in Messages PROVE SendOK(m)'
    <2>1. sending[m].at = "push" => sending[m].ticket \in Opens
      BY TicketTypes DEF TicketInv, SendType
    <2> QED
      BY <1>2, <2>1 DEF TicketInv, TicketShapes, SendOK
  <1>8. /\ \A u \in Opens : OpenOK(u)' /\ TicketOK(u)'
        /\ \A j \in Closes : CloseOK(j)'
        /\ \A m \in Messages : SendOK(m)'
    BY <1>3, <1>4, <1>5, <1>7
  <1> QED
    BY <1>1, <1>6, <1>8 DEF TicketInv

\* A closing under way, and its ticket.
LEMMA ClosingFacts ==
  ASSUME TicketInv, NEW k \in Closes, ~Waits(closing[k])
  PROVE  /\ closing[k] \in CloseType /\ closing[k].ticket \in Opens /\ closing[k].read \in SUBSET Messages
         /\ rows[closing[k].ticket] \in RowType /\ rows[closing[k].ticket] # NoRow
         /\ opening[closing[k].ticket].at = "done"
         /\ CloseOK(k) /\ TicketOK(closing[k].ticket)
         /\ lists[closing[k].ticket] \in SUBSET Messages /\ seen[closing[k].ticket] \in SUBSET Messages
         /\ collects[closing[k].ticket] \in Nat
  <1>1. closing[k] \in CloseType /\ CloseOK(k)
    BY TicketTypes DEF TicketInv
  <1>2. closing[k].ticket \in Opens /\ closing[k].read \in SUBSET Messages
    BY <1>1 DEF CloseType
  <1>3. rows[closing[k].ticket] # NoRow /\ opening[closing[k].ticket].at = "done"
    BY <1>1 DEF CloseOK
  <1>4. rows[closing[k].ticket] \in RowType
    BY <1>2, <1>3, TicketTypes DEF TicketInv
  <1>5. /\ TicketOK(closing[k].ticket)
        /\ lists[closing[k].ticket] \in SUBSET Messages /\ seen[closing[k].ticket] \in SUBSET Messages
        /\ collects[closing[k].ticket] \in Nat
    BY <1>2 DEF TicketInv, TicketShapes
  <1> QED
    BY <1>1, <1>2, <1>3, <1>4, <1>5

\* It moves on, and may take what it read with it.
LEMMA ClosesAt ==
  ASSUME TicketInv, NEW k \in Closes, ~Waits(closing[k]),
         NEW at \in {"collect", "done"} \cup Reading, NEW read \in SUBSET Messages,
         \/ CloseAt(k, at) /\ read = closing[k].read
         \/ closing' = [closing EXCEPT ![k].at = at, ![k].read = read]
  PROVE  \E c \in CloseType : /\ closing' = [closing EXCEPT ![k] = c] /\ closing'[k] = c
                              /\ c.ticket = closing[k].ticket /\ c.at = at /\ c.read = read
  <1>1. closing[k] \in CloseType
    BY ClosingFacts
  <1>2. CASE CloseAt(k, at) /\ read = closing[k].read
    <2> DEFINE c == [closing[k] EXCEPT !.at = at]
    <2>1. c \in CloseType /\ c.ticket = closing[k].ticket /\ c.at = at /\ c.read = read
      BY <1>1, <1>2 DEF CloseType
    <2> QED
      BY <1>2, <2>1 DEF CloseAt, TicketInv, TicketShapes
  <1>3. CASE closing' = [closing EXCEPT ![k].at = at, ![k].read = read]
    <2> DEFINE c == [closing[k] EXCEPT !.at = at, !.read = read]
    <2>1. c \in CloseType /\ c.ticket = closing[k].ticket /\ c.at = at /\ c.read = read
      BY <1>1 DEF CloseType
    <2>2. closing' = [closing EXCEPT ![k] = c]
      BY <1>3 DEF TicketInv, TicketShapes
    <2> QED
      BY <2>1, <2>2 DEF TicketInv, TicketShapes
  <1> QED
    BY <1>2, <1>3

\* The button pressed: nothing of the ticket is touched yet.
LEMMA PressInv ==
  ASSUME TicketInv, NEW k \in Closes, NEW t \in Opens, PressClose(k, t)
  PROVE  TicketInv'
  <1>1. PICK c \in CloseType : /\ closing' = [closing EXCEPT ![k] = c] /\ closing'[k] = c
                               /\ c.ticket = t /\ c.at = "collect"
    <2> DEFINE c == [at |-> "collect", ticket |-> t, read |-> {}]
    <2>1. c \in CloseType
      BY DEF CloseType
    <2> QED
      BY <2>1 DEF PressClose, TicketInv, TicketShapes
  <1>2. /\ UNCHANGED <<settings, opening, sending, rows, lists, threads, active, seen, collects>>
        /\ closing[k].at = "waiting" /\ threads[t] = "welcomed"
    BY DEF PressClose, store, ghosts
  <1>3. rows[t] # NoRow /\ opening[t].at = "done" /\ rows[t] \in RowType
    <2>1. opening[t].at \in {"waiting"} \cup Steps
      BY DEF TicketInv, TicketShapes, Fresh, OpenType
    <2> QED
      BY <1>2, <2>1, TicketTypes DEF TicketInv, OpenOK, Steps
  <1>4. \A j \in Closes \ {k} : closing'[j] = closing[j]
    BY <1>1 DEF TicketInv, TicketShapes
  <1>5. TicketOK(t)'
    <2>1. TicketOK(t)
      BY DEF TicketInv
    <2> QED
      BY <1>2, <2>1 DEF TicketOK
  <1>6. \A j \in Closes : CloseOK(j)'
    BY <1>1, <1>2, <1>3, <1>4 DEF TicketInv, CloseOK, Waits, Reading, Kept
  <1>7. TicketShapes' /\ OneReader'
    BY <1>1, <1>2, <1>4 DEF TicketInv, TicketShapes, OneReader, Reading
  <1>8. \A u \in Opens \ {t} : TicketOK(u)'
    BY <1>2 DEF TicketInv, TicketOK
  <1>9. (\A u \in Opens : OpenOK(u)') /\ (\A m \in Messages : SendOK(m)')
    BY <1>2 DEF TicketInv, OpenOK, SendOK
  <1> QED
    BY <1>5, <1>6, <1>7, <1>8, <1>9 DEF TicketInv

\* The list is read into the closing.
LEMMA CollectInv == ASSUME TicketInv, NEW k \in Closes, CollectMessages(k) PROVE TicketInv'
  <1>0. ~Waits(closing[k]) /\ closing[k].at = "collect"
    BY DEF CollectMessages, Waits
  <1>1. PICK t \in Opens : t = closing[k].ticket
    BY <1>0, ClosingFacts
  <1>2. /\ rows[t] \in RowType /\ rows[t] # NoRow /\ opening[t].at = "done" /\ CloseOK(k) /\ TicketOK(t)
        /\ lists[t] \in SUBSET Messages /\ seen[t] \in SUBSET Messages /\ collects[t] \in Nat
    BY <1>0, <1>1, ClosingFacts
  <1>3. PICK c \in CloseType : /\ closing' = [closing EXCEPT ![k] = c] /\ closing'[k] = c
                               /\ c.ticket = t /\ c.at = "content" /\ c.read = lists[t]
    <2> DEFINE c == [closing[k] EXCEPT !.at = "content", !.read = lists[t]]
    <2>1. closing[k] \in CloseType
      BY <1>0, ClosingFacts
    <2>2. c \in CloseType /\ c.ticket = t /\ c.at = "content" /\ c.read = lists[t]
      BY <1>1, <1>2, <2>1 DEF CloseType, Reading
    <2>3. closing' = [closing EXCEPT ![k] = c]
      BY <1>1 DEF CollectMessages, CloseOrder, TicketInv, TicketShapes
    <2> QED
      BY <2>2, <2>3 DEF TicketInv, TicketShapes
  <1>4. PICK s \in SUBSET Messages : seen' = [seen EXCEPT ![t] = s] /\ seen'[t] = s
                                     /\ s = IF collects[t] = 0 THEN lists[t] ELSE seen[t]
    BY <1>1, <1>2 DEF CollectMessages, TicketInv, TicketShapes
  <1>5. PICK n \in Nat : collects' = [collects EXCEPT ![t] = n] /\ collects'[t] = n /\ n = collects[t] + 1
    <2>1. PICK n \in Nat : n = collects[t] + 1
      BY <1>2
    <2>2. collects' = [collects EXCEPT ![t] = n]
      BY <1>1, <2>1 DEF CollectMessages
    <2> QED
      BY <2>1, <2>2 DEF TicketInv, TicketShapes
  <1>6. UNCHANGED <<settings, opening, sending, rows, lists, threads, active>>
    BY DEF CollectMessages, store
  <1>7. \A j \in Closes \ {k} : closing'[j] = closing[j]
    BY <1>3 DEF TicketInv, TicketShapes
  <1>8. TicketOK(t)'
    <2>1. collects'[t] > 0 /\ (collects'[t] = 1 => collects[t] = 0)
      BY <1>2, <1>5
    <2>2. collects[t] = 0 => t \in active
      BY <1>2 DEF TicketOK
    <2>3. collects[t] = 0 => seen'[t] = lists[t]
      BY <1>4
    <2> QED
      BY <1>2, <1>6, <2>1, <2>2, <2>3 DEF TicketOK
  <1>9. ASSUME NEW j \in Closes, ~Waits(closing'[j]), closing'[j].ticket = t PROVE CloseOK(j)'
    <2>1. CASE j = k
      <3>1. /\ closing'[j].at = "content" /\ closing'[j].ticket = t /\ closing'[j].read = lists[t]
            /\ rows'[t] # NoRow /\ opening'[t].at = "done" /\ collects'[t] > 0
        BY <1>2, <1>3, <1>5, <1>6, <2>1
      <3>2. collects'[t] = 1 => seen'[t] = lists[t]
        BY <1>2, <1>4, <1>5
      <3> QED
        BY <3>1, <3>2 DEF CloseOK, Kept
    <2>2. CASE j # k
      <3>1. closing'[j] = closing[j] /\ CloseOK(j)
        BY <1>7, <2>2 DEF TicketInv
      <3>2. ~Waits(closing[j]) /\ closing[j].ticket = t
        BY <1>9, <3>1
      <3>3. closing[j].at \in Reading => collects[t] > 0 /\ n > 1
        BY <1>2, <1>5, <3>1, <3>2 DEF CloseOK
      <3>4. closing[j].at = "delete" => rows[t].state = "closed"
        BY <3>1, <3>2 DEF CloseOK
      <3>5. closing[j].at \in Kept => closing[j].at \in Reading
        BY DEF Kept
      <3>6. /\ closing'[j] = closing[j] /\ rows'[t] = rows[t] /\ opening'[t] = opening[t]
            /\ seen'[t] = s /\ collects'[t] = n
        BY <1>4, <1>5, <1>6, <3>1
      <3> QED
        BY <1>2, <3>2, <3>3, <3>4, <3>5, <3>6 DEF CloseOK
    <2> QED
      BY <2>1, <2>2
  <1>10. ASSUME NEW i \in Closes, NEW j \in Closes, closing'[i].at \in Reading, closing'[j].at \in Reading,
                closing'[i].ticket = t, closing'[j].ticket = t, n = 1
         PROVE  i = j
    <2>1. ASSUME NEW h \in Closes, closing'[h].at \in Reading, closing'[h].ticket = t PROVE h = k
      <3> SUFFICES ASSUME h # k PROVE FALSE
        OBVIOUS
      <3>1. closing[h].at \in Reading /\ closing[h].ticket = t /\ CloseOK(h) /\ collects[t] = 0
        BY <1>2, <1>5, <1>7, <1>10, <2>1 DEF TicketInv
      <3> QED
        BY <3>1 DEF CloseOK, Waits, Reading
    <2> QED
      BY <1>10, <2>1
  <1>11. PICK r \in RowType : rows' = [rows EXCEPT ![t] = r] /\ r # NoRow /\ r.state = rows[t].state
    BY <1>2, <1>6 DEF TicketInv, TicketShapes
  <1>12. PICK l \in SUBSET Messages : lists' = [lists EXCEPT ![t] = l] /\ l = lists[t]
    BY <1>2, <1>6 DEF TicketInv, TicketShapes
  <1>13. ~Waits(closing[k]) => closing[k].ticket = t
    BY <1>0, <1>1
  <1>14. /\ UNCHANGED <<settings, opening, sending>>
         /\ r.state = rows[t].state \/ r.state = "closed"
         /\ l = lists[t] \/ l = {}
         /\ threads' = threads \/ threads' = [threads EXCEPT ![t] = "deleted"]
         /\ active' = active \/ active' = active \ {t}
    BY <1>6, <1>11, <1>12
  <1>15. \A j \in Closes : ~Waits(closing'[j]) /\ closing'[j].ticket = t => CloseOK(j)'
    BY <1>9
  <1>16. n = 1 => OneReads(t)'
    BY <1>10 DEF OneReads
  <1>17. ClosingStep(k, t, c, r, l, s, n)
    BY <1>2, <1>3, <1>4, <1>5, <1>11, <1>12, <1>13, <1>14 DEF ClosingStep
  <1> QED
    BY <1>8, <1>15, <1>16, <1>17, CloseStep

\* What a later step of closing k may make of its ticket t, and where it goes.
MovesOn(k, t, at, r, l) ==
    /\ closing[k].ticket = t /\ CloseAt(k, at)
    /\ UNCHANGED <<settings, opening, sending, ghosts>>
    /\ r # NoRow /\ rows' = [rows EXCEPT ![t] = r] /\ lists' = [lists EXCEPT ![t] = l]
    /\ r.state = rows[t].state \/ r.state = "closed"
    /\ \/ r = rows[t]
       \/ closing[k].at \in Reading /\ (collects[t] = 1 => seen[t] \subseteq r.content)
    /\ l = lists[t] \/ l = {}
    /\ threads' = threads \/ (threads' = [threads EXCEPT ![t] = "deleted"] /\ r.state = "closed")
    /\ active' = active \/ (active' = active \ {t} /\ closing[k].at \in Kept /\ r = rows[t])
    /\ at \in Reading => closing[k].at \in Reading
    /\ at = "delete" => r.state = "closed"
    /\ at \in Kept /\ collects[t] = 1 => r.content = seen[t]
    /\ collects[t] = 1 => seen[t] \subseteq l \cup r.content

LEMMA MovesOnInv ==
  ASSUME TicketInv, NEW k \in Closes, ~Waits(closing[k]), NEW t \in Opens,
         NEW at \in {"done"} \cup Reading, NEW r \in RowType, NEW l \in SUBSET Messages,
         MovesOn(k, t, at, r, l)
  PROVE  TicketInv'
  <1> USE DEF MovesOn
  <1>1. PICK c \in CloseType : /\ closing' = [closing EXCEPT ![k] = c] /\ closing'[k] = c
                               /\ c.ticket = t /\ c.at = at /\ c.read = closing[k].read
    <2>1. at \in {"collect", "done"} \cup Reading /\ closing[k].read \in SUBSET Messages
      BY ClosingFacts
    <2>2. PICK read \in SUBSET Messages : read = closing[k].read
      BY <2>1
    <2>3. \/ CloseAt(k, at) /\ read = closing[k].read
          \/ closing' = [closing EXCEPT ![k].at = at, ![k].read = read]
      BY <2>2
    <2>4. PICK c \in CloseType : /\ closing' = [closing EXCEPT ![k] = c] /\ closing'[k] = c
                                 /\ c.ticket = closing[k].ticket /\ c.at = at /\ c.read = read
      <3>1. TicketInv /\ k \in Closes /\ ~Waits(closing[k])
        OBVIOUS
      <3> QED
        BY ONLY <2>1, <2>3, <3>1, read \in SUBSET Messages, ClosesAt
    <2> QED
      BY <2>2, <2>4
  <1>2. \A j \in Closes \ {k} : closing'[j] = closing[j]
    BY <1>1 DEF TicketInv, TicketShapes
  <1>3. /\ rows[t] \in RowType /\ rows[t] # NoRow /\ opening[t].at = "done" /\ CloseOK(k) /\ TicketOK(t)
        /\ seen[t] \in SUBSET Messages /\ collects[t] \in Nat
    BY ClosingFacts
  <1>4. /\ rows'[t] = r /\ lists'[t] = l /\ opening'[t] = opening[t]
        /\ seen'[t] = seen[t] /\ collects'[t] = collects[t] /\ threads[t] # "none"
        /\ threads'[t] # "none" /\ (threads'[t] = "deleted" => r.state = "closed")
        /\ seen' = seen /\ collects' = collects
    BY <1>3 DEF TicketInv, TicketShapes, ghosts, TicketOK
  <1>5. TicketOK(t)'
    <2>1. t \notin active' => collects[t] > 0
      <3>1. closing[k].at \in Kept => collects[t] > 0
        BY <1>3 DEF CloseOK, Kept
      <3> QED
        BY <1>3, <3>1 DEF TicketOK
    <2>2. collects[t] = 1 /\ t \notin active' => seen[t] \subseteq r.content
      <3>1. closing[k].at \in Kept /\ collects[t] = 1 => rows[t].content = seen[t]
        BY <1>3 DEF CloseOK
      <3> QED
        BY <1>3, <3>1 DEF TicketOK
    <2> QED
      BY <1>3, <1>4, <2>1, <2>2 DEF TicketOK
  <1>6. ASSUME NEW j \in Closes, ~Waits(closing'[j]), closing'[j].ticket = t PROVE CloseOK(j)'
    <2>1. CASE j = k
      <3>1. closing'[j] = c /\ c.at = at /\ c.ticket = t /\ c.read = closing[k].read
        BY <1>1, <2>1
      <3>2. at \in Reading => collects[t] > 0 /\ (collects[t] = 1 => closing[k].read = seen[t])
        BY <1>3 DEF CloseOK
      <3> QED
        BY <1>3, <1>4, <3>1, <3>2 DEF CloseOK
    <2>2. CASE j # k
      <3>1. closing'[j] = closing[j] /\ CloseOK(j)
        BY <1>2, <2>2 DEF TicketInv
      <3>2. ~Waits(closing[j]) /\ closing[j].ticket = t
        BY <1>6, <3>1
      <3>3. closing[j].at = "delete" => r.state = "closed"
        BY <3>1, <3>2 DEF CloseOK
      <3>4. closing[j].at \in Reading => collects[t] > 0 /\ (collects[t] = 1 => closing[j].read = seen[t])
        BY <3>1, <3>2 DEF CloseOK
      <3>5. closing[j].at \in Kept /\ collects[t] = 1 => r.content = seen[t]
        <4>1. closing[j].at \in Reading /\ collects[t] = 1 => closing[k].at \notin Reading
          BY <2>2, <3>2 DEF TicketInv, OneReader
        <4>2. closing[j].at \in Kept /\ collects[t] = 1 => rows[t].content = seen[t]
          BY <3>1, <3>2 DEF CloseOK
        <4> QED
          BY <4>1, <4>2 DEF Kept
      <3> QED
        BY <1>3, <1>4, <3>1, <3>2, <3>3, <3>4, <3>5 DEF CloseOK
    <2> QED
      BY <2>1, <2>2
  <1>7. ASSUME NEW i \in Closes, NEW j \in Closes, closing'[i].at \in Reading, closing'[j].at \in Reading,
               closing'[i].ticket = t, closing'[j].ticket = t, collects[t] = 1
        PROVE  i = j
    <2>1. ASSUME NEW h \in Closes, closing'[h].at \in Reading, closing'[h].ticket = t
          PROVE  closing[h].at \in Reading /\ closing[h].ticket = t
      BY <1>1, <1>2, <2>1
    <2>2. /\ closing[i].at \in Reading /\ closing[i].ticket = t
          /\ closing[j].at \in Reading /\ closing[j].ticket = t
      BY <1>7, <2>1
    <2> QED
      BY <1>7, <2>2 DEF TicketInv, OneReader
  <1>8. PICK n \in Nat : collects' = [collects EXCEPT ![t] = n] /\ n = collects[t]
    BY <1>3, <1>4 DEF TicketInv, TicketShapes
  <1>12. PICK s \in SUBSET Messages : seen' = [seen EXCEPT ![t] = s]
    <2>1. seen' = [seen EXCEPT ![t] = seen[t]]
      BY <1>4 DEF TicketInv, TicketShapes
    <2> QED
      BY <1>3, <2>1
  <1>9. /\ ~Waits(closing[k]) => closing[k].ticket = t
        /\ UNCHANGED <<settings, opening, sending>>
        /\ threads' = threads \/ threads' = [threads EXCEPT ![t] = "deleted"]
        /\ active' = active \/ active' = active \ {t}
    BY <1>1
  <1>10. \A j \in Closes : ~Waits(closing'[j]) /\ closing'[j].ticket = t => CloseOK(j)'
    BY <1>6
  <1>11. n = 1 => OneReads(t)'
    BY <1>7, <1>8 DEF OneReads
  <1>13. ClosingStep(k, t, c, r, l, s, n)
    BY <1>1, <1>3, <1>8, <1>9, <1>12 DEF ClosingStep
  <1> QED
    BY <1>5, <1>10, <1>11, <1>13, CloseStep

LEMMA ClosingInv ==
  ASSUME TicketInv, NEW k \in Closes,
         \/ StoreContent(k) \/ UnregisterThread(k) \/ DropMessages(k)
         \/ MarkClosed(k) \/ DeleteThread(k) \/ CloseFails(k)
  PROVE  TicketInv'
  <1>0. /\ ~Waits(closing[k])
        /\ UNCHANGED <<settings, opening, sending, ghosts>>
    BY DEF StoreContent, UnregisterThread, DropMessages, MarkClosed, DeleteThread, CloseFails, store, Waits
  <1>1. PICK t \in Opens : t = closing[k].ticket
    BY <1>0, ClosingFacts
  <1>2. /\ rows[t] \in RowType /\ rows[t] # NoRow /\ CloseOK(k) /\ TicketOK(t)
        /\ lists[t] \in SUBSET Messages /\ seen[t] \in SUBSET Messages /\ collects[t] \in Nat
        /\ closing[k].read \in SUBSET Messages
    BY <1>0, <1>1, ClosingFacts
  <1>3. PICK held \in RowType : held = rows[t] /\ (rows' = rows => rows' = [rows EXCEPT ![t] = held])
    BY <1>2 DEF TicketInv, TicketShapes
  <1>11. PICK kept \in SUBSET Messages :
             kept = lists[t] /\ (lists' = lists => lists' = [lists EXCEPT ![t] = kept])
    BY <1>2 DEF TicketInv, TicketShapes
  <1>4. /\ closing[k].at \in Reading /\ collects[t] = 1 => closing[k].read = seen[t]
        /\ closing[k].at \in Kept /\ collects[t] = 1 => rows[t].content = seen[t]
        /\ collects[t] = 1 => seen[t] \subseteq lists[t] \cup rows[t].content
    BY <1>0, <1>1, <1>2 DEF CloseOK, TicketOK
  <1>5. CASE StoreContent(k)
    <2>1. PICK r \in RowType : /\ rows' = [rows EXCEPT ![t] = r] /\ r # NoRow
                               /\ r.state = rows[t].state /\ r.content = closing[k].read
      <3> DEFINE r == [rows[t] EXCEPT !.content = closing[k].read]
      <3>1. r \in RowType /\ r.state = rows[t].state /\ r.content = closing[k].read
        BY <1>2 DEF RowType
      <3>2. r # NoRow
        BY <3>1 DEF RowType, NoRow
      <3>3. rows' = [rows EXCEPT ![t] = r]
        BY <1>1, <1>5 DEF StoreContent, TicketInv, TicketShapes
      <3> QED
        BY <3>1, <3>2, <3>3
    <2>2. closing[k].at = "content" /\ UNCHANGED <<lists, threads, active>>
      BY <1>5 DEF StoreContent
    <2>3. closing[k].at \in Reading /\ "unregister" \in Reading
      BY <2>2 DEF Reading
    <2>4. collects[t] = 1 => r.content = seen[t] /\ seen[t] \subseteq lists[t] \cup r.content
      BY <1>4, <2>1, <2>3
    <2>7. PICK at \in {"done"} \cup Reading : at \in {"unregister", "done"} /\ CloseAt(k, at)
      BY <1>5 DEF StoreContent, CloseAnswered, CloseOrder, Reading
    <2>8. MovesOn(k, t, at, r, kept)
      BY <1>0, <1>1, <2>7, <1>2, <1>11, <2>1, <2>2, <2>3, <2>4 DEF MovesOn, Reading, Kept
    <2> QED
      BY <1>0, <1>3, <1>11, <2>1, <2>7, <2>8, MovesOnInv
  <1>6. CASE UnregisterThread(k)
    <2>1. /\ closing[k].at = "unregister" /\ UNCHANGED <<rows, lists, threads>>
          /\ active' = active \ {t}
      BY <1>1, <1>6 DEF UnregisterThread
    <2>2. closing[k].at \in Kept /\ closing[k].at \in Reading
      BY <2>1 DEF Reading, Kept
    <2>7. PICK at \in {"done"} \cup Reading : at \in {"drop", "done"} /\ CloseAt(k, at)
      BY <1>6 DEF UnregisterThread, CloseAnswered, CloseOrder, Reading
    <2>8. MovesOn(k, t, at, held, kept)
      BY <1>0, <1>1, <2>7, <1>2, <1>3, <1>11, <1>4, <2>1, <2>2 DEF MovesOn, Reading, Kept
    <2> QED
      BY <1>0, <1>3, <1>11, <2>1, <2>7, <2>8, MovesOnInv
  <1>7. CASE DropMessages(k)
    <2>1. /\ closing[k].at = "drop" /\ UNCHANGED <<rows, active, threads>>
          /\ lists' = [lists EXCEPT ![t] = {}]
      BY <1>1, <1>7 DEF DropMessages
    <2>2. closing[k].at \in Kept /\ closing[k].at \in Reading
      BY <2>1 DEF Reading, Kept
    <2>3. collects[t] = 1 => seen[t] \subseteq {} \cup rows[t].content
      BY <1>4, <2>2
    <2>4. PICK l \in SUBSET Messages : l = {}
      OBVIOUS
    <2>7. PICK at \in {"done"} \cup Reading : at \in {"state", "done"} /\ CloseAt(k, at)
      BY <1>7 DEF DropMessages, CloseAnswered, CloseOrder, Reading
    <2>8. MovesOn(k, t, at, held, l)
      BY <1>0, <1>1, <2>7, <1>2, <1>3, <1>4, <2>1, <2>2, <2>3, <2>4 DEF MovesOn, Reading, Kept
    <2> QED
      BY <1>0, <1>3, <1>11, <2>4, <2>7, <2>8, MovesOnInv
  <1>8. CASE MarkClosed(k)
    <2>1. PICK r \in RowType : /\ rows' = [rows EXCEPT ![t] = r] /\ r # NoRow
                               /\ r.state = "closed" /\ r.content = rows[t].content
      <3> DEFINE r == [rows[t] EXCEPT !.state = "closed"]
      <3>1. r \in RowType /\ r.state = "closed" /\ r.content = rows[t].content
        BY <1>2 DEF RowType
      <3>2. r # NoRow
        BY <3>1 DEF RowType, NoRow
      <3>3. rows' = [rows EXCEPT ![t] = r]
        BY <1>1, <1>8 DEF MarkClosed, TicketInv, TicketShapes
      <3> QED
        BY <3>1, <3>2, <3>3
    <2>2. closing[k].at = "state" /\ UNCHANGED <<lists, threads, active>>
      BY <1>8 DEF MarkClosed
    <2>3. closing[k].at \in Kept /\ closing[k].at \in Reading
      BY <2>2 DEF Reading, Kept
    <2>4. collects[t] = 1 => r.content = seen[t] /\ seen[t] \subseteq lists[t] \cup r.content
      BY <1>4, <2>1, <2>3
    <2>7. PICK at \in {"done"} \cup Reading : at \in {"delete", "done"} /\ CloseAt(k, at)
      BY <1>8 DEF MarkClosed, CloseAnswered, CloseOrder, Reading
    <2>8. MovesOn(k, t, at, r, kept)
      BY <1>0, <1>1, <2>7, <1>2, <1>11, <2>1, <2>2, <2>3, <2>4 DEF MovesOn, Reading, Kept
    <2> QED
      BY <1>0, <1>3, <1>11, <2>1, <2>7, <2>8, MovesOnInv
  <1>9. CASE DeleteThread(k)
    <2>1. /\ closing[k].at = "delete" /\ CloseAt(k, "done") /\ UNCHANGED <<rows, lists, active>>
          /\ threads' = [threads EXCEPT ![t] = "deleted"]
      BY <1>1, <1>9 DEF DeleteThread, CloseOrder
    <2>2. /\ rows[t].state = "closed"
          /\ "done" \notin Reading /\ "done" \notin Kept
      BY <1>0, <1>1, <1>2, <2>1 DEF CloseOK, Reading, Kept
    <2>7. PICK at \in {"done"} \cup Reading : at = "done" /\ CloseAt(k, at)
      BY <2>1, <2>2 DEF Reading
    <2>8. MovesOn(k, t, at, held, kept)
      BY <1>0, <1>1, <2>7, <1>2, <1>3, <1>11, <1>4, <2>1, <2>2 DEF MovesOn, Reading, Kept
    <2> QED
      BY <1>0, <1>3, <1>11, <2>1, <2>7, <2>8, MovesOnInv
  <1>10. CASE CloseFails(k)
    <2>1. CloseAt(k, "done") /\ UNCHANGED <<rows, lists, threads, active>>
      BY <1>10 DEF CloseFails, store
    <2>2. "done" \notin Reading /\ "done" \notin Kept
      BY DEF Reading, Kept
    <2>7. PICK at \in {"done"} \cup Reading : at = "done" /\ CloseAt(k, at)
      BY <2>1, <2>2 DEF Reading
    <2>8. MovesOn(k, t, at, held, kept)
      BY <1>0, <1>1, <2>7, <1>2, <1>3, <1>11, <1>4, <2>1, <2>2 DEF MovesOn, Reading, Kept
    <2> QED
      BY <1>0, <1>3, <1>11, <2>1, <2>7, <2>8, MovesOnInv
  <1> QED
    BY <1>5, <1>6, <1>7, <1>8, <1>9, <1>10

\* A message of a thread: kept in its list, which has a thread.
LEMMA SendingInv ==
  ASSUME TicketInv, NEW m \in Messages, (\E t \in Opens : LookUpTicket(m, t)) \/ PushMessage(m)
  PROVE  TicketInv'
  <1>1. CASE \E t \in Opens : LookUpTicket(m, t)
    <2>1. PICK t \in Opens : LookUpTicket(m, t)
      BY <1>1
    <2>2. /\ UNCHANGED <<settings, rows, active, lists, threads, opening, closing, seen, collects>>
          /\ sending' = [sending EXCEPT ![m] =
                 IF t \in active THEN [at |-> "push", ticket |-> t] ELSE [at |-> "done"]]
          /\ threads[t] # "none"
      BY <2>1 DEF LookUpTicket, store, ghosts
    <2>3. TicketShapes'
      <3>1. [at |-> "push", ticket |-> t] \in SendType
        BY DEF SendType
      <3> QED
        BY <2>2, <3>1 DEF TicketInv, TicketShapes
    <2>4. \A x \in Messages : SendOK(x)'
      BY <2>2 DEF TicketInv, TicketShapes, SendOK
    <2> QED
      BY <2>2, <2>3, <2>4 DEF TicketInv, OneReader, OpenOK, TicketOK, CloseOK
  <1>2. CASE PushMessage(m)
    <2>1. /\ UNCHANGED <<settings, rows, active, threads, opening, closing, seen, collects>>
          /\ sending[m].at = "push" /\ sending' = [sending EXCEPT ![m].at = "done"]
          /\ lists' = lists \/ lists' = [lists EXCEPT ![sending[m].ticket] = @ \cup {m}]
      BY <1>2 DEF PushMessage, ghosts
    <2>2. sending[m] \in SendType /\ sending[m].ticket \in Opens /\ threads[sending[m].ticket] # "none"
      BY <2>1, TicketTypes DEF TicketInv, SendOK, SendType
    <2>3. PICK x \in SendType : sending' = [sending EXCEPT ![m] = x] /\ x.at = "done"
      <3> DEFINE x == [sending[m] EXCEPT !.at = "done"]
      <3>1. x \in SendType /\ x.at = "done"
        BY <2>2 DEF SendType
      <3> QED
        BY <2>1, <3>1 DEF TicketInv, TicketShapes
    <2>4. TicketShapes'
      BY <2>1, <2>2, <2>3 DEF TicketInv, TicketShapes
    <2>5. \A x2 \in Messages : SendOK(x2)'
      BY <2>1, <2>3 DEF TicketInv, TicketShapes, SendOK
    <2>6. ASSUME NEW t \in Opens PROVE TicketOK(t)'
      <3>1. /\ lists[t] \subseteq lists'[t]
            /\ lists'[t] # lists[t] => threads[t] # "none"
            /\ TicketOK(t)
        BY <2>1, <2>2 DEF TicketInv, TicketShapes
      <3> QED
        BY <2>1, <3>1 DEF TicketOK
    <2> QED
      BY <2>1, <2>4, <2>5, <2>6 DEF TicketInv, OneReader, OpenOK, CloseOK
  <1> QED
    BY <1>1, <1>2

LEMMA TicketNextInv == TicketInv /\ [TicketNext]_ticketVars => TicketInv'
  <1> SUFFICES ASSUME TicketInv, [TicketNext]_ticketVars PROVE TicketInv'
    OBVIOUS
  <1>1. CASE UNCHANGED ticketVars
    BY <1>1 DEF ticketVars, TicketInv, TicketShapes, OneReader, OpenOK, TicketOK, CloseOK, SendOK
  <1>2. CASE \E s \in {"channel", "log"} : SetChannel(s)
    BY <1>2 DEF SetChannel, ghosts, TicketInv, TicketShapes, OneReader, OpenOK, TicketOK, CloseOK, SendOK
  <1>3. CASE \E t \in Opens : \/ \E u \in Users : PressOpen(t, u)
                              \/ FindUsersTicket(t) \/ StartThread(t) \/ RegisterThread(t)
                              \/ InsertTicket(t) \/ SendWelcome(t) \/ OpenFails(t)
    BY <1>3, OpeningInv
  <1>4. CASE \E m \in Messages : (\E t \in Opens : LookUpTicket(m, t)) \/ PushMessage(m)
    BY <1>4, SendingInv
  <1>5. CASE \E k \in Closes, t \in Opens : PressClose(k, t)
    BY <1>5, PressInv
  <1>6. CASE \E k \in Closes : CollectMessages(k)
    BY <1>6, CollectInv
  <1>7. CASE \E k \in Closes : \/ StoreContent(k) \/ UnregisterThread(k) \/ DropMessages(k)
                               \/ MarkClosed(k) \/ DeleteThread(k) \/ CloseFails(k)
    BY <1>7, ClosingInv
  <1> QED
    BY <1>1, <1>2, <1>3, <1>4, <1>5, <1>6, <1>7 DEF TicketNext

\* Whatever goroutines of the buttons and of the messages interleave and
\* whichever call fails, before or after it was carried out: rows, threads and
\* lists agree, a ticket is registered until a closing has read its messages, and
\* what one closing alone has read is in the list or in the row, in the row once
\* the ticket is not registered (tickets.go).
THEOREM OneClosingIsSafe == TicketSpec => []TicketsSound
  <1>1. TicketInv => TicketsSound
    <2> SUFFICES ASSUME TicketInv PROVE TicketsSound
      OBVIOUS
    <2>1. TicketTypeOK
      BY DEF TicketInv, TicketShapes, TicketTypeOK, TicketOK
    <2>2. OneClosingKeepsMessages
      BY DEF TicketInv, TicketShapes, TicketOK, OneClosingKeepsMessages
    <2> QED
      BY <2>1, <2>2 DEF TicketsSound
  <1> QED
    BY <1>1, TicketInitInv, TicketNextInv, PTL DEF TicketSpec
-----------------------------------------------------------------------------
(* LegacyHoneypot. *)
Under == {"listed", "get", "rights", "delete", "ban", "save", "count", "show"}

SentType == [at : Under, chan : Traps, user : Strangers \cup Keepers, read : {NoCount} \cup Nat]
DoneType == [at : {"done"}, chan : Traps, user : Strangers \cup Keepers]
PostType == {[at |-> "unsent"]} \cup SentType \cup DoneType

PotShapes ==
    /\ trap \in [Traps -> {"none", "saved", "open", "deleted", "unlisting", "over"}]
    /\ list \subseteq {c \in Traps : trap[c] # "none"}
    /\ row \in [Traps -> {NoCount} \cup Nat] /\ shown \in [Traps -> Nat]
    /\ post \in [Posts -> PostType]
    /\ saves \subseteq bans /\ bans \subseteq Posts /\ IsFiniteSet(bans)

\* How far a message's goroutine is, and what it has had done.
Stage(p, isBanned, saved) ==
    /\ p.at \in DOMAIN NextCall \cup {"show"} => p.user \in Strangers
    /\ p.at \in {"save", "count", "show"} => isBanned
    /\ p.at \in {"count", "show"} => saved
    /\ isBanned => p.at \in {"save", "count", "show", "done"} /\ p.user \in Strangers
    /\ saved => p.at \in {"count", "show", "done"}

\* The posts of a trap whose case is saved and whose turn to count is over.
Counted(c) == {m \in saves : Chan(m) = c /\ post[m].at # "count"}

\* What a handler has read of the count stays behind the other bans on record.
ReadOK(m) ==
    post[m] \in SentType /\ post[m].at # "listed" /\ post[m].at # "get" =>
        post[m].read <= Cardinality(In(saves, Chan(m)) \ {m})

PotInv ==
    /\ PotShapes
    /\ \A m \in Posts : Stage(post[m], m \in bans, m \in saves) /\ ReadOK(m)
    /\ \A c \in Traps : /\ row[c] <= Cardinality(Counted(c))
                        /\ shown[c] <= Cardinality(In(saves, c))
-----------------------------------------------------------------------------
LEMMA PotInitInv == PotInit => PotInv
  <1> SUFFICES ASSUME PotInit PROVE PotInv
    OBVIOUS
  <1>1. PotShapes
    BY FS_EmptySet DEF PotInit, PotShapes, PostType
  <1>2. \A m \in Posts : post[m].at = "unsent" /\ post[m] \notin SentType
    BY DEF PotInit, SentType, Under
  <1>3. \A c \in Traps : Counted(c) = {} /\ In(saves, c) = {}
    BY DEF PotInit, Counted, In
  <1>4. \A m \in Posts : Stage(post[m], m \in bans, m \in saves) /\ ReadOK(m)
    BY <1>2 DEF PotInit, Stage, ReadOK, NextCall
  <1> QED
    BY <1>1, <1>3, <1>4, FS_EmptySet DEF PotInit, PotInv, NoCount

\* A subset counts no more.
LEMMA Fewer ==
  ASSUME NEW T, IsFiniteSet(T), NEW S \in SUBSET T
  PROVE  Cardinality(S) \in Nat /\ Cardinality(T) \in Nat /\ Cardinality(S) <= Cardinality(T)
  BY FS_Subset, FS_CardinalityType

\* The cases of a trap are finitely many, and its counted posts are among them.
LEMMA Counts ==
  ASSUME PotShapes, NEW c
  PROVE  /\ IsFiniteSet(In(saves, c)) /\ Cardinality(In(saves, c)) \in Nat
         /\ Cardinality(Counted(c)) \in Nat /\ Cardinality(Counted(c)) <= Cardinality(In(saves, c))
         /\ \A m \in Posts : /\ Cardinality(In(saves, c) \ {m}) \in Nat
                             /\ Cardinality(In(saves, c) \ {m}) <= Cardinality(In(saves, c))
                             /\ m \in In(saves, c) => Cardinality(In(saves, c)) = Cardinality(In(saves, c) \ {m}) + 1
                             /\ m \notin In(saves, c) => In(saves, c) \ {m} = In(saves, c)
  <1>1. In(saves, c) \subseteq bans /\ IsFiniteSet(bans)
    BY DEF PotShapes, In
  <1>2. IsFiniteSet(In(saves, c)) /\ Cardinality(In(saves, c)) \in Nat
    BY <1>1, FS_Subset, FS_CardinalityType
  <1>3. Counted(c) \subseteq In(saves, c)
    BY DEF PotShapes, Counted, In
  <1>4. Cardinality(Counted(c)) \in Nat /\ Cardinality(Counted(c)) <= Cardinality(In(saves, c))
    BY <1>2, <1>3, Fewer
  <1>5. ASSUME NEW m \in Posts
        PROVE  /\ Cardinality(In(saves, c) \ {m}) \in Nat
               /\ Cardinality(In(saves, c) \ {m}) <= Cardinality(In(saves, c))
               /\ m \in In(saves, c) => Cardinality(In(saves, c)) = Cardinality(In(saves, c) \ {m}) + 1
    <2>1. Cardinality(In(saves, c) \ {m}) = IF m \in In(saves, c) THEN Cardinality(In(saves, c)) - 1
                                                                ELSE Cardinality(In(saves, c))
      BY <1>2, FS_RemoveElement
    <2>2. In(saves, c) \ {m} \in SUBSET In(saves, c)
      OBVIOUS
    <2>3. Cardinality(In(saves, c) \ {m}) \in Nat
      BY <1>2, <2>2, Fewer
    <2> QED
      BY <1>2, <2>1, <2>3
  <1> QED
    BY <1>2, <1>4, <1>5

\* A post under way or over has a channel and a user.
LEMMA Sent ==
  ASSUME PotShapes, NEW m \in Posts, post[m].at # "unsent"
  PROVE  /\ post[m].chan \in Traps /\ post[m].user \in Strangers \cup Keepers
         /\ post[m].at # "done" => post[m] \in SentType
  BY DEF PotShapes, PostType, SentType, DoneType

\* What the steps of one message's goroutine have in common: it keeps its
\* channel, and the bans and the cases only grow, by that message.
LEMMA PostStep ==
  ASSUME PotInv, NEW m \in Posts, NEW p \in PostType, post' = [post EXCEPT ![m] = p],
         post[m].at # "unsent" => p.chan = post[m].chan,
         post[m].at = "unsent" => m \notin bans,
         p.at # "unsent",
         UNCHANGED <<trap, list>>,
         bans' = bans \/ bans' = bans \cup {m}, saves' = saves \/ saves' = saves \cup {m},
         saves' \subseteq bans',
         m \in saves /\ p.at = "count" => post[m].at = "count",
         Stage(p, m \in bans', m \in saves'),
         post[m] \in SentType /\ post[m].at # "listed" /\ post[m].at # "get" /\ p \in SentType =>
             p.read = post[m].read,
         p \in SentType /\ post[m].at = "get" => p.read = row[Chan(m)],
         p \in SentType /\ post[m].at \in {"unsent", "listed"} => p.at \in {"listed", "get"},
         p \in SentType => post[m].at = "unsent" \/ post[m] \in SentType,
         row' = row \/ /\ m \in saves /\ post[m].at = "count" /\ p.at # "count"
                       /\ row' = [row EXCEPT ![Chan(m)] = IF @ = NoCount THEN @ ELSE @ + 1],
         shown' = shown \/ /\ m \in saves /\ post[m].at = "show"
                           /\ shown' = [shown EXCEPT ![Chan(m)] = NewCount(m)]
  PROVE  PotInv'
  <1>1. /\ post'[m] = p /\ \A j \in Posts \ {m} : post'[j] = post[j]
        /\ \A j \in bans : j \in Posts /\ post[j].at # "unsent" /\ post'[j].chan = post[j].chan
    <2>1. \A j \in bans : j \in Posts /\ Stage(post[j], j \in bans, j \in saves)
      BY DEF PotInv, PotShapes
    <2>2. \A j \in bans : j \in Posts /\ post[j].at # "unsent"
      BY <2>1 DEF Stage
    <2> QED
      BY <2>2 DEF PotInv, PotShapes
  <1>2. PotShapes'
    <2>1. IsFiniteSet(bans')
      BY FS_AddElement DEF PotInv, PotShapes
    <2>2. row' \in [Traps -> {NoCount} \cup Nat]
      BY DEF PotInv, PotShapes, NoCount
    <2>3. shown' \in [Traps -> Nat]
      <3>1. CASE shown' = shown
        BY <3>1 DEF PotInv, PotShapes
      <3>2. CASE post[m].at = "show" /\ shown' = [shown EXCEPT ![Chan(m)] = NewCount(m)]
        <4>1. post[m].read \in {NoCount} \cup Nat
          BY <3>2, Sent DEF PotInv, SentType
        <4>2. NewCount(m) \in Nat
          BY <4>1 DEF NewCount, NoCount
        <4> QED
          BY <3>2, <4>2 DEF PotInv, PotShapes
      <3> QED
        BY <3>1, <3>2
    <2> QED
      BY <2>1, <2>2, <2>3 DEF PotInv, PotShapes
  <1>3. ASSUME NEW c PROVE In(saves, c) \subseteq In(saves, c)' /\ Counted(c) \subseteq Counted(c)'
    <2>1. In(saves, c) \subseteq In(saves, c)'
      BY <1>1 DEF In, Chan, PotInv, PotShapes
    <2>2. ASSUME NEW j \in Counted(c) PROVE j \in Counted(c)'
      <3>1. j \in saves /\ j \in saves' /\ j \in bans /\ post[j].chan = c /\ post[j].at # "count"
        BY DEF Counted, Chan, PotInv, PotShapes
      <3>2. post'[j].chan = c /\ post'[j].at # "count"
        BY <1>1, <3>1
      <3> QED
        BY <3>1, <3>2 DEF Counted, Chan
    <2> QED
      BY <2>1, <2>2
  <1>4. ASSUME NEW c
        PROVE  /\ Cardinality(In(saves, c)) <= Cardinality(In(saves, c)')
               /\ Cardinality(Counted(c)) <= Cardinality(Counted(c)')
               /\ \A j \in Posts : Cardinality(In(saves, c) \ {j}) <= Cardinality(In(saves, c)' \ {j})
    <2>1. IsFiniteSet(In(saves, c)') /\ IsFiniteSet(Counted(c)')
      <3>1. IsFiniteSet(bans') /\ In(saves, c)' \subseteq bans' /\ Counted(c)' \subseteq bans'
        BY <1>2 DEF PotShapes, In, Counted
      <3> QED
        BY <3>1, FS_Subset
    <2>2. \A j \in Posts : IsFiniteSet(In(saves, c)' \ {j}) /\ In(saves, c) \ {j} \subseteq In(saves, c)' \ {j}
      BY <1>3, <2>1, FS_Subset
    <2> QED
      BY <1>3, <2>1, <2>2, Fewer
  <1>5. ASSUME NEW j \in Posts PROVE Stage(post[j], j \in bans, j \in saves)'
    <2>1. CASE j = m
      BY <1>1, <2>1
    <2>2. CASE j # m
      BY <1>1, <2>2 DEF PotInv, Stage
    <2> QED
      BY <2>1, <2>2
  <1>8. ASSUME NEW c, NEW j
        PROVE  /\ Cardinality(In(saves, c)' \ {j}) \in Nat
               /\ Cardinality(In(saves, c)') \in Nat /\ Cardinality(Counted(c)') \in Nat
    <2>1. /\ In(saves, c)' \ {j} \subseteq bans' /\ In(saves, c)' \subseteq bans'
          /\ Counted(c)' \subseteq bans' /\ IsFiniteSet(bans')
      BY <1>2 DEF PotShapes, In, Counted
    <2> QED
      BY <2>1, Fewer
  <1>6. ASSUME NEW j \in Posts PROVE ReadOK(j)'
    <2> SUFFICES ASSUME post'[j] \in SentType, post'[j].at # "listed", post'[j].at # "get",
                        NEW c, c = post'[j].chan
                 PROVE  post'[j].read <= Cardinality(In(saves, c)' \ {j})
      BY DEF ReadOK, Chan
    <2>0. /\ c \in Traps
          /\ Cardinality(In(saves, c) \ {j}) <= Cardinality(In(saves, c)' \ {j})
          /\ Cardinality(In(saves, c) \ {j}) \in Nat /\ Cardinality(In(saves, c)' \ {j}) \in Nat
      BY <1>4, <1>8, Counts DEF PotInv, SentType
    <2>1. CASE j # m \/ (post[m] \in SentType /\ post[m].at # "listed" /\ post[m].at # "get")
      <3>1. /\ post'[j].read = post[j].read /\ post[j].chan = c
            /\ post[j] \in SentType /\ post[j].at # "listed" /\ post[j].at # "get"
        BY <1>1, <2>1 DEF SentType, Under
      <3>2. post[j].read <= Cardinality(In(saves, c) \ {j}) /\ post[j].read \in {NoCount} \cup Nat
        BY <3>1 DEF PotInv, ReadOK, Chan, SentType
      <3> QED
        BY <2>0, <3>1, <3>2 DEF NoCount
    <2>2. CASE j = m /\ post[m].at = "get"
      <3>1. p.read = row[c] /\ Chan(m) = c
        BY <1>1, <2>2 DEF Chan
      <3>2. m \notin saves
        BY <2>2 DEF PotInv, Stage
      <3>3. In(saves, c) \ {j} = In(saves, c)
        BY <2>2, <3>2 DEF In
      <3>6. Cardinality(In(saves, c)) <= Cardinality(In(saves, c)' \ {j})
        BY <2>0, <3>3
      <3>7. post'[j].read = row[c]
        BY <1>1, <2>2, <3>1
      <3>4. row[c] <= Cardinality(Counted(c)) /\ row[c] \in {NoCount} \cup Nat
        BY <2>0 DEF PotInv, PotShapes
      <3>5. /\ Cardinality(Counted(c)) <= Cardinality(In(saves, c))
            /\ Cardinality(Counted(c)) \in Nat /\ Cardinality(In(saves, c)) \in Nat
        BY Counts DEF PotInv
      <3> QED
        BY <2>0, <3>4, <3>5, <3>6, <3>7 DEF NoCount
    <2> QED
      BY <1>1, <2>1, <2>2
  <1>7. ASSUME NEW c \in Traps
        PROVE  /\ row'[c] <= Cardinality(Counted(c)')
               /\ shown'[c] <= Cardinality(In(saves, c)')
    <2>1. /\ row[c] <= Cardinality(Counted(c)) /\ Cardinality(Counted(c)) <= Cardinality(Counted(c)')
          /\ shown[c] <= Cardinality(In(saves, c)) /\ Cardinality(In(saves, c)) <= Cardinality(In(saves, c)')
          /\ Cardinality(Counted(c)) \in Nat /\ Cardinality(In(saves, c)) \in Nat
          /\ row[c] \in {NoCount} \cup Nat /\ shown[c] \in Nat
      BY <1>4, Counts DEF PotInv, PotShapes
    <2>2. Cardinality(Counted(c)') \in Nat /\ Cardinality(In(saves, c)') \in Nat
      BY <1>8
    <2>3. row'[c] <= Cardinality(Counted(c)')
      <3>1. CASE row'[c] = row[c]
        BY <2>1, <2>2, <3>1 DEF NoCount
      <3>2. CASE row'[c] # row[c]
        <4>1. /\ m \in saves /\ post[m].at = "count" /\ p.at # "count" /\ Chan(m) = c
              /\ row'[c] = row[c] + 1
          BY <3>2 DEF PotInv, PotShapes
        <4>2. m \notin Counted(c) /\ m \in Counted(c)'
          <5>1. m \in saves' /\ post'[m].chan = c /\ post'[m].at # "count"
            BY <1>1, <4>1 DEF Chan
          <5> QED
            BY <4>1, <5>1 DEF Counted, Chan
        <4>3. Counted(c) \subseteq Counted(c)' \ {m} /\ IsFiniteSet(Counted(c)')
          <5>1. Counted(c)' \subseteq bans' /\ IsFiniteSet(bans')
            BY <1>2 DEF PotShapes, Counted
          <5> QED
            BY <1>3, <4>2, <5>1, FS_Subset
        <4>4. /\ IsFiniteSet(Counted(c)' \ {m})
              /\ Cardinality(Counted(c)' \ {m}) = Cardinality(Counted(c)') - 1
          BY <4>2, <4>3, FS_RemoveElement
        <4>5. Cardinality(Counted(c)) <= Cardinality(Counted(c)' \ {m})
          BY <4>3, <4>4, Fewer
        <4> QED
          BY <2>1, <2>2, <4>1, <4>4, <4>5 DEF NoCount
      <3> QED
        BY <3>1, <3>2
    <2>4. shown'[c] <= Cardinality(In(saves, c)')
      <3>1. CASE shown'[c] = shown[c]
        BY <2>1, <2>2, <3>1
      <3>2. CASE shown'[c] # shown[c]
        <4>1. m \in saves /\ post[m].at = "show" /\ Chan(m) = c /\ shown'[c] = post[m].read + 1
          BY <3>2 DEF PotInv, PotShapes, NewCount
        <4>2. post[m] \in SentType /\ post[m].read \in {NoCount} \cup Nat
          BY <4>1, Sent DEF PotInv, SentType
        <4>3. post[m].read <= Cardinality(In(saves, c) \ {m})
          BY <4>1, <4>2 DEF PotInv, ReadOK
        <4>4. m \in In(saves, c)
          BY <4>1 DEF In
        <4>5. /\ Cardinality(In(saves, c)) = Cardinality(In(saves, c) \ {m}) + 1
              /\ Cardinality(In(saves, c) \ {m}) \in Nat
          BY <4>4, Counts DEF PotInv
        <4> QED
          BY <2>1, <2>2, <4>1, <4>2, <4>3, <4>5 DEF NoCount
      <3> QED
        BY <3>1, <3>2
    <2> QED
      BY <2>3, <2>4
  <1> QED
    BY <1>2, <1>5, <1>6, <1>7 DEF PotInv

LEMMA HandlingInv == ASSUME PotInv, NEW m \in Posts, Handling(m) PROVE PotInv'
  <1>0. /\ post[m].at # "unsent" /\ post[m].at # "done" /\ UNCHANGED <<trap, list>>
        /\ Stage(post[m], m \in bans, m \in saves)
    BY DEF Handling, CheckList, GetHoneypot, CheckRights, HandleHoneypotMessage, ShowCount, trapVars,
           NextCall, PotInv
  <1>1. /\ post[m] \in SentType /\ post[m].chan \in Traps /\ post[m].user \in Strangers \cup Keepers
        /\ saves \subseteq bans
    BY <1>0, Sent DEF PotInv, PotShapes
  <1>9. ASSUME Ends(m)
        PROVE  \E p \in PostType : /\ post' = [post EXCEPT ![m] = p] /\ p.chan = post[m].chan
                                   /\ p.at = "done" /\ p \notin SentType /\ p.user = post[m].user
    <2> DEFINE p == [at |-> "done", chan |-> post[m].chan, user |-> post[m].user]
    <2>1. p \in PostType /\ p \notin SentType
      BY <1>1 DEF PostType, DoneType, SentType, Under
    <2> QED
      BY <1>9, <2>1 DEF Ends, PotInv, PotShapes
  \* The goroutine ends.
  <1>2. ASSUME Ends(m), UNCHANGED <<bans, saves, row>>,
               shown' = shown \/ /\ m \in saves /\ post[m].at = "show"
                                 /\ shown' = [shown EXCEPT ![Chan(m)] = NewCount(m)]
        PROVE  PotInv'
    <2>1. PICK p \in PostType : /\ post' = [post EXCEPT ![m] = p] /\ p.chan = post[m].chan
                                /\ p.at = "done" /\ p \notin SentType /\ p.user = post[m].user
      BY <1>2, <1>9
    <2>2. Stage(p, m \in bans', m \in saves')
      BY <1>0, <1>2, <2>1 DEF Stage, NextCall
    <2> QED
      BY <1>0, <1>1, <1>2, <2>1, <2>2, PostStep
  \* It goes on.
  <1>3. ASSUME NEW at \in Under, Goes(m, at)
        PROVE  \E p \in PostType : /\ post' = [post EXCEPT ![m] = p] /\ p.chan = post[m].chan
                                   /\ p.at = at /\ p \in SentType /\ p.user = post[m].user
                                   /\ p.read = post[m].read
    <2> DEFINE p == [post[m] EXCEPT !.at = at]
    <2>1. p \in SentType /\ p.chan = post[m].chan /\ p.at = at /\ p.user = post[m].user /\ p.read = post[m].read
      BY <1>1 DEF SentType
    <2>2. post' = [post EXCEPT ![m] = p]
      BY <1>3 DEF Goes, PotInv, PotShapes
    <2> QED
      BY <2>1, <2>2 DEF PostType
  <1>4. CASE CheckList(m)
    <2>1. CASE Goes(m, "get")
      <3>1. PICK p \in PostType : /\ post' = [post EXCEPT ![m] = p] /\ p.chan = post[m].chan
                                  /\ p.at = "get" /\ p \in SentType /\ p.user = post[m].user
        BY <1>3, <2>1 DEF Under
      <3>2. UNCHANGED <<bans, saves, row, shown>> /\ post[m].at = "listed"
        BY <1>4 DEF CheckList, trapVars
      <3>3. Stage(p, m \in bans', m \in saves')
        BY <1>0, <3>1, <3>2 DEF Stage, NextCall
      <3> QED
        BY <1>0, <1>1, <3>1, <3>2, <3>3, PostStep
    <2>2. CASE Ends(m)
      BY <1>2, <1>4, <2>2 DEF CheckList, trapVars
    <2> QED
      BY <1>4, <2>1, <2>2 DEF CheckList
  <1>5. CASE GetHoneypot(m)
    <2>1. CASE post' = [post EXCEPT ![m].read = row[Chan(m)], ![m].at = "rights"]
      <3>1. PICK p \in PostType : /\ post' = [post EXCEPT ![m] = p] /\ p.chan = post[m].chan
                                  /\ p.at = "rights" /\ p \in SentType /\ p.user = post[m].user
                                  /\ p.read = row[Chan(m)]
        <4> DEFINE p == [post[m] EXCEPT !.read = row[Chan(m)], !.at = "rights"]
        <4>0. row[Chan(m)] \in {NoCount} \cup Nat
          BY <1>1 DEF PotInv, PotShapes, Chan
        <4>1. /\ p \in SentType /\ p.chan = post[m].chan /\ p.at = "rights" /\ p.user = post[m].user
              /\ p.read = row[Chan(m)]
          BY <1>1, <4>0 DEF SentType, Under
        <4>2. post' = [post EXCEPT ![m] = p]
          BY <2>1 DEF PotInv, PotShapes
        <4> QED
          BY <4>1, <4>2 DEF PostType
      <3>2. UNCHANGED <<bans, saves, row, shown>> /\ post[m].at = "get"
        BY <1>5 DEF GetHoneypot, trapVars
      <3>3. Stage(p, m \in bans', m \in saves')
        BY <1>0, <3>1, <3>2 DEF Stage, NextCall
      <3> QED
        BY <1>0, <1>1, <3>1, <3>2, <3>3, PostStep
    <2>2. CASE Ends(m)
      BY <1>2, <1>5, <2>2 DEF GetHoneypot, trapVars
    <2> QED
      BY <1>5, <2>1, <2>2 DEF GetHoneypot
  <1>6. CASE CheckRights(m)
    <2>1. CASE Goes(m, "delete") /\ ~LetsOff(post[m].user)
      <3>1. PICK p \in PostType : /\ post' = [post EXCEPT ![m] = p] /\ p.chan = post[m].chan
                                  /\ p.at = "delete" /\ p \in SentType /\ p.user = post[m].user
                                  /\ p.read = post[m].read
        BY <1>3, <2>1 DEF Under
      <3>2. UNCHANGED <<bans, saves, row, shown>> /\ post[m].at = "rights"
        BY <1>6 DEF CheckRights, trapVars
      <3>4. p.user \in Strangers
        BY <1>1, <2>1, <3>1 DEF LetsOff
      <3>3. Stage(p, m \in bans', m \in saves')
        BY <1>0, <3>1, <3>2, <3>4 DEF Stage
      <3> QED
        BY <1>0, <1>1, <3>1, <3>2, <3>3, PostStep
    <2>2. CASE Ends(m)
      BY <1>2, <1>6, <2>2 DEF CheckRights, trapVars
    <2> QED
      BY <1>6, <2>1, <2>2 DEF CheckRights
  <1>7. CASE HandleHoneypotMessage(m)
    <2>1. CASE Ends(m) /\ UNCHANGED <<bans, saves, row>>
      BY <1>2, <1>7, <2>1 DEF HandleHoneypotMessage
    <2>2. CASE /\ Goes(m, NextCall[post[m].at]) \/ Ends(m)
               /\ bans' = IF post[m].at = "ban" THEN bans \cup {m} ELSE bans
               /\ saves' = IF post[m].at = "save" THEN saves \cup {m} ELSE saves
               /\ IF post[m].at = "count" THEN Increment(Chan(m)) ELSE UNCHANGED row
      <3>1. /\ post[m].at \in {"delete", "ban", "save", "count"} /\ shown' = shown
            /\ NextCall[post[m].at] \in {"ban", "save", "count", "show"}
        BY <1>7 DEF HandleHoneypotMessage, NextCall
      <3>2. PICK p \in PostType : /\ post' = [post EXCEPT ![m] = p] /\ p.chan = post[m].chan
                                  /\ p.user = post[m].user
                                  /\ p.at \in {NextCall[post[m].at], "done"}
                                  /\ p \in SentType => p.read = post[m].read
        <4>1. CASE Goes(m, NextCall[post[m].at])
          BY <1>3, <3>1, <4>1 DEF Under
        <4>2. CASE Ends(m)
          BY <1>9, <4>2
        <4> QED
          BY <2>2, <4>1, <4>2
      <3>3. Stage(p, m \in bans', m \in saves')
        BY <1>0, <2>2, <3>1, <3>2 DEF Stage, NextCall
      <3>4. /\ saves' \subseteq bans'
            /\ row' = row \/ /\ m \in saves /\ post[m].at = "count" /\ p.at # "count"
                             /\ row' = [row EXCEPT ![Chan(m)] = IF @ = NoCount THEN @ ELSE @ + 1]
        BY <1>0, <1>1, <2>2, <3>1, <3>2 DEF Stage, NextCall, Increment
      <3>5. /\ bans' = bans \/ bans' = bans \cup {m}
            /\ saves' = saves \/ saves' = saves \cup {m}
            /\ m \in saves /\ p.at = "count" => post[m].at = "count"
        BY <1>0, <2>2, <3>1, <3>2 DEF Stage, NextCall
      <3>6. post[m].at # "unsent" /\ post[m].at # "get" /\ post[m].at # "listed" /\ p.at # "unsent"
        BY <3>1, <3>2
      <3> QED
        BY <1>0, <1>1, <3>1, <3>2, <3>3, <3>4, <3>5, <3>6, PostStep
    <2> QED
      BY <1>7, <2>1, <2>2 DEF HandleHoneypotMessage
  <1>8. CASE ShowCount(m)
    <2>1. post[m].at = "show" /\ m \in saves
      BY <1>0, <1>8 DEF ShowCount, Stage
    <2> QED
      BY <1>2, <1>8, <2>1 DEF ShowCount, trapVars
  <1> QED
    BY <1>4, <1>5, <1>6, <1>7, <1>8 DEF Handling

LEMMA WriteInv ==
  ASSUME PotInv, NEW m \in Posts, NEW c \in Traps, NEW u \in Strangers \cup Keepers, Write(m, c, u)
  PROVE  PotInv'
  <1>1. PICK p \in PostType : /\ post' = [post EXCEPT ![m] = p] /\ p.at = "listed" /\ p \in SentType
    <2> DEFINE p == [at |-> "listed", chan |-> c, user |-> u, read |-> 0]
    <2>1. p \in SentType
      BY DEF SentType, Under
    <2> QED
      BY <2>1 DEF Write, PostType
  <1>2. UNCHANGED <<trap, list, bans, saves, row, shown>> /\ post[m].at = "unsent" /\ saves \subseteq bans
    BY DEF Write, trapVars, PotInv, PotShapes
  <1>3. m \notin bans /\ m \notin saves /\ post[m] \notin SentType
    BY <1>2 DEF PotInv, Stage, SentType, Under
  <1>4. Stage(p, m \in bans', m \in saves')
    BY <1>1, <1>2, <1>3 DEF Stage, NextCall
  <1> QED
    BY <1>1, <1>2, <1>3, <1>4, PostStep

LEMMA TrappingInv == ASSUME PotInv, NEW c \in Traps, Trapping(c) PROVE PotInv'
  <1>1. UNCHANGED <<post, bans, saves, shown>>
    BY DEF Trapping, CreateTrap, ListTrap, DeleteChannel, ForgetRow, UnlistTrap
  <1>2. row' = row \/ row' = [row EXCEPT ![c] = 0] \/ row' = [row EXCEPT ![c] = NoCount]
    BY DEF Trapping, CreateTrap, ListTrap, DeleteChannel, ForgetRow, UnlistTrap
  <1>3. list' \subseteq {d \in Traps : trap'[d] # "none"}
    <2>1. \E at \in {"saved", "open", "deleted", "unlisting", "over"} : trap' = [trap EXCEPT ![c] = at]
      BY DEF Trapping, CreateTrap, ListTrap, DeleteChannel, ForgetRow, UnlistTrap
    <2>2. list' \subseteq list \cup {c}
      BY DEF Trapping, CreateTrap, ListTrap, DeleteChannel, ForgetRow, UnlistTrap
    <2> QED
      BY <2>1, <2>2 DEF PotInv, PotShapes
  <1>7. trap' \in [Traps -> {"none", "saved", "open", "deleted", "unlisting", "over"}]
    BY DEF Trapping, CreateTrap, ListTrap, DeleteChannel, ForgetRow, UnlistTrap, PotInv, PotShapes
  <1>4. PotShapes'
    BY <1>1, <1>7, <1>2, <1>3 DEF PotInv, PotShapes
  <1>5. ASSUME NEW d \in Traps PROVE row'[d] <= Cardinality(Counted(d))
    <2>1. row'[d] \in {row[d], 0, NoCount} /\ row[d] <= Cardinality(Counted(d))
      BY <1>2 DEF PotInv, PotShapes
    <2>2. Cardinality(Counted(d)) \in Nat
      BY Counts DEF PotInv
    <2> QED
      BY <2>1, <2>2 DEF NoCount
  <1> QED
    BY <1>1, <1>4, <1>5 DEF PotInv, Counted, In, Chan, ReadOK

LEMMA PotNextInv == PotInv /\ [PotNext]_potVars => PotInv'
  <1> SUFFICES ASSUME PotInv, [PotNext]_potVars PROVE PotInv'
    OBVIOUS
  <1>1. CASE UNCHANGED potVars
    BY <1>1 DEF potVars, trapVars, PotInv, PotShapes, Counted, In, Chan, ReadOK
  <1>2. CASE \E c \in Traps : Trapping(c)
    BY <1>2, TrappingInv
  <1>3. CASE \E m \in Posts : \/ \E c \in Traps, u \in Strangers \cup Keepers : Write(m, c, u)
                              \/ Handling(m)
    BY <1>3, WriteInv, HandlingInv
  <1> QED
    BY <1>1, <1>2, <1>3 DEF PotNext

\* Whatever messages of a raid are handled side by side and whichever call
\* fails: cases are of bans that were carried out on visitors, a honeypot's
\* row counts no ban whose case is not saved, and the number it shows is
\* never above the bans on record, one for each message that led to one
\* (HandleHoneypotMessage).
THEOREM CountsTellTruth == PotSpec => []CountsTellBans
  <1>1. PotInv => CountsTellBans
    <2> SUFFICES ASSUME PotInv PROVE CountsTellBans
      OBVIOUS
    <2>1. PotTypeOK
      BY DEF PotInv, PotShapes, PotTypeOK, Stage
    <2>2. ASSUME NEW c \in Traps PROVE row[c] = NoCount \/ row[c] <= Cardinality(In(saves, c))
      <3>1. IsFiniteSet(In(saves, c)) /\ Counted(c) \subseteq In(saves, c)
        <4>1. In(saves, c) \subseteq bans /\ IsFiniteSet(bans) /\ Counted(c) \subseteq In(saves, c)
          BY DEF PotInv, PotShapes, In, Counted
        <4> QED
          BY <4>1, FS_Subset
      <3>2. /\ Cardinality(Counted(c)) \in Nat /\ Cardinality(In(saves, c)) \in Nat
            /\ Cardinality(Counted(c)) <= Cardinality(In(saves, c))
        BY <3>1, Fewer
      <3> QED
        BY <3>2 DEF PotInv, PotShapes
    <2>3. CountsOnlyRecorded
      BY <2>2 DEF CountsOnlyRecorded
    <2>4. ShownNeverAhead
      BY DEF PotInv, ShownNeverAhead
    <2> QED
      BY <2>1, <2>3, <2>4 DEF CountsTellBans
  <1> QED
    BY <1>1, PotInitInv, PotNextInv, PTL DEF PotSpec
-----------------------------------------------------------------------------
(* LegacyBans. *)
AllKinds == {"Ban", "Kick", "TimeoutAdd", "Warn", "CasesAdd", "Unban",
             "AppealSubmit", "AppealAccept", "AppealReject"}
Pressed  == {"AppealAccept", "AppealReject"}
CallsOf(command) == Does[command].steps

JobType == [kind : AllKinds, on : Members, appeal : Nat, at : Nat,
            end : {"running", "done", "failed", "lost"},
            acted : BOOLEAN, vain : BOOLEAN, saved : BOOLEAN, ban : Nat, found : SUBSET Nat]
CaseType == [n : Nat \ {0}, user : Members, by : Nat, type : {"ban", "kick", "timeout", "warn", "unban", "none"}]
AppealType == [user : Members, case : Nat, by : Nat,
               status : {"pending", "accepted", "rejected"},
               review : {"none", "open", "Accepted", "Rejected"}]

BanShapes ==
    /\ job \in Seq(JobType) /\ Len(job) <= MaxJobs
    /\ banned \subseteq Members /\ buttons \subseteq Members
    /\ cases \subseteq CaseType /\ appeals \in Seq(AppealType)

\* A call of this kind is among the first n.
Made(command, n, call) == \E i \in 1..n : CallsOf(command)[i] = call

\* What a job has done is what its list says up to where it is.
JobOK(r) ==
    /\ r.end = "running" =>
           /\ r.at \in 1..Len(CallsOf(r.kind))
           /\ (r.acted \/ r.vain <=> Made(r.kind, r.at - 1, "act"))
           /\ (r.saved <=> Made(r.kind, r.at - 1, "save"))
    /\ r.vain => r.kind = "TimeoutAdd"
    /\ r.end = "failed" /\ r.acted /\ ~r.saved => CallsOf(r.kind)[r.at] \in {"act", "save"}
    /\ r.end = "done" /\ r.acted => r.saved
    /\ r.end # "running" => r.found = {}

\* A job on appeals is about the member who made them.
LinkOK(r) ==
    /\ r.kind \in Pressed => r.appeal \in DOMAIN appeals /\ appeals[r.appeal].user = r.on
    /\ \A a \in r.found : a \in DOMAIN appeals /\ appeals[a].user = r.on

StoredJobs == {j \in Jobs : job[j].saved}

CaseOK(c) ==
    /\ c.by \in Jobs /\ c.n <= Cardinality(StoredJobs)
    /\ c.type # "warn" => job[c.by].acted \/ (c.type = "timeout" /\ job[c.by].vain)

\* Decisions on appeal a that its record x tells of.
AppealOK(a, x) ==
    /\ x.status = "accepted" => x.by \in Jobs /\ job[x.by].acted /\ job[x.by].on = x.user
    /\ x.review = "Accepted" => \E j \in Jobs : job[j].appeal = a /\ job[j].acted /\ job[j].saved

BanInv ==
    /\ BanShapes
    /\ \A j \in Jobs : JobOK(job[j]) /\ LinkOK(job[j])
    /\ \A c \in cases : CaseOK(c)
    /\ \A c, d \in cases : c.n = d.n => c = d
    /\ \A a \in DOMAIN appeals : AppealOK(a, appeals[a])
-----------------------------------------------------------------------------
\* What the lists of calls have in common: a case is saved once, after the
\* act it records if it records one; no other call that can end a job comes
\* after the act; and appeals are decided after it.
CallFacts(command, i) ==
    /\ CallsOf(command)[i] = "save" => ~Made(command, i - 1, "save")
    /\ CallsOf(command)[i] = "save" /\ Does[command].type # "warn" => Made(command, i - 1, "act")
    /\ CallsOf(command)[i] \in {"act", "check", "file", "look"} => ~Made(command, i - 1, "act")
    /\ CallsOf(command)[i] \in {"decide", "review"} => command \in Pressed
    /\ CallsOf(command)[i] \in {"decide", "resolve"} /\ command # "AppealReject" => Made(command, i - 1, "act")
    /\ CallsOf(command)[i] = "review" /\ command = "AppealAccept" =>
           Made(command, i - 1, "act") /\ Made(command, i - 1, "save")
    /\ CallsOf(command)[i] = "file" => command = "AppealSubmit"
    /\ CallsOf(command)[i] = "resolve" => command = "Unban"

LEMMA CallsFacts ==
  ASSUME NEW command \in AllKinds
  PROVE  /\ command \in DOMAIN Does /\ Len(CallsOf(command)) \in Nat \ {0}
         /\ Does[command].type \in {"ban", "kick", "timeout", "warn", "unban", "none"}
         /\ \A i \in 1..Len(CallsOf(command)) : CallFacts(command, i)
         /\ Made(command, Len(CallsOf(command)), "act") => Made(command, Len(CallsOf(command)), "save")
  <1>1. CASE command = "Ban"
    <2>1. /\ "Ban" \in DOMAIN Does /\ Does["Ban"].type = "ban" /\ Len(CallsOf("Ban")) = 4
          /\ CallsOf("Ban")[1] = "dm" /\ CallsOf("Ban")[2] = "act" /\ CallsOf("Ban")[3] = "edit"
          /\ CallsOf("Ban")[4] = "save"
      BY DEF Does, CallsOf, Ban
    <2>2. \A i \in 0..4 : Made("Ban", i, "act") <=> i >= 2
      BY <2>1 DEF Made
    <2>3. \A i \in 0..4 : Made("Ban", i, "save") <=> i >= 4
      BY <2>1 DEF Made
    <2>4. 4 \in 0..4 /\ \A i \in 1..4 : i - 1 \in 0..4 /\ i \in {1, 2, 3, 4}
      OBVIOUS
    <2>5. ASSUME NEW i \in 1..4 PROVE CallFacts(command, i)
      BY <1>1, <2>1, <2>2, <2>3, <2>4 DEF CallFacts, Pressed
    <2>6. Made(command, Len(CallsOf(command)), "act") => Made(command, Len(CallsOf(command)), "save")
      BY <1>1, <2>1 DEF Made
    <2>7. command \in DOMAIN Does /\ Len(CallsOf(command)) \in Nat \ {0}
      BY <1>1, <2>1
    <2>8. Does[command].type \in {"ban", "kick", "timeout", "warn", "unban", "none"}
      BY <1>1, <2>1
    <2>9. \A i \in 1..Len(CallsOf(command)) : CallFacts(command, i)
      BY <1>1, <2>1, <2>5
    <2> QED
      BY <2>6, <2>7, <2>8, <2>9
  <1>2. CASE command = "Kick"
    <2>1. /\ "Kick" \in DOMAIN Does /\ Does["Kick"].type = "kick" /\ Len(CallsOf("Kick")) = 4
          /\ CallsOf("Kick")[1] = "dm" /\ CallsOf("Kick")[2] = "act" /\ CallsOf("Kick")[3] = "edit"
          /\ CallsOf("Kick")[4] = "save"
      BY DEF Does, CallsOf, Kick
    <2>2. \A i \in 0..4 : Made("Kick", i, "act") <=> i >= 2
      BY <2>1 DEF Made
    <2>3. \A i \in 0..4 : Made("Kick", i, "save") <=> i >= 4
      BY <2>1 DEF Made
    <2>4. 4 \in 0..4 /\ \A i \in 1..4 : i - 1 \in 0..4 /\ i \in {1, 2, 3, 4}
      OBVIOUS
    <2>5. ASSUME NEW i \in 1..4 PROVE CallFacts(command, i)
      BY <1>2, <2>1, <2>2, <2>3, <2>4 DEF CallFacts, Pressed
    <2>6. Made(command, Len(CallsOf(command)), "act") => Made(command, Len(CallsOf(command)), "save")
      BY <1>2, <2>1 DEF Made
    <2>7. command \in DOMAIN Does /\ Len(CallsOf(command)) \in Nat \ {0}
      BY <1>2, <2>1
    <2>8. Does[command].type \in {"ban", "kick", "timeout", "warn", "unban", "none"}
      BY <1>2, <2>1
    <2>9. \A i \in 1..Len(CallsOf(command)) : CallFacts(command, i)
      BY <1>2, <2>1, <2>5
    <2> QED
      BY <2>6, <2>7, <2>8, <2>9
  <1>3. CASE command = "TimeoutAdd"
    <2>1. /\ "TimeoutAdd" \in DOMAIN Does /\ Does["TimeoutAdd"].type = "timeout" /\ Len(CallsOf("TimeoutAdd")) = 4
          /\ CallsOf("TimeoutAdd")[1] = "act" /\ CallsOf("TimeoutAdd")[2] = "dm" /\ CallsOf("TimeoutAdd")[3] = "edit"
          /\ CallsOf("TimeoutAdd")[4] = "save"
      BY DEF Does, CallsOf, TimeoutAdd
    <2>2. \A i \in 0..4 : Made("TimeoutAdd", i, "act") <=> i >= 1
      BY <2>1 DEF Made
    <2>3. \A i \in 0..4 : Made("TimeoutAdd", i, "save") <=> i >= 4
      BY <2>1 DEF Made
    <2>4. 4 \in 0..4 /\ \A i \in 1..4 : i - 1 \in 0..4 /\ i \in {1, 2, 3, 4}
      OBVIOUS
    <2>5. ASSUME NEW i \in 1..4 PROVE CallFacts(command, i)
      BY <1>3, <2>1, <2>2, <2>3, <2>4 DEF CallFacts, Pressed
    <2>6. Made(command, Len(CallsOf(command)), "act") => Made(command, Len(CallsOf(command)), "save")
      BY <1>3, <2>1 DEF Made
    <2>7. command \in DOMAIN Does /\ Len(CallsOf(command)) \in Nat \ {0}
      BY <1>3, <2>1
    <2>8. Does[command].type \in {"ban", "kick", "timeout", "warn", "unban", "none"}
      BY <1>3, <2>1
    <2>9. \A i \in 1..Len(CallsOf(command)) : CallFacts(command, i)
      BY <1>3, <2>1, <2>5
    <2> QED
      BY <2>6, <2>7, <2>8, <2>9
  <1>4. CASE command = "Warn"
    <2>1. /\ "Warn" \in DOMAIN Does /\ Does["Warn"].type = "warn" /\ Len(CallsOf("Warn")) = 3
          /\ CallsOf("Warn")[1] = "dm" /\ CallsOf("Warn")[2] = "edit" /\ CallsOf("Warn")[3] = "save"
      BY DEF Does, CallsOf, Warn
    <2>2. \A i \in 0..3 : ~Made("Warn", i, "act")
      BY <2>1 DEF Made
    <2>3. \A i \in 0..3 : Made("Warn", i, "save") <=> i >= 3
      BY <2>1 DEF Made
    <2>4. 3 \in 0..3 /\ \A i \in 1..3 : i - 1 \in 0..3 /\ i \in {1, 2, 3}
      OBVIOUS
    <2>5. ASSUME NEW i \in 1..3 PROVE CallFacts(command, i)
      BY <1>4, <2>1, <2>2, <2>3, <2>4 DEF CallFacts, Pressed
    <2>6. Made(command, Len(CallsOf(command)), "act") => Made(command, Len(CallsOf(command)), "save")
      BY <1>4, <2>1 DEF Made
    <2>7. command \in DOMAIN Does /\ Len(CallsOf(command)) \in Nat \ {0}
      BY <1>4, <2>1
    <2>8. Does[command].type \in {"ban", "kick", "timeout", "warn", "unban", "none"}
      BY <1>4, <2>1
    <2>9. \A i \in 1..Len(CallsOf(command)) : CallFacts(command, i)
      BY <1>4, <2>1, <2>5
    <2> QED
      BY <2>6, <2>7, <2>8, <2>9
  <1>5. CASE command = "CasesAdd"
    <2>1. /\ "CasesAdd" \in DOMAIN Does /\ Does["CasesAdd"].type = "warn" /\ Len(CallsOf("CasesAdd")) = 3
          /\ CallsOf("CasesAdd")[1] = "dm" /\ CallsOf("CasesAdd")[2] = "edit" /\ CallsOf("CasesAdd")[3] = "save"
      BY DEF Does, CallsOf, CasesAdd
    <2>2. \A i \in 0..3 : ~Made("CasesAdd", i, "act")
      BY <2>1 DEF Made
    <2>3. \A i \in 0..3 : Made("CasesAdd", i, "save") <=> i >= 3
      BY <2>1 DEF Made
    <2>4. 3 \in 0..3 /\ \A i \in 1..3 : i - 1 \in 0..3 /\ i \in {1, 2, 3}
      OBVIOUS
    <2>5. ASSUME NEW i \in 1..3 PROVE CallFacts(command, i)
      BY <1>5, <2>1, <2>2, <2>3, <2>4 DEF CallFacts, Pressed
    <2>6. Made(command, Len(CallsOf(command)), "act") => Made(command, Len(CallsOf(command)), "save")
      BY <1>5, <2>1 DEF Made
    <2>7. command \in DOMAIN Does /\ Len(CallsOf(command)) \in Nat \ {0}
      BY <1>5, <2>1
    <2>8. Does[command].type \in {"ban", "kick", "timeout", "warn", "unban", "none"}
      BY <1>5, <2>1
    <2>9. \A i \in 1..Len(CallsOf(command)) : CallFacts(command, i)
      BY <1>5, <2>1, <2>5
    <2> QED
      BY <2>6, <2>7, <2>8, <2>9
  <1>6. CASE command = "Unban"
    <2>1. /\ "Unban" \in DOMAIN Does /\ Does["Unban"].type = "unban" /\ Len(CallsOf("Unban")) = 7
          /\ CallsOf("Unban")[1] = "invites" /\ CallsOf("Unban")[2] = "act" /\ CallsOf("Unban")[3] = "dm"
          /\ CallsOf("Unban")[4] = "list" /\ CallsOf("Unban")[5] = "resolve" /\ CallsOf("Unban")[6] = "edit"
          /\ CallsOf("Unban")[7] = "save"
      BY DEF Does, CallsOf, Unban
    <2>2. \A i \in 0..7 : Made("Unban", i, "act") <=> i >= 2
      BY <2>1 DEF Made
    <2>3. \A i \in 0..7 : Made("Unban", i, "save") <=> i >= 7
      BY <2>1 DEF Made
    <2>4. 7 \in 0..7 /\ \A i \in 1..7 : i - 1 \in 0..7 /\ i \in {1, 2, 3, 4, 5, 6, 7}
      OBVIOUS
    <2>5. ASSUME NEW i \in 1..7 PROVE CallFacts(command, i)
      BY <1>6, <2>1, <2>2, <2>3, <2>4 DEF CallFacts, Pressed
    <2>6. Made(command, Len(CallsOf(command)), "act") => Made(command, Len(CallsOf(command)), "save")
      BY <1>6, <2>1 DEF Made
    <2>7. command \in DOMAIN Does /\ Len(CallsOf(command)) \in Nat \ {0}
      BY <1>6, <2>1
    <2>8. Does[command].type \in {"ban", "kick", "timeout", "warn", "unban", "none"}
      BY <1>6, <2>1
    <2>9. \A i \in 1..Len(CallsOf(command)) : CallFacts(command, i)
      BY <1>6, <2>1, <2>5
    <2> QED
      BY <2>6, <2>7, <2>8, <2>9
  <1>7. CASE command = "AppealSubmit"
    <2>1. /\ "AppealSubmit" \in DOMAIN Does /\ Does["AppealSubmit"].type = "none" /\ Len(CallsOf("AppealSubmit")) = 5
          /\ CallsOf("AppealSubmit")[1] = "check" /\ CallsOf("AppealSubmit")[2] = "find" /\ CallsOf("AppealSubmit")[3] = "file"
          /\ CallsOf("AppealSubmit")[4] = "post" /\ CallsOf("AppealSubmit")[5] = "hide"
      BY DEF Does, CallsOf, AppealSubmit
    <2>2. \A i \in 0..5 : ~Made("AppealSubmit", i, "act")
      BY <2>1 DEF Made
    <2>3. \A i \in 0..5 : ~Made("AppealSubmit", i, "save")
      BY <2>1 DEF Made
    <2>4. 5 \in 0..5 /\ \A i \in 1..5 : i - 1 \in 0..5 /\ i \in {1, 2, 3, 4, 5}
      OBVIOUS
    <2>5. ASSUME NEW i \in 1..5 PROVE CallFacts(command, i)
      BY <1>7, <2>1, <2>2, <2>3, <2>4 DEF CallFacts, Pressed
    <2>6. Made(command, Len(CallsOf(command)), "act") => Made(command, Len(CallsOf(command)), "save")
      BY <1>7, <2>1 DEF Made
    <2>7. command \in DOMAIN Does /\ Len(CallsOf(command)) \in Nat \ {0}
      BY <1>7, <2>1
    <2>8. Does[command].type \in {"ban", "kick", "timeout", "warn", "unban", "none"}
      BY <1>7, <2>1
    <2>9. \A i \in 1..Len(CallsOf(command)) : CallFacts(command, i)
      BY <1>7, <2>1, <2>5
    <2> QED
      BY <2>6, <2>7, <2>8, <2>9
  <1>8. CASE command = "AppealAccept"
    <2>1. /\ "AppealAccept" \in DOMAIN Does /\ Does["AppealAccept"].type = "unban" /\ Len(CallsOf("AppealAccept")) = 6
          /\ CallsOf("AppealAccept")[1] = "look" /\ CallsOf("AppealAccept")[2] = "act" /\ CallsOf("AppealAccept")[3] = "decide"
          /\ CallsOf("AppealAccept")[4] = "dm" /\ CallsOf("AppealAccept")[5] = "save" /\ CallsOf("AppealAccept")[6] = "review"
      BY DEF Does, CallsOf, AppealAccept
    <2>2. \A i \in 0..6 : Made("AppealAccept", i, "act") <=> i >= 2
      BY <2>1 DEF Made
    <2>3. \A i \in 0..6 : Made("AppealAccept", i, "save") <=> i >= 5
      BY <2>1 DEF Made
    <2>4. 6 \in 0..6 /\ \A i \in 1..6 : i - 1 \in 0..6 /\ i \in {1, 2, 3, 4, 5, 6}
      OBVIOUS
    <2>5. ASSUME NEW i \in 1..6 PROVE CallFacts(command, i)
      BY <1>8, <2>1, <2>2, <2>3, <2>4 DEF CallFacts, Pressed
    <2>6. Made(command, Len(CallsOf(command)), "act") => Made(command, Len(CallsOf(command)), "save")
      BY <1>8, <2>1 DEF Made
    <2>7. command \in DOMAIN Does /\ Len(CallsOf(command)) \in Nat \ {0}
      BY <1>8, <2>1
    <2>8. Does[command].type \in {"ban", "kick", "timeout", "warn", "unban", "none"}
      BY <1>8, <2>1
    <2>9. \A i \in 1..Len(CallsOf(command)) : CallFacts(command, i)
      BY <1>8, <2>1, <2>5
    <2> QED
      BY <2>6, <2>7, <2>8, <2>9
  <1>9. CASE command = "AppealReject"
    <2>1. /\ "AppealReject" \in DOMAIN Does /\ Does["AppealReject"].type = "none" /\ Len(CallsOf("AppealReject")) = 4
          /\ CallsOf("AppealReject")[1] = "decide" /\ CallsOf("AppealReject")[2] = "look" /\ CallsOf("AppealReject")[3] = "dm"
          /\ CallsOf("AppealReject")[4] = "review"
      BY DEF Does, CallsOf, AppealReject
    <2>2. \A i \in 0..4 : ~Made("AppealReject", i, "act")
      BY <2>1 DEF Made
    <2>3. \A i \in 0..4 : ~Made("AppealReject", i, "save")
      BY <2>1 DEF Made
    <2>4. 4 \in 0..4 /\ \A i \in 1..4 : i - 1 \in 0..4 /\ i \in {1, 2, 3, 4}
      OBVIOUS
    <2>5. ASSUME NEW i \in 1..4 PROVE CallFacts(command, i)
      BY <1>9, <2>1, <2>2, <2>3, <2>4 DEF CallFacts, Pressed
    <2>6. Made(command, Len(CallsOf(command)), "act") => Made(command, Len(CallsOf(command)), "save")
      BY <1>9, <2>1 DEF Made
    <2>7. command \in DOMAIN Does /\ Len(CallsOf(command)) \in Nat \ {0}
      BY <1>9, <2>1
    <2>8. Does[command].type \in {"ban", "kick", "timeout", "warn", "unban", "none"}
      BY <1>9, <2>1
    <2>9. \A i \in 1..Len(CallsOf(command)) : CallFacts(command, i)
      BY <1>9, <2>1, <2>5
    <2> QED
      BY <2>6, <2>7, <2>8, <2>9
  <1> QED
    BY <1>1, <1>2, <1>3, <1>4, <1>5, <1>6, <1>7, <1>8, <1>9 DEF AllKinds

LEMMA MadeNext ==
  ASSUME NEW command, NEW i \in Nat \ {0}, NEW call
  PROVE  Made(command, i, call) <=> Made(command, i - 1, call) \/ CallsOf(command)[i] = call
  BY DEF Made

\* Record q is r after its call, before it moves on.
Follows(r, q, call) ==
    /\ q \in JobType /\ q.kind = r.kind /\ q.on = r.on /\ q.at = r.at /\ q.end = "running"
    /\ q.acted \/ q.vain <=> (r.acted \/ r.vain \/ call = "act")
    /\ q.vain => q.kind = "TimeoutAdd"
    /\ q.saved <=> (r.saved \/ call = "save")

LEMMA AdvancedOK ==
  ASSUME NEW r \in JobType, JobOK(r), r.end = "running", NEW q, Follows(r, q, CallsOf(r.kind)[r.at])
  PROVE  /\ Advanced(q) \in JobType /\ JobOK(Advanced(q))
         /\ Advanced(q).kind = q.kind /\ Advanced(q).on = q.on /\ Advanced(q).appeal = q.appeal
         /\ Advanced(q).acted = q.acted /\ Advanced(q).saved = q.saved /\ Advanced(q).found \subseteq q.found
         /\ Advanced(q).vain = q.vain
  <1>1. /\ r.kind \in AllKinds /\ r.at \in 1..Len(CallsOf(r.kind)) /\ q \in JobType
        /\ q.kind = r.kind /\ q.at = r.at /\ q.end = "running"
        /\ (r.acted \/ r.vain <=> Made(r.kind, r.at - 1, "act")) /\ (r.saved <=> Made(r.kind, r.at - 1, "save"))
        /\ q.vain => q.kind = "TimeoutAdd"
    BY DEF JobType, JobOK, Follows
  <1>2. Len(CallsOf(r.kind)) \in Nat \ {0} /\ r.at \in Nat \ {0}
    BY <1>1, CallsFacts
  <1>3. (q.acted \/ q.vain <=> Made(r.kind, r.at, "act")) /\ (q.saved <=> Made(r.kind, r.at, "save"))
    BY <1>1, <1>2, MadeNext DEF Follows
  <1>4. CASE q.at = Len(CallsOf(q.kind))
    <2> DEFINE n == [q EXCEPT !.end = "done", !.at = 0, !.ban = 0, !.found = {}]
    <2>1. Advanced(q) = n
      BY <1>4 DEF Advanced, Ended, CallsOf
    <2>2. /\ n \in JobType /\ n.kind = q.kind /\ n.on = q.on /\ n.appeal = q.appeal /\ n.end = "done"
          /\ n.acted = q.acted /\ n.saved = q.saved /\ n.found = {} /\ n.vain = q.vain
      BY <1>1 DEF JobType
    <2>3. q.acted => q.saved
      BY <1>1, <1>3, <1>4, CallsFacts
    <2>4. JobOK(n)
      BY <1>1, <2>2, <2>3 DEF JobOK
    <2> QED
      BY <2>1, <2>2, <2>4
  <1>5. CASE q.at # Len(CallsOf(q.kind))
    <2> DEFINE n == [q EXCEPT !.at = r.at + 1]
    <2>1. Advanced(q) = n /\ r.at + 1 \in Nat
      BY <1>1, <1>2, <1>5 DEF Advanced, CallsOf
    <2>2. /\ n \in JobType /\ n.kind = q.kind /\ n.on = q.on /\ n.appeal = q.appeal /\ n.end = "running"
          /\ n.acted = q.acted /\ n.saved = q.saved /\ n.found = q.found /\ n.at = r.at + 1 /\ n.vain = q.vain
      BY <1>1, <2>1 DEF JobType
    <2>3. n.at \in 1..Len(CallsOf(n.kind)) /\ n.at - 1 = r.at
      BY <1>1, <1>2, <1>5, <2>2
    <2>4. JobOK(n)
      BY <1>1, <1>3, <2>2, <2>3 DEF JobOK
    <2> QED
      BY <2>1, <2>2, <2>4
  <1> QED
    BY <1>4, <1>5

LEMMA Proceeds ==
  ASSUME BanInv, NEW j \in Jobs, NEW call, At(j, call), NEW q, Follows(job[j], q, call), Proceed(j, q)
  PROVE  \E r \in JobType : /\ job' = [job EXCEPT ![j] = r] /\ JobOK(r)
                            /\ r.kind = q.kind /\ r.on = q.on /\ r.appeal = q.appeal
                            /\ r.acted = q.acted /\ r.saved = q.saved /\ r.found \subseteq q.found /\ r.vain = q.vain
  <1>1. job[j] \in JobType /\ JobOK(job[j]) /\ job[j].end = "running" /\ call = CallsOf(job[j].kind)[job[j].at]
    BY DEF BanInv, BanShapes, Jobs, At, Running, CallsOf
  <1> QED
    BY <1>1, AdvancedOK DEF Proceed

\* A job that ends with an error at this call, and is q with it.
StopsAs(j, call, q) ==
    /\ At(j, call) /\ job' = [job EXCEPT ![j] = Failed(q)]
    /\ q.kind = job[j].kind /\ q.at = job[j].at /\ (q.vain => q.kind = "TimeoutAdd")
    /\ q.acted /\ ~q.saved => call \in {"act", "save"}

LEMMA Fail ==
  ASSUME BanInv, NEW j \in Jobs, NEW call, NEW q \in JobType, StopsAs(j, call, q)
  PROVE  \E r \in JobType : /\ job' = [job EXCEPT ![j] = r] /\ JobOK(r)
                            /\ r.kind = q.kind /\ r.on = q.on /\ r.appeal = q.appeal
                            /\ r.acted = q.acted /\ r.saved = q.saved /\ r.found \subseteq q.found /\ r.vain = q.vain
  <1> DEFINE r == [q EXCEPT !.end = "failed", !.ban = 0, !.found = {}]
  <1>1. call = CallsOf(job[j].kind)[job[j].at]
    BY DEF StopsAs, At, CallsOf
  <1>2. /\ r \in JobType /\ r.kind = q.kind /\ r.on = q.on /\ r.appeal = q.appeal /\ r.at = q.at
        /\ r.acted = q.acted /\ r.saved = q.saved /\ r.found = {} /\ r.end = "failed" /\ r.vain = q.vain
    BY DEF JobType
  <1>3. JobOK(r)
    BY <1>1, <1>2 DEF JobOK, StopsAs
  <1>4. job' = [job EXCEPT ![j] = r]
    BY DEF StopsAs, Failed
  <1> QED
    BY <1>2, <1>3, <1>4

LEMMA Stops ==
  ASSUME BanInv, NEW j \in Jobs, NEW call \in {"act", "save", "check", "file", "look"}, At(j, call), Stop(j)
  PROVE  \E r \in JobType : /\ job' = [job EXCEPT ![j] = r] /\ JobOK(r)
                            /\ r.kind = job[j].kind /\ r.on = job[j].on /\ r.appeal = job[j].appeal
                            /\ r.acted = job[j].acted /\ r.saved = job[j].saved /\ r.found \subseteq job[j].found
                            /\ r.vain = job[j].vain
  <1>1. job[j] \in JobType /\ JobOK(job[j]) /\ job[j].end = "running" /\ call = CallsOf(job[j].kind)[job[j].at]
    BY DEF BanInv, BanShapes, Jobs, At, Running, CallsOf
  <1>2. job[j].acted => call = "save"
    <2>1. job[j].kind \in AllKinds /\ job[j].at \in 1..Len(CallsOf(job[j].kind))
      BY <1>1 DEF JobType, JobOK
    <2>2. CallFacts(job[j].kind, job[j].at)
      BY <2>1, CallsFacts
    <2> QED
      BY <1>1, <2>2 DEF JobOK, CallFacts
  <1>3. StopsAs(j, call, job[j])
    BY <1>1, <1>2 DEF StopsAs, Stop, JobOK
  <1> QED
    BY <1>1, <1>3, Fail

\* A call that is carried out, whatever its answer.
LEMMA Carried ==
  ASSUME BanInv, NEW j \in Jobs, NEW call, At(j, call), NEW q \in JobType, Follows(job[j], q, call),
         CarriedOut(j, q), q.acted /\ ~q.saved => call \in {"act", "save"}
  PROVE  \E r \in JobType : /\ job' = [job EXCEPT ![j] = r] /\ JobOK(r)
                            /\ r.kind = q.kind /\ r.on = q.on /\ r.appeal = q.appeal
                            /\ r.acted = q.acted /\ r.saved = q.saved /\ r.found \subseteq q.found /\ r.vain = q.vain
  <1>1. CASE Proceed(j, q)
    BY <1>1, Proceeds
  <1>2. CASE job' = [job EXCEPT ![j] = Failed(q)]
    <2>1. StopsAs(j, call, q)
      BY <1>2 DEF StopsAs, Follows
    <2> QED
      BY <2>1, Fail
  <1> QED
    BY <1>1, <1>2 DEF CarriedOut
-----------------------------------------------------------------------------
\* Nothing done is undone: jobs keep their acts and cases, appeals their users.
Keeps ==
    /\ Len(job) <= Len(job')
    /\ \A j \in Jobs : /\ job'[j].on = job[j].on
                       /\ job[j].acted => job'[j].acted /\ job'[j].appeal = job[j].appeal
                       /\ job[j].saved => job'[j].saved
                       /\ job[j].vain => job'[j].vain
UsersKept ==
    /\ Len(appeals) <= Len(appeals')
    /\ \A a \in DOMAIN appeals : appeals'[a].user = appeals[a].user

AppealsKept ==
    \A a \in DOMAIN appeals' : \/ a \in DOMAIN appeals /\ appeals'[a] = appeals[a]
                               \/ AppealOK(a, appeals[a])'

\* The jobs with a case are counted, and no more than there may be.
LEMMA StoredCount ==
  ASSUME NEW q \in Seq(JobType), Len(q) <= MaxJobs
  PROVE  LET S == {j \in DOMAIN q : q[j].saved}
         IN  IsFiniteSet(S) /\ Cardinality(S) \in Nat /\ Cardinality(S) <= MaxJobs
  <1> DEFINE S == {j \in DOMAIN q : q[j].saved}
  <1>1. S \subseteq 1..Len(q) /\ Len(q) \in Nat /\ MaxJobs \in Nat
    BY LegacyBansAssumption
  <1>2. IsFiniteSet(1..Len(q)) /\ Cardinality(1..Len(q)) = Len(q)
    <2>1. 1 \in Int /\ Len(q) \in Int
      BY <1>1
    <2>2. /\ IsFiniteSet(1..Len(q))
          /\ Cardinality(1..Len(q)) = IF 1 > Len(q) THEN 0 ELSE Len(q) - 1 + 1
      BY <2>1, FS_Interval, Zenon
    <2> QED
      BY <1>1, <2>2
  <1>3. IsFiniteSet(S) /\ Cardinality(S) \in Nat /\ Cardinality(S) <= Cardinality(1..Len(q))
    BY <1>1, <1>2, FS_Subset, FS_CardinalityType
  <1> QED
    BY <1>1, <1>2, <1>3

LEMMA StoredNow ==
  ASSUME BanShapes
  PROVE  IsFiniteSet(StoredJobs) /\ Cardinality(StoredJobs) \in Nat /\ Cardinality(StoredJobs) <= MaxJobs
  BY StoredCount DEF BanShapes, StoredJobs, Jobs

LEMMA StoredThen ==
  ASSUME BanShapes'
  PROVE  IsFiniteSet(StoredJobs') /\ Cardinality(StoredJobs') \in Nat /\ Cardinality(StoredJobs') <= MaxJobs
  BY StoredCount DEF BanShapes, StoredJobs, Jobs

LEMMA MoreStored == ASSUME BanShapes, BanShapes', Keeps PROVE Cardinality(StoredJobs) <= Cardinality(StoredJobs')
  <1>1. StoredJobs \subseteq StoredJobs'
    BY DEF StoredJobs, Jobs, Keeps, BanShapes
  <1>2. IsFiniteSet(StoredJobs')
    BY StoredThen
  <1> QED
    BY <1>1, <1>2, FS_Subset

\* What keeps jobs, appeals and cases as they should be.
LEMMA Upkeep ==
  ASSUME BanInv, BanShapes', Keeps, UsersKept, AppealsKept,
         \A j \in Jobs' : (j \in Jobs /\ job'[j] = job[j]) \/ (JobOK(job[j])' /\ LinkOK(job[j])'),
         \A c \in cases' : c \in cases \/ (CaseOK(c)' /\ \A d \in cases' : d.n = c.n => d = c)
  PROVE  BanInv'
  <1>1. ASSUME NEW j \in Jobs' PROVE JobOK(job[j])' /\ LinkOK(job[j])'
    <2>1. CASE j \in Jobs /\ job'[j] = job[j]
      BY <2>1 DEF BanInv, LinkOK, UsersKept, BanShapes
    <2> QED
      BY <2>1
  <1>2. ASSUME NEW c \in cases' PROVE CaseOK(c)'
    <2>1. CASE c \in cases
      <3>1. CaseOK(c) /\ c.n \in Nat
        BY <2>1 DEF BanInv, BanShapes, CaseType
      <3>2. Cardinality(StoredJobs) <= Cardinality(StoredJobs')
        BY MoreStored DEF BanInv
      <3>3. Cardinality(StoredJobs) \in Nat /\ Cardinality(StoredJobs') \in Nat
        BY StoredNow, StoredThen DEF BanInv
      <3>4. c.by \in Jobs' /\ (job[c.by].acted => job'[c.by].acted) /\ (job[c.by].vain => job'[c.by].vain)
        BY <3>1 DEF CaseOK, Keeps, Jobs, BanInv, BanShapes
      <3> QED
        BY <3>1, <3>2, <3>3, <3>4 DEF CaseOK
    <2> QED
      BY <2>1
  <1>3. ASSUME NEW c \in cases', NEW d \in cases', c.n = d.n PROVE c = d
    BY <1>3 DEF BanInv
  <1>4. ASSUME NEW a \in DOMAIN appeals' PROVE AppealOK(a, appeals[a])'
    <2>1. CASE a \in DOMAIN appeals /\ appeals'[a] = appeals[a]
      <3>1. AppealOK(a, appeals[a])
        BY <2>1 DEF BanInv
      <3>2. \A j \in Jobs : j \in Jobs'
        BY DEF Keeps, Jobs, BanInv, BanShapes
      <3> QED
        BY <2>1, <3>1, <3>2 DEF AppealOK, Keeps
    <2> QED
      BY <2>1 DEF AppealsKept
  <1> QED
    BY <1>1, <1>2, <1>3, <1>4 DEF BanInv

\* A step of job j that makes it r.
JobActs(j, r) ==
    /\ job' = [job EXCEPT ![j] = r] /\ JobOK(r)
    /\ r.kind = job[j].kind /\ r.on = job[j].on
    /\ job[j].acted => r.acted /\ r.appeal = job[j].appeal
    /\ job[j].saved => r.saved
    /\ job[j].vain => r.vain
    /\ r.kind \in Pressed => r.appeal = job[j].appeal
    /\ r.found \subseteq job[j].found \cup Undecided(r.on)
    /\ banned' \subseteq Members /\ buttons' \subseteq Members
    /\ appeals' \in Seq(AppealType) /\ UsersKept /\ AppealsKept
    /\ \/ cases' = cases
       \/ /\ cases' = cases \cup {[n |-> NextCase, user |-> r.on, by |-> j, type |-> Does[r.kind].type]}
          /\ r.saved /\ ~job[j].saved /\ (Does[r.kind].type # "warn" => r.acted \/ (Does[r.kind].type = "timeout" /\ r.vain))

LEMMA JobActsInv == ASSUME BanInv, NEW j \in Jobs, NEW r \in JobType, JobActs(j, r) PROVE BanInv'
  <1>1. /\ job' \in Seq(JobType) /\ Len(job') = Len(job) /\ job'[j] = r
        /\ Jobs' = Jobs /\ \A i \in Jobs \ {j} : job'[i] = job[i]
    BY DEF JobActs, BanInv, BanShapes, Jobs
  <1>2. Keeps
    BY <1>1 DEF Keeps, JobActs, BanInv, BanShapes
  <1>3. JobOK(r) /\ LinkOK(r)'
    <2>1. LinkOK(job[j])
      BY DEF BanInv
    <2>2. \A a \in r.found : a \in DOMAIN appeals /\ appeals[a].user = r.on
      BY <2>1 DEF JobActs, LinkOK, Undecided
    <2>3. \A a \in DOMAIN appeals : a \in DOMAIN appeals' /\ appeals'[a].user = appeals[a].user
      BY DEF JobActs, UsersKept, BanInv, BanShapes
    <2> QED
      BY <2>1, <2>2, <2>3 DEF JobActs, LinkOK
  <1>4. StoredJobs' = IF r.saved THEN StoredJobs \cup {j} ELSE StoredJobs
    BY <1>1, <1>2 DEF StoredJobs, JobActs
  <1>5. IsFiniteSet(StoredJobs) /\ Cardinality(StoredJobs) \in Nat /\ NextCase = Cardinality(StoredJobs) + 1
    BY StoredNow DEF BanInv, NextCase, StoredJobs
  <1>6. CASE cases' = cases
    <2>1. BanShapes'
      BY <1>1, <1>6 DEF BanInv, BanShapes, JobActs
    <2>2. \A i \in Jobs' : (i \in Jobs /\ job'[i] = job[i]) \/ (JobOK(job[i])' /\ LinkOK(job[i])')
      BY <1>1, <1>3
    <2> QED
      BY <1>2, <1>6, <2>1, <2>2, Upkeep DEF JobActs
  <1>7. CASE cases' # cases
    <2>1. PICK c \in CaseType : /\ cases' = cases \cup {c} /\ c.n = NextCase /\ c.by = j
                                /\ c.type # "warn" => r.acted \/ (c.type = "timeout" /\ r.vain)
      <3> DEFINE c == [n |-> NextCase, user |-> r.on, by |-> j, type |-> Does[r.kind].type]
      <3>1. r.kind \in AllKinds /\ r.on \in Members /\ j \in Nat
        BY DEF JobType, Jobs, BanInv, BanShapes
      <3>2. Does[r.kind].type \in {"ban", "kick", "timeout", "warn", "unban", "none"}
        BY <3>1, CallsFacts
      <3>3. c \in CaseType
        BY <1>5, <3>1, <3>2 DEF CaseType
      <3> QED
        BY <1>7, <3>3 DEF JobActs
    <2>2. r.saved /\ j \notin StoredJobs
      BY <1>7 DEF JobActs, StoredJobs
    <2>3. Cardinality(StoredJobs') = NextCase
      BY <1>4, <1>5, <2>2, FS_AddElement
    <2>4. BanShapes'
      BY <1>1, <2>1 DEF BanInv, BanShapes, JobActs
    <2>5. \A i \in Jobs' : (i \in Jobs /\ job'[i] = job[i]) \/ (JobOK(job[i])' /\ LinkOK(job[i])')
      BY <1>1, <1>3
    <2>6. CaseOK(c)'
      BY <1>1, <1>5, <2>1, <2>3 DEF CaseOK
    <2>7. \A d \in cases : d.n <= Cardinality(StoredJobs) /\ d.n \in Nat
      BY DEF BanInv, BanShapes, CaseOK, CaseType
    <2>8. \A d \in cases' : d.n = c.n => d = c
      BY <1>5, <2>1, <2>7
    <2>9. \A b \in cases' : b \in cases \/ (CaseOK(b)' /\ \A d \in cases' : d.n = b.n => d = b)
      BY <2>1, <2>6, <2>8
    <2> QED
      BY <1>2, <2>4, <2>5, <2>9, Upkeep DEF JobActs
  <1> QED
    BY <1>6, <1>7
-----------------------------------------------------------------------------
\* A job at a call.
LEMMA CallNow ==
  ASSUME BanInv, NEW j \in Jobs, NEW call, At(j, call)
  PROVE  /\ job[j] \in JobType /\ JobOK(job[j]) /\ LinkOK(job[j]) /\ job[j].end = "running"
         /\ job[j].kind \in AllKinds /\ job[j].on \in Members
         /\ CallsOf(job[j].kind)[job[j].at] = call /\ CallFacts(job[j].kind, job[j].at)
         /\ (job[j].acted \/ job[j].vain <=> Made(job[j].kind, job[j].at - 1, "act"))
         /\ (job[j].vain => job[j].kind = "TimeoutAdd")
         /\ (job[j].saved <=> Made(job[j].kind, job[j].at - 1, "save"))
  <1>1. /\ job[j] \in JobType /\ JobOK(job[j]) /\ LinkOK(job[j]) /\ job[j].end = "running"
        /\ CallsOf(job[j].kind)[job[j].at] = call
    BY DEF BanInv, BanShapes, Jobs, At, Running, CallsOf
  <1>2. job[j].kind \in AllKinds /\ job[j].on \in Members /\ job[j].at \in 1..Len(CallsOf(job[j].kind))
    BY <1>1 DEF JobType, JobOK
  <1>3. CallFacts(job[j].kind, job[j].at)
    BY <1>2, CallsFacts
  <1> QED
    BY <1>1, <1>2, <1>3 DEF JobOK

LEMMA OneJob ==
  ASSUME BanInv, NEW j \in Jobs, NEW r \in JobType, job' = [job EXCEPT ![j] = r], r.on = job[j].on,
         job[j].acted => r.acted /\ r.appeal = job[j].appeal, job[j].saved => r.saved, job[j].vain => r.vain
  PROVE  Keeps /\ Jobs' = Jobs /\ job'[j] = r
  <1>1. /\ job' \in Seq(JobType) /\ Len(job') = Len(job) /\ job'[j] = r
        /\ Jobs' = Jobs /\ \A i \in Jobs \ {j} : job'[i] = job[i]
    BY DEF BanInv, BanShapes, Jobs
  <1> QED
    BY <1>1 DEF Keeps, BanInv, BanShapes

LEMMA SameAppeals == ASSUME BanInv, appeals' = appeals PROVE appeals' \in Seq(AppealType) /\ UsersKept /\ AppealsKept
  <1>1. appeals \in Seq(AppealType) /\ Len(appeals) \in Nat
    BY DEF BanInv, BanShapes
  <1> QED
    BY <1>1 DEF UsersKept, AppealsKept

\* A call that neither acts nor saves, and after which the job is q.
Passes(j, call, q) ==
    /\ call \notin {"act", "save"} /\ At(j, call) /\ Proceed(j, q)
    /\ q.kind = job[j].kind /\ q.on = job[j].on /\ q.at = job[j].at /\ q.end = job[j].end
    /\ q.acted = job[j].acted /\ q.saved = job[j].saved /\ q.vain = job[j].vain
    /\ q.kind \in Pressed \/ job[j].acted => q.appeal = job[j].appeal
    /\ q.found \subseteq job[j].found \cup Undecided(q.on)
    /\ banned' \subseteq Members /\ buttons' \subseteq Members /\ cases' = cases

LEMMA PassesJob ==
  ASSUME BanInv, NEW j \in Jobs, NEW call, NEW q \in JobType, Passes(j, call, q)
  PROVE  \E r \in JobType : /\ job' = [job EXCEPT ![j] = r] /\ JobOK(r)
                            /\ r.kind = q.kind /\ r.on = q.on /\ r.appeal = q.appeal
                            /\ r.acted = q.acted /\ r.saved = q.saved /\ r.found \subseteq q.found /\ r.vain = q.vain
  <1>1. Follows(job[j], q, call)
    <2>1. At(j, call) /\ call # "act" /\ call # "save"
      BY DEF Passes
    <2>2. job[j] \in JobType /\ job[j].end = "running" /\ (job[j].vain => job[j].kind = "TimeoutAdd")
      BY <2>1, CallNow
    <2> QED
      BY <2>1, <2>2 DEF Passes, Follows, JobType
  <1> QED
    BY <1>1, Proceeds DEF Passes

LEMMA PassesInv ==
  ASSUME BanInv, NEW j \in Jobs, NEW call, NEW q \in JobType, Passes(j, call, q), appeals' = appeals
  PROVE  BanInv'
  <1>1. PICK r \in JobType : /\ job' = [job EXCEPT ![j] = r] /\ JobOK(r)
                             /\ r.kind = q.kind /\ r.on = q.on /\ r.appeal = q.appeal
                             /\ r.acted = q.acted /\ r.saved = q.saved /\ r.found \subseteq q.found /\ r.vain = q.vain
    BY PassesJob
  <1>2. JobActs(j, r)
    BY <1>1, SameAppeals DEF JobActs, Passes
  <1> QED
    BY <1>2, JobActsInv

LEMMA StopsInv ==
  ASSUME BanInv, NEW j \in Jobs, NEW call \in {"act", "save", "check", "file", "look"}, At(j, call),
         Stop(j), UNCHANGED <<banned, cases, appeals, buttons>>
  PROVE  BanInv'
  <1>1. PICK r \in JobType : /\ job' = [job EXCEPT ![j] = r] /\ JobOK(r)
                             /\ r.kind = job[j].kind /\ r.on = job[j].on /\ r.appeal = job[j].appeal
                             /\ r.acted = job[j].acted /\ r.saved = job[j].saved /\ r.found \subseteq job[j].found
                             /\ r.vain = job[j].vain
    BY Stops
  <1>2. JobActs(j, r)
    BY <1>1, SameAppeals DEF JobActs, BanInv, BanShapes
  <1> QED
    BY <1>2, JobActsInv

\* What was decided on an appeal stays as it was, or is decided again.
LEMMA AppealStays ==
  ASSUME BanInv, Keeps, NEW a \in DOMAIN appeals, NEW y, y.user = appeals[a].user,
         y.status = "accepted" => \/ appeals[a].status = "accepted" /\ y.by = appeals[a].by
                                  \/ y.by \in Jobs' /\ job'[y.by].acted /\ job'[y.by].on = y.user,
         y.review = "Accepted" => \/ appeals[a].review = "Accepted"
                                  \/ \E j \in Jobs' : job'[j].appeal = a /\ job'[j].acted /\ job'[j].saved
  PROVE  AppealOK(a, y)'
  <1>1. AppealOK(a, appeals[a])
    BY DEF BanInv
  <1>2. \A j \in Jobs : j \in Jobs'
    BY DEF Keeps, Jobs, BanInv, BanShapes
  <1> QED
    BY <1>1, <1>2 DEF AppealOK, Keeps

\* An appeal of the list, and one that is changed.
LEMMA AppealShape ==
  ASSUME BanInv, NEW a \in DOMAIN appeals
  PROVE  /\ appeals[a] \in AppealType
         /\ \A y \in AppealType : [appeals EXCEPT ![a] = y] \in Seq(AppealType)
         /\ \A y : appeals' = [appeals EXCEPT ![a] = y] /\ y.user = appeals[a].user =>
                /\ UsersKept /\ appeals'[a] = y /\ DOMAIN appeals' = DOMAIN appeals
                /\ \A b \in DOMAIN appeals \ {a} : appeals'[b] = appeals[b]
  <1>1. appeals \in Seq(AppealType) /\ Len(appeals) \in Nat
    BY DEF BanInv, BanShapes
  <1> QED
    BY <1>1 DEF UsersKept
-----------------------------------------------------------------------------
LEMMA LastCaseIn == ASSUME NEW S \in SUBSET CaseType, \A c \in S : c.n <= MaxJobs, S # {} PROVE LastCase(S) \in S
  <1> DEFINE N == {MaxJobs - c.n : c \in S}
  <1>1. N \subseteq Nat /\ N # {} /\ MaxJobs \in Nat
    BY LegacyBansAssumption DEF CaseType
  <1>2. PICK m \in N : \A n \in N : ~ (<<n, m>> \in OpToRel(<, Nat))
    BY <1>1, WFMin, NatLessThanWellFounded
  <1>3. PICK c \in S : m = MaxJobs - c.n
    OBVIOUS
  <1>4. ASSUME NEW d \in S PROVE d.n <= c.n
    <2>1. MaxJobs - d.n \in N /\ MaxJobs - d.n \in Nat /\ m \in Nat /\ d.n \in Nat /\ c.n \in Nat
      BY <1>1 DEF CaseType
    <2>2. ~(MaxJobs - d.n < m)
      BY <1>2, <2>1 DEF OpToRel
    <2> QED
      BY <1>1, <1>3, <2>1, <2>2
  <1> QED
    BY <1>4 DEF LastCase

LEMMA PlainInv ==
  ASSUME BanInv, NEW j \in Jobs,
         \/ SendDM(j) \/ EditReply(j) \/ HideButton(j) \/ ParseAppeal(j)
         \/ ListAppeals(j) \/ CheckAppeals(j) \/ FindLatestBanCase(j)
  PROVE  BanInv'
  <1>0. job[j] \in JobType /\ job[j].on \in Members /\ banned \subseteq Members /\ buttons \subseteq Members
    <2>1. job[j] \in JobType
      BY DEF BanInv, BanShapes, Jobs
    <2> QED
      BY <2>1 DEF BanInv, BanShapes, JobType
  <1>1. CASE SendDM(j)
    <2>1. Passes(j, "dm", job[j]) /\ appeals' = appeals
      BY <1>0, <1>1 DEF SendDM, Passes
    <2> QED
      BY <1>0, <2>1, PassesInv
  <1>2. CASE EditReply(j)
    <2>1. Passes(j, "edit", job[j]) /\ appeals' = appeals
      BY <1>0, <1>2 DEF EditReply, Passes
    <2> QED
      BY <1>0, <2>1, PassesInv
  <1>3. CASE HideButton(j)
    <2>1. Passes(j, "hide", job[j]) /\ appeals' = appeals
      BY <1>0, <1>3 DEF HideButton, Passes
    <2> QED
      BY <1>0, <2>1, PassesInv
  <1>4. CASE ParseAppeal(j)
    <2>1. CASE Stop(j)
      BY <1>4, <2>1, StopsInv DEF ParseAppeal
    <2>2. CASE Proceed(j, job[j])
      <3>1. Passes(j, "look", job[j]) /\ appeals' = appeals
        BY <1>0, <1>4, <2>2 DEF ParseAppeal, Passes
      <3> QED
        BY <1>0, <3>1, PassesInv
    <2> QED
      BY <1>4, <2>1, <2>2 DEF ParseAppeal
  <1>5. CASE ListAppeals(j)
    <2>1. PICK q \in JobType : Passes(j, "list", q)
      <3>1. CASE Proceed(j, job[j])
        BY <1>0, <1>5, <3>1 DEF ListAppeals, Passes
      <3>2. CASE Proceed(j, [job[j] EXCEPT !.found = Undecided(job[j].on)])
        <4> DEFINE q == [job[j] EXCEPT !.found = Undecided(job[j].on)]
        <4>1. Undecided(job[j].on) \subseteq Nat
          BY DEF Undecided, BanInv, BanShapes
        <4>2. /\ q \in JobType /\ q.kind = job[j].kind /\ q.on = job[j].on /\ q.at = job[j].at
              /\ q.end = job[j].end /\ q.acted = job[j].acted /\ q.saved = job[j].saved /\ q.vain = job[j].vain
              /\ q.appeal = job[j].appeal /\ q.found = Undecided(job[j].on)
          BY <1>0, <4>1 DEF JobType
        <4>3. Passes(j, "list", q)
          BY <1>0, <1>5, <3>2, <4>2 DEF ListAppeals, Passes
        <4> QED
          BY <4>2, <4>3
      <3> QED
        BY <1>5, <3>1, <3>2 DEF ListAppeals
    <2> QED
      BY <1>5, <2>1, PassesInv DEF ListAppeals
  <1>6. CASE CheckAppeals(j)
    <2>1. CASE Stop(j)
      BY <1>6, <2>1, StopsInv DEF CheckAppeals
    <2>2. CASE Proceed(j, job[j])
      <3>1. Passes(j, "check", job[j]) /\ appeals' = appeals
        BY <1>0, <1>6, <2>2 DEF CheckAppeals, Passes
      <3> QED
        BY <1>0, <3>1, PassesInv
    <2> QED
      BY <1>6, <2>1, <2>2 DEF CheckAppeals
  <1>7. CASE FindLatestBanCase(j)
    <2>1. PICK n \in Nat : Proceed(j, [job[j] EXCEPT !.ban = n]) \/ Proceed(j, job[j])
      <3> DEFINE mine == {c \in cases : c.user = job[j].on}
      <3>1. mine # {} => LastCase(mine).n \in Nat
        <4>1. mine \in SUBSET CaseType /\ \A c \in mine : c.n <= MaxJobs
          BY LegacyBansAssumption, StoredNow DEF BanInv, BanShapes, CaseOK, CaseType
        <4>2. mine # {} => LastCase(mine) \in mine
          BY <4>1, LastCaseIn
        <4> QED
          BY <4>1, <4>2 DEF CaseType
      <3> QED
        BY <1>7, <3>1 DEF FindLatestBanCase
    <2>2. PICK q \in JobType : Passes(j, "find", q)
      <3>1. CASE Proceed(j, job[j])
        BY <1>0, <1>7, <3>1 DEF FindLatestBanCase, Passes
      <3>2. CASE Proceed(j, [job[j] EXCEPT !.ban = n])
        <4> DEFINE q == [job[j] EXCEPT !.ban = n]
        <4>1. /\ q \in JobType /\ q.kind = job[j].kind /\ q.on = job[j].on /\ q.at = job[j].at
              /\ q.end = job[j].end /\ q.acted = job[j].acted /\ q.saved = job[j].saved /\ q.vain = job[j].vain
              /\ q.appeal = job[j].appeal /\ q.found = job[j].found
          BY <1>0 DEF JobType
        <4>2. Passes(j, "find", q)
          BY <1>0, <1>7, <3>2, <4>1 DEF FindLatestBanCase, Passes
        <4> QED
          BY <4>1, <4>2
      <3> QED
        BY <2>1, <3>1, <3>2
    <2> QED
      BY <1>7, <2>2, PassesInv DEF FindLatestBanCase
  <1> QED
    BY <1>1, <1>2, <1>3, <1>4, <1>5, <1>6, <1>7

\* Discord carries out the act, refuses it or fails.
LEMMA ActInv == ASSUME BanInv, NEW j \in Jobs, Act(j) \/ ActInVain(j) PROVE BanInv'
  <1>0. At(j, "act") /\ UNCHANGED <<cases, appeals, buttons>>
    BY DEF Act, ActInVain
  <1>1. CASE Stop(j) /\ UNCHANGED banned
    BY <1>0, <1>1, StopsInv
  <1>2. /\ job[j] \in JobType /\ job[j].end = "running" /\ ~job[j].acted /\ ~job[j].vain
    BY <1>0, CallNow DEF CallFacts
  <1>3. banned' \subseteq Members
    <2>1. job[j].on \in Members /\ banned \subseteq Members
      BY <1>0, CallNow DEF BanInv, BanShapes
    <2> QED
      BY <2>1 DEF Act, ActInVain
  <1>4. CASE \E q \in JobType : /\ CarriedOut(j, q)
                               /\ q.kind = job[j].kind /\ q.on = job[j].on /\ q.at = job[j].at
                               /\ q.end = "running" /\ q.saved = job[j].saved
                               /\ q.appeal = job[j].appeal /\ q.found = job[j].found
                               /\ (q.acted \/ q.vain) /\ (q.vain => q.kind = "TimeoutAdd")
    <2>1. PICK q \in JobType : /\ CarriedOut(j, q)
                               /\ q.kind = job[j].kind /\ q.on = job[j].on /\ q.at = job[j].at
                               /\ q.end = "running" /\ q.saved = job[j].saved
                               /\ q.appeal = job[j].appeal /\ q.found = job[j].found
                               /\ (q.acted \/ q.vain) /\ (q.vain => q.kind = "TimeoutAdd")
      BY <1>4
    <2>2. Follows(job[j], q, "act")
      BY <2>1 DEF Follows
    <2>3. PICK r \in JobType : /\ job' = [job EXCEPT ![j] = r] /\ JobOK(r)
                               /\ r.kind = q.kind /\ r.on = q.on /\ r.appeal = q.appeal
                               /\ r.acted = q.acted /\ r.saved = q.saved /\ r.found \subseteq q.found /\ r.vain = q.vain
      BY <1>0, <2>1, <2>2, Carried
    <2>4. JobActs(j, r)
      BY <1>0, <1>2, <1>3, <2>1, <2>3, SameAppeals DEF JobActs, BanInv, BanShapes
    <2> QED
      BY <2>4, JobActsInv
  <1>5. CASE CarriedOut(j, [job[j] EXCEPT !.acted = TRUE])
    <2> DEFINE q == [job[j] EXCEPT !.acted = TRUE]
    <2>1. /\ q \in JobType /\ q.kind = job[j].kind /\ q.on = job[j].on /\ q.at = job[j].at
          /\ q.end = "running" /\ q.saved = job[j].saved
          /\ q.appeal = job[j].appeal /\ q.found = job[j].found /\ q.acted /\ ~q.vain
      BY <1>2 DEF JobType
    <2> QED
      BY <1>4, <1>5, <2>1
  <1>6. CASE CarriedOut(j, [job[j] EXCEPT !.vain = TRUE]) /\ job[j].kind = "TimeoutAdd"
    <2> DEFINE q == [job[j] EXCEPT !.vain = TRUE]
    <2>1. /\ q \in JobType /\ q.kind = job[j].kind /\ q.on = job[j].on /\ q.at = job[j].at
          /\ q.end = "running" /\ q.saved = job[j].saved
          /\ q.appeal = job[j].appeal /\ q.found = job[j].found /\ q.vain
      BY <1>2 DEF JobType
    <2> QED
      BY <1>4, <1>6, <2>1
  <1> QED
    BY <1>1, <1>5, <1>6 DEF Act, ActInVain

\* The case follows the act.
LEMMA SaveInv == ASSUME BanInv, NEW j \in Jobs, SaveCase(j) PROVE BanInv'
  <1>0. At(j, "save") /\ UNCHANGED <<banned, appeals, buttons>>
    BY DEF SaveCase
  <1>1. CASE Stop(j) /\ UNCHANGED cases
    BY <1>0, <1>1, StopsInv
  <1>2. CASE /\ CarriedOut(j, [job[j] EXCEPT !.saved = TRUE])
             /\ cases' = cases \cup {[n |-> NextCase, user |-> job[j].on, by |-> j,
                                      type |-> Does[job[j].kind].type]}
    <2>1. /\ job[j] \in JobType /\ job[j].end = "running" /\ ~job[j].saved
          /\ (job[j].vain => job[j].kind = "TimeoutAdd")
          /\ (Does[job[j].kind].type # "warn" => job[j].acted \/ job[j].vain)
      BY <1>0, CallNow DEF CallFacts
    <2>6. Does[job[j].kind].type # "warn" =>
              job[j].acted \/ (Does[job[j].kind].type = "timeout" /\ job[j].vain)
      BY <2>1 DEF Does, TimeoutAdd
    <2>2. PICK q \in JobType : /\ CarriedOut(j, q)
                               /\ q.kind = job[j].kind /\ q.on = job[j].on /\ q.at = job[j].at
                               /\ q.end = "running" /\ q.acted = job[j].acted /\ q.saved = TRUE /\ q.vain = job[j].vain
                               /\ q.appeal = job[j].appeal /\ q.found = job[j].found
      <3> DEFINE x == [job[j] EXCEPT !.saved = TRUE]
      <3>1. /\ x \in JobType
            /\ x.kind = job[j].kind /\ x.on = job[j].on /\ x.at = job[j].at
            /\ x.end = "running" /\ x.acted = job[j].acted /\ x.saved = TRUE /\ x.vain = job[j].vain
            /\ x.appeal = job[j].appeal /\ x.found = job[j].found
        BY <2>1 DEF JobType
      <3> QED
        BY <1>2, <3>1
    <2>3. Follows(job[j], q, "save")
      BY <2>1, <2>2 DEF Follows, JobType
    <2>4. PICK r \in JobType : /\ job' = [job EXCEPT ![j] = r] /\ JobOK(r)
                               /\ r.kind = q.kind /\ r.on = q.on /\ r.appeal = q.appeal
                               /\ r.acted = q.acted /\ r.saved = q.saved /\ r.found \subseteq q.found /\ r.vain = q.vain
      BY <1>0, <2>2, <2>3, Carried
    <2>5. JobActs(j, r)
      BY <1>0, <1>2, <2>1, <2>2, <2>4, <2>6, SameAppeals DEF JobActs, BanInv, BanShapes
    <2> QED
      BY <2>5, JobActsInv
  <1> QED
    BY <1>1, <1>2 DEF SaveCase

\* An appeal is filed; its review message is posted.
LEMMA FileInv == ASSUME BanInv, NEW j \in Jobs, CreateAppeal(j) PROVE BanInv'
  <1>0. At(j, "file") /\ UNCHANGED <<banned, cases, buttons>>
    BY DEF CreateAppeal
  <1>1. CASE Stop(j) /\ UNCHANGED appeals
    BY <1>0, <1>1, StopsInv
  <1>2. CASE /\ CarriedOut(j, [job[j] EXCEPT !.appeal = Len(appeals) + 1])
             /\ appeals' = Append(appeals, [user |-> job[j].on, case |-> job[j].ban, by |-> 0,
                                            status |-> "pending", review |-> "none"])
    <2>1. /\ job[j] \in JobType /\ job[j].end = "running" /\ job[j].kind \notin Pressed /\ ~job[j].acted
          /\ (job[j].vain => job[j].kind = "TimeoutAdd")
      BY <1>0, CallNow DEF CallFacts, Pressed
    <2>6. appeals \in Seq(AppealType) /\ Len(appeals) \in Nat
      BY DEF BanInv, BanShapes
    <2>2. PICK q \in JobType : /\ CarriedOut(j, q)
                               /\ q.kind = job[j].kind /\ q.on = job[j].on /\ q.at = job[j].at
                               /\ q.end = "running" /\ q.acted = job[j].acted /\ q.saved = job[j].saved /\ q.vain = job[j].vain
                               /\ q.found = job[j].found
      <3> DEFINE x == [job[j] EXCEPT !.appeal = Len(appeals) + 1]
      <3>1. /\ x \in JobType
            /\ x.kind = job[j].kind /\ x.on = job[j].on /\ x.at = job[j].at
            /\ x.end = "running" /\ x.acted = job[j].acted /\ x.saved = job[j].saved /\ x.vain = job[j].vain
            /\ x.found = job[j].found
        BY <2>1, <2>6 DEF JobType
      <3> QED
        BY <1>2, <3>1
    <2>3. Follows(job[j], q, "file")
      BY <2>1, <2>2 DEF Follows
    <2>4. PICK r \in JobType : /\ job' = [job EXCEPT ![j] = r] /\ JobOK(r)
                               /\ r.kind = q.kind /\ r.on = q.on /\ r.appeal = q.appeal
                               /\ r.acted = q.acted /\ r.saved = q.saved /\ r.found \subseteq q.found /\ r.vain = q.vain
      BY <1>0, <2>1, <2>2, <2>3, Carried
    <2>7. PICK y \in AppealType : /\ appeals' = Append(appeals, y)
                                  /\ y.status = "pending" /\ y.review = "none"
      <3> DEFINE y == [user |-> job[j].on, case |-> job[j].ban, by |-> 0,
                       status |-> "pending", review |-> "none"]
      <3>1. y \in AppealType
        BY <2>1 DEF AppealType, JobType
      <3> QED
        BY <1>2, <3>1
    <2>8. appeals' \in Seq(AppealType) /\ UsersKept
      BY <2>6, <2>7 DEF UsersKept
    <2>9. AppealsKept
      <3>1. ASSUME NEW a \in DOMAIN appeals', a \notin DOMAIN appeals PROVE AppealOK(a, appeals[a])'
        <4>1. appeals'[a] = y
          BY <2>6, <2>7, <3>1
        <4> QED
          BY <2>7, <4>1 DEF AppealOK
      <3>2. \A a \in DOMAIN appeals : appeals'[a] = appeals[a]
        BY <2>6, <2>7
      <3> QED
        BY <3>1, <3>2 DEF AppealsKept
    <2>5. JobActs(j, r)
      BY <1>0, <2>1, <2>2, <2>4, <2>8, <2>9 DEF JobActs, BanInv, BanShapes
    <2> QED
      BY <2>5, JobActsInv
  <1> QED
    BY <1>1, <1>2 DEF CreateAppeal

\* An appeal is decided or its message is edited by the job on it.
LEMMA ReviewInv ==
  ASSUME BanInv, NEW j \in Jobs, PostReview(j) \/ UpdateStatus(j) \/ UpdateReview(j)
  PROVE  BanInv'
  <1>1. PICK call \in {"post", "decide", "review"} :
            /\ At(j, call) /\ Proceed(j, job[j]) /\ UNCHANGED <<banned, cases, buttons>>
            /\ call = "decide" <=> UpdateStatus(j)
            /\ call = "review" <=> UpdateReview(j)
            /\ call = "post" <=> PostReview(j)
    BY DEF PostReview, UpdateStatus, UpdateReview, At
  <1>2. /\ job[j] \in JobType /\ job[j].kind \in AllKinds /\ CallFacts(job[j].kind, job[j].at)
        /\ CallsOf(job[j].kind)[job[j].at] = call /\ LinkOK(job[j]) /\ job[j].end = "running"
        /\ (job[j].acted \/ job[j].vain <=> Made(job[j].kind, job[j].at - 1, "act"))
        /\ (job[j].vain => job[j].kind = "TimeoutAdd")
        /\ (job[j].saved <=> Made(job[j].kind, job[j].at - 1, "save"))
    BY <1>1, CallNow
  <1>3. Passes(j, call, job[j])
    BY <1>1, <1>2 DEF Passes, BanInv, BanShapes
  <1>4. CASE appeals' = appeals
    BY <1>2, <1>3, <1>4, PassesInv
  <1>5. PICK r \in JobType : /\ job' = [job EXCEPT ![j] = r] /\ JobOK(r)
                             /\ r.kind = job[j].kind /\ r.on = job[j].on /\ r.appeal = job[j].appeal
                             /\ r.acted = job[j].acted /\ r.saved = job[j].saved /\ r.found \subseteq job[j].found /\ r.vain = job[j].vain
    BY <1>2, <1>3, PassesJob
  <1>6. Keeps /\ Jobs' = Jobs /\ job'[j] = r
    BY <1>5, OneJob
  <1>7. ASSUME NEW a \in DOMAIN appeals, NEW y \in AppealType, appeals' = [appeals EXCEPT ![a] = y],
               y.user = appeals[a].user, AppealOK(a, y)'
        PROVE  BanInv'
    <2>1. /\ appeals' \in Seq(AppealType) /\ UsersKept /\ appeals'[a] = y /\ DOMAIN appeals' = DOMAIN appeals
          /\ \A b \in DOMAIN appeals \ {a} : appeals'[b] = appeals[b]
      BY <1>7, AppealShape
    <2>2. AppealsKept
      BY <1>7, <2>1 DEF AppealsKept
    <2>3. JobActs(j, r)
      BY <1>1, <1>5, <2>1, <2>2 DEF JobActs, BanInv, BanShapes
    <2> QED
      BY <2>3, JobActsInv
  <1>8. CASE call = "post" /\ appeals' # appeals
    <2>1. appeals' = [appeals EXCEPT ![job[j].appeal].review = "open"]
      BY <1>1, <1>8 DEF PostReview
    <2>2. job[j].appeal \in DOMAIN appeals
      BY <1>8, <2>1 DEF BanInv, BanShapes
    <2>3. PICK a \in DOMAIN appeals : a = job[j].appeal
      BY <2>2
    <2>4. appeals[a] \in AppealType
      BY AppealShape
    <2>5. PICK y \in AppealType : /\ appeals' = [appeals EXCEPT ![a] = y] /\ y.user = appeals[a].user
                                  /\ y.status = appeals[a].status /\ y.by = appeals[a].by /\ y.review = "open"
      <3> DEFINE y == [appeals[a] EXCEPT !.review = "open"]
      <3>1. /\ y \in AppealType /\ y.user = appeals[a].user
            /\ y.status = appeals[a].status /\ y.by = appeals[a].by /\ y.review = "open"
        BY <2>4 DEF AppealType
      <3>2. appeals' = [appeals EXCEPT ![a] = y]
        BY <2>1, <2>3 DEF BanInv, BanShapes
      <3> QED
        BY <3>1, <3>2
    <2>6. AppealOK(a, y)'
      BY <1>6, <2>5, AppealStays
    <2> QED
      BY <1>7, <2>5, <2>6
  <1>9. CASE call = "decide" /\ appeals' # appeals
    <2>1. PICK a \in DOMAIN appeals : a = job[j].appeal /\ appeals[a].user = job[j].on
      BY <1>2, <1>9 DEF CallFacts, LinkOK
    <2>2. PICK status \in {"accepted", "rejected"} :
              /\ appeals' = [appeals EXCEPT ![a] = Decided(@, status, j)]
              /\ status = "accepted" => job[j].kind = "AppealAccept"
      BY <1>1, <1>9, <2>1 DEF UpdateStatus
    <2>3. status = "accepted" => job[j].acted
      BY <1>2, <1>9, <2>2 DEF CallFacts
    <2>4. appeals[a] \in AppealType /\ j \in Nat
      BY AppealShape DEF BanInv, BanShapes, Jobs
    <2>5. PICK y \in AppealType : /\ appeals' = [appeals EXCEPT ![a] = y] /\ y.user = appeals[a].user
                                  /\ y.status = status /\ y.by = j /\ y.review = appeals[a].review
      <3> DEFINE y == [appeals[a] EXCEPT !.status = status, !.by = j]
      <3>1. /\ y \in AppealType /\ y.user = appeals[a].user
            /\ y.status = status /\ y.by = j /\ y.review = appeals[a].review
        BY <2>4 DEF AppealType
      <3>2. appeals' = [appeals EXCEPT ![a] = y]
        BY <2>2 DEF BanInv, BanShapes, Decided
      <3> QED
        BY <3>1, <3>2
    <2>6. /\ y.status = "accepted" => \/ appeals[a].status = "accepted" /\ y.by = appeals[a].by
                                      \/ y.by \in Jobs' /\ job'[y.by].acted /\ job'[y.by].on = y.user
          /\ y.review = "Accepted" => \/ appeals[a].review = "Accepted"
                                      \/ \E i \in Jobs' : job'[i].appeal = a /\ job'[i].acted /\ job'[i].saved
      BY <1>5, <1>6, <2>1, <2>3, <2>5
    <2>7. AppealOK(a, y)'
      BY <1>6, <2>5, <2>6, AppealStays
    <2> QED
      BY <1>7, <2>5, <2>7
  <1>10. CASE call = "review" /\ appeals' # appeals
    <2>1. PICK a \in DOMAIN appeals : a = job[j].appeal /\ appeals[a].user = job[j].on
      BY <1>2, <1>10 DEF CallFacts, LinkOK
    <2>2. PICK decision \in {"Accepted", "Rejected"} :
              /\ appeals' = [appeals EXCEPT ![a].review = decision]
              /\ decision = "Accepted" => job[j].kind = "AppealAccept"
      BY <1>1, <1>10, <2>1 DEF UpdateReview
    <2>3. decision = "Accepted" => job[j].acted /\ job[j].saved
      BY <1>2, <1>10, <2>2 DEF CallFacts
    <2>4. appeals[a] \in AppealType
      BY AppealShape
    <2>5. PICK y \in AppealType : /\ appeals' = [appeals EXCEPT ![a] = y] /\ y.user = appeals[a].user
                                  /\ y.status = appeals[a].status /\ y.by = appeals[a].by /\ y.review = decision
      <3> DEFINE y == [appeals[a] EXCEPT !.review = decision]
      <3>1. /\ y \in AppealType /\ y.user = appeals[a].user
            /\ y.status = appeals[a].status /\ y.by = appeals[a].by /\ y.review = decision
        BY <2>4 DEF AppealType
      <3>2. appeals' = [appeals EXCEPT ![a] = y]
        BY <2>2 DEF BanInv, BanShapes
      <3> QED
        BY <3>1, <3>2
    <2>6. y.review = "Accepted" =>
              \/ appeals[a].review = "Accepted"
              \/ \E i \in Jobs' : job'[i].appeal = a /\ job'[i].acted /\ job'[i].saved
      BY <1>5, <1>6, <2>1, <2>3, <2>5
    <2>7. AppealOK(a, y)'
      BY <1>6, <2>5, <2>6, AppealStays
    <2> QED
      BY <1>7, <2>5, <2>7
  <1> QED
    BY <1>1, <1>4, <1>8, <1>9, <1>10

\* /unban accepts the appeals it found.
LEMMA ResolveInv == ASSUME BanInv, NEW j \in Jobs, ResolveAppeals(j) PROVE BanInv'
  <1>0. At(j, "resolve") /\ UNCHANGED <<banned, cases, buttons>>
    BY DEF ResolveAppeals
  <1>1. /\ job[j] \in JobType /\ job[j].kind \in AllKinds /\ LinkOK(job[j]) /\ job[j].end = "running"
        /\ job[j].acted /\ job[j].on \in Members /\ j \in Nat
    <2>1. CallsOf(job[j].kind)[job[j].at] = "resolve" /\ CallFacts(job[j].kind, job[j].at)
      BY <1>0, CallNow
    <2>2. job[j].kind = "Unban" /\ Made(job[j].kind, job[j].at - 1, "act")
      BY <2>1 DEF CallFacts
    <2> QED
      BY <1>0, <2>2, CallNow DEF Jobs, BanInv, BanShapes
  <1>2. PICK q \in JobType : /\ Proceed(j, q)
                             /\ q.kind = job[j].kind /\ q.on = job[j].on /\ q.at = job[j].at
                             /\ q.end = "running" /\ q.acted = job[j].acted /\ q.saved = job[j].saved
                             /\ q.appeal = job[j].appeal /\ q.found = {} /\ q.vain = job[j].vain
    <2> DEFINE x == [job[j] EXCEPT !.found = {}]
    <2>1. /\ x \in JobType
          /\ x.kind = job[j].kind /\ x.on = job[j].on /\ x.at = job[j].at
          /\ x.end = "running" /\ x.acted = job[j].acted /\ x.saved = job[j].saved
          /\ x.appeal = job[j].appeal /\ x.found = {} /\ x.vain = job[j].vain
      BY <1>1 DEF JobType
    <2> QED
      BY <2>1 DEF ResolveAppeals
  <1>3. Passes(j, "resolve", q)
    BY <1>0, <1>1, <1>2 DEF Passes, BanInv, BanShapes
  <1>4. PICK r \in JobType : /\ job' = [job EXCEPT ![j] = r] /\ JobOK(r)
                             /\ r.kind = q.kind /\ r.on = q.on /\ r.appeal = q.appeal
                             /\ r.acted = q.acted /\ r.saved = q.saved /\ r.found \subseteq q.found /\ r.vain = q.vain
    BY <1>3, PassesJob
  <1>5. Keeps /\ Jobs' = Jobs /\ job'[j] = r
    <2>1. /\ r.on = job[j].on /\ (job[j].acted => r.acted /\ r.appeal = job[j].appeal) /\ (job[j].saved => r.saved)
          /\ (job[j].vain => r.vain)
      BY <1>2, <1>4
    <2>2. job' = [job EXCEPT ![j] = r]
      BY <1>4
    <2> QED
      BY <2>1, <2>2, OneJob
  <1>6. PICK missed \in SUBSET job[j].found :
            appeals' = [a \in DOMAIN appeals |->
                          IF a \in job[j].found \ missed
                          THEN Decided(appeals[a], "accepted", j) ELSE appeals[a]]
    BY DEF ResolveAppeals
  <1>7. ASSUME NEW a \in DOMAIN appeals
        PROVE  /\ appeals'[a] \in AppealType /\ appeals'[a].user = appeals[a].user
               /\ appeals'[a] = appeals[a] \/ AppealOK(a, appeals[a])'
    <2>1. appeals[a] \in AppealType
      BY AppealShape
    <2>2. CASE a \in job[j].found \ missed
      <3>1. appeals[a].user = job[j].on
        BY <1>1, <2>2 DEF LinkOK
      <3>2. PICK y \in AppealType : /\ appeals'[a] = y /\ y.user = appeals[a].user
                                    /\ y.status = "accepted" /\ y.by = j /\ y.review = appeals[a].review
        <4> DEFINE y == [appeals[a] EXCEPT !.status = "accepted", !.by = j]
        <4>1. /\ y \in AppealType /\ y.user = appeals[a].user
              /\ y.status = "accepted" /\ y.by = j /\ y.review = appeals[a].review
          BY <1>1, <2>1 DEF AppealType
        <4>2. appeals'[a] = y
          BY <1>6, <2>2 DEF Decided
        <4> QED
          BY <4>1, <4>2
      <3>3. /\ y.status = "accepted" => \/ appeals[a].status = "accepted" /\ y.by = appeals[a].by
                                        \/ y.by \in Jobs' /\ job'[y.by].acted /\ job'[y.by].on = y.user
            /\ y.review = "Accepted" => \/ appeals[a].review = "Accepted"
                                        \/ \E i \in Jobs' : job'[i].appeal = a /\ job'[i].acted /\ job'[i].saved
        <4>1. y.by \in Jobs' /\ job'[y.by].acted /\ job'[y.by].on = y.user
          <5>1. r.acted /\ r.on = job[j].on
            BY <1>1, <1>2, <1>4
          <5>2. y.by = j /\ y.user = job[j].on
            BY <3>1, <3>2
          <5> QED
            BY <1>5, <5>1, <5>2
        <4> QED
          BY <3>2, <4>1
      <3>4. AppealOK(a, y)'
        BY <1>5, <3>2, <3>3, AppealStays
      <3> QED
        BY <3>2, <3>4
    <2> QED
      BY <1>6, <2>1, <2>2
  <1>8. /\ appeals \in Seq(AppealType) /\ Len(appeals) \in Nat /\ DOMAIN appeals = 1..Len(appeals)
        /\ DOMAIN appeals' = DOMAIN appeals
    BY <1>6 DEF BanInv, BanShapes
  <1>9. appeals' \in Seq(AppealType) /\ Len(appeals') = Len(appeals)
    <2>1. appeals' \in [1..Len(appeals) -> AppealType]
      BY <1>6, <1>7, <1>8
    <2> QED
      BY <1>8, <2>1
  <1>10. UsersKept /\ AppealsKept
    BY <1>7, <1>8, <1>9 DEF UsersKept, AppealsKept
  <1>11. JobActs(j, r)
    BY <1>0, <1>2, <1>4, <1>9, <1>10 DEF JobActs, BanInv, BanShapes
  <1> QED
    BY <1>11, JobActsInv
-----------------------------------------------------------------------------
\* The other steps: a job begins, the process dies, cases are removed.
LEMMA StartInv == ASSUME BanInv, Command \/ PressAppeal \/ PressReview PROVE BanInv'
  <1>1. PICK command \in AllKinds, u \in Members, a \in Nat :
            /\ StartJob(command, u, a) /\ UNCHANGED <<banned, cases, appeals, buttons>>
            /\ command \in Pressed => a \in DOMAIN appeals /\ appeals[a].user = u
    <2>1. CASE Command
      <3>1. Kinds \subseteq AllKinds /\ Kinds \cap Pressed = {}
        BY LegacyBansAssumption DEF AllKinds, Pressed
      <3>2. PICK command \in Kinds, u \in Members : StartJob(command, u, 0)
        BY <2>1 DEF Command
      <3> QED
        BY <2>1, <3>1, <3>2 DEF Command
    <2>2. CASE PressAppeal
      <3>1. PICK u \in buttons : StartJob("AppealSubmit", u, 0)
        BY <2>2 DEF PressAppeal
      <3>2. u \in Members /\ "AppealSubmit" \in AllKinds /\ "AppealSubmit" \notin Pressed
        BY DEF BanInv, BanShapes, AllKinds, Pressed
      <3> QED
        BY <2>2, <3>1, <3>2 DEF PressAppeal
    <2>3. CASE PressReview
      <3>1. PICK a \in DOMAIN appeals, command \in Pressed : StartJob(command, appeals[a].user, a)
        BY <2>3 DEF PressReview, Pressed
      <3>2. appeals[a] \in AppealType /\ a \in Nat
        BY AppealShape DEF BanInv, BanShapes
      <3>3. appeals[a].user \in Members /\ command \in AllKinds
        BY <3>2 DEF AppealType, AllKinds, Pressed
      <3> QED
        BY <2>3, <3>1, <3>2, <3>3 DEF PressReview
    <2> QED
      BY <2>1, <2>2, <2>3
  <1>2. PICK r \in JobType : /\ r.kind = command /\ r.on = u /\ r.appeal = a /\ r.at = 1 /\ r.end = "running"
                             /\ r.acted = FALSE /\ r.saved = FALSE /\ r.found = {} /\ r.vain = FALSE
                             /\ job' = Append(job, r)
    <2> DEFINE x == NewJob(command, u, a)
    <2>1. /\ x \in JobType /\ x.kind = command /\ x.on = u /\ x.appeal = a /\ x.at = 1 /\ x.end = "running"
          /\ x.acted = FALSE /\ x.saved = FALSE /\ x.found = {} /\ x.vain = FALSE
      BY DEF NewJob, JobType
    <2> QED
      BY <1>1, <2>1 DEF StartJob
  <1>3. JobOK(r)
    <2>1. Len(CallsOf(command)) \in Nat \ {0}
      BY CallsFacts
    <2>2. ~Made(command, 0, "act") /\ ~Made(command, 0, "save")
      BY DEF Made
    <2> QED
      BY <1>2, <2>1, <2>2 DEF JobOK
  <1>4. LinkOK(r)'
    BY <1>1, <1>2 DEF LinkOK
  <1>5. job \in Seq(JobType) /\ Len(job) \in Nat /\ Len(job) < MaxJobs /\ MaxJobs \in Nat
    BY <1>1, LegacyBansAssumption DEF StartJob, BanInv, BanShapes
  <1>6. /\ job' \in Seq(JobType) /\ Len(job') = Len(job) + 1 /\ Jobs' = Jobs \cup {Len(job) + 1}
        /\ job'[Len(job) + 1] = r /\ \A i \in Jobs : job'[i] = job[i]
    BY <1>2, <1>5 DEF Jobs
  <1>7. Keeps /\ BanShapes'
    BY <1>1, <1>5, <1>6 DEF Keeps, BanInv, BanShapes
  <1>8. \A i \in Jobs' : (i \in Jobs /\ job'[i] = job[i]) \/ (JobOK(job[i])' /\ LinkOK(job[i])')
    BY <1>3, <1>4, <1>6
  <1> QED
    BY <1>1, <1>7, <1>8, SameAppeals, Upkeep

\* A process that dies takes its jobs with it.
LEMMA LostInv ==
  ASSUME BanInv, job' = Lost, UNCHANGED <<banned, cases, appeals, buttons>>
  PROVE  BanInv'
  <1>1. ASSUME NEW i \in Jobs
        PROVE  /\ job'[i] \in JobType /\ job'[i].on = job[i].on /\ job'[i].appeal = job[i].appeal
               /\ job'[i].acted = job[i].acted /\ job'[i].saved = job[i].saved
               /\ job'[i].vain = job[i].vain
               /\ job'[i] = job[i] \/ (JobOK(job[i])' /\ LinkOK(job[i])')
    <2>1. job[i] \in JobType /\ LinkOK(job[i])
      BY DEF BanInv, BanShapes, Jobs
    <2>2. CASE Running(i)
      <3>1. PICK x \in JobType : /\ job'[i] = x
                                 /\ x.on = job[i].on /\ x.appeal = job[i].appeal /\ x.kind = job[i].kind
                                 /\ x.acted = job[i].acted /\ x.saved = job[i].saved /\ x.vain = job[i].vain
                                 /\ x.end = "lost" /\ x.found = {}
        <4> DEFINE y == [job[i] EXCEPT !.end = "lost", !.at = 0, !.ban = 0, !.found = {}]
        <4>1. job'[i] = y
          BY <2>2 DEF Lost, Ended
        <4>2. /\ y \in JobType
              /\ y.on = job[i].on /\ y.appeal = job[i].appeal /\ y.kind = job[i].kind
              /\ y.acted = job[i].acted /\ y.saved = job[i].saved /\ y.vain = job[i].vain /\ y.end = "lost" /\ y.found = {}
          BY <2>1 DEF JobType
        <4> QED
          BY <4>1, <4>2
      <3>2. JobOK(x)
        <4>1. JobOK(job[i])
          BY DEF BanInv
        <4> QED
          BY <3>1, <4>1 DEF JobOK
      <3>3. LinkOK(x)'
        BY <2>1, <3>1 DEF LinkOK
      <3> QED
        BY <3>1, <3>2, <3>3
    <2> QED
      BY <2>1, <2>2 DEF Lost
  <1>2. job \in Seq(JobType) /\ Len(job) \in Nat /\ Jobs = 1..Len(job) /\ Jobs' = Jobs
    BY DEF BanInv, BanShapes, Jobs, Lost
  <1>3. job' \in Seq(JobType) /\ Len(job') = Len(job)
    <2>1. job' \in [1..Len(job) -> JobType]
      BY <1>1, <1>2 DEF Lost
    <2> QED
      BY <1>2, <2>1
  <1>4. Keeps /\ BanShapes'
    BY <1>1, <1>2, <1>3 DEF Keeps, BanInv, BanShapes
  <1>5. \A i \in Jobs' : (i \in Jobs /\ job'[i] = job[i]) \/ (JobOK(job[i])' /\ LinkOK(job[i])')
    BY <1>1, <1>2
  <1> QED
    BY <1>4, <1>5, SameAppeals, Upkeep

LEMMA InvitesInv == ASSUME BanInv, NEW j \in Jobs, ReadInvites(j) PROVE BanInv'
  <1>1. CASE Proceed(j, job[j])
    <2>1. job[j] \in JobType
      BY DEF BanInv, BanShapes, Jobs
    <2>2. Passes(j, "invites", job[j]) /\ appeals' = appeals
      BY <1>1 DEF ReadInvites, Passes, BanInv, BanShapes
    <2> QED
      BY <2>1, <2>2, PassesInv
  <1> QED
    BY <1>1, LostInv DEF ReadInvites

LEMMA RemoveInv == ASSUME BanInv, RemoveCases PROVE BanInv'
  <1>1. UNCHANGED <<job, banned, appeals, buttons>> /\ cases' \subseteq cases
    BY DEF RemoveCases
  <1>2. BanShapes' /\ Keeps
    BY <1>1 DEF BanInv, BanShapes, Keeps
  <1> QED
    BY <1>1, <1>2, SameAppeals, Upkeep DEF Jobs

LEMMA BanInitInv == ASSUME BanInit PROVE BanInv
  <1>1. MaxJobs \in Nat
    BY LegacyBansAssumption
  <1>2. job = <<>> /\ Len(job) = 0 /\ Jobs = {} /\ job \in Seq(JobType)
    BY DEF BanInit, Jobs
  <1>3. appeals = <<>> /\ DOMAIN appeals = {} /\ appeals \in Seq(AppealType)
    BY DEF BanInit
  <1>4. BanShapes
    BY <1>1, <1>2, <1>3 DEF BanInit, BanShapes
  <1> QED
    BY <1>2, <1>3, <1>4 DEF BanInit, BanInv

LEMMA BanNextInv == ASSUME BanInv, [BanNext]_banVars PROVE BanInv'
  <1>1. CASE UNCHANGED banVars
    <2>1. UNCHANGED <<job, banned, cases, appeals, buttons>>
      BY <1>1 DEF banVars
    <2>2. BanShapes' /\ Keeps
      BY <2>1 DEF BanInv, BanShapes, Keeps
    <2> QED
      BY <2>1, <2>2, SameAppeals, Upkeep DEF Jobs
  <1>2. CASE Command \/ PressAppeal \/ PressReview
    BY <1>2, StartInv
  <1>3. CASE RemoveCases
    BY <1>3, RemoveInv
  <1>4. CASE ProcessDies
    BY <1>4, LostInv DEF ProcessDies
  <1>5. ASSUME NEW j \in Jobs, Step(j) PROVE BanInv'
    BY <1>5, PlainInv, ActInv, SaveInv, InvitesInv, ResolveInv, FileInv, ReviewInv DEF Step
  <1> QED
    BY <1>1, <1>2, <1>3, <1>4, <1>5 DEF BanNext

LEMMA BanSafe == BanSpec => []BanInv
  BY BanInitInv, BanNextInv, PTL DEF BanSpec

\* A member's record shows nothing that was not done, but for a timeout of
\* unreadable length, and what a job did is missing from it only where its
\* call or the insert was answered by an error or the process died.
THEOREM RecordsTellActs == BanSpec => []CasesMatchActs
  <1>1. ASSUME BanInv PROVE CasesMatchActs
    <2>1. MaxJobs \in Nat
      BY LegacyBansAssumption
    <2>2. \A j \in Jobs : job[j] \in JobType /\ JobOK(job[j])
      BY <1>1 DEF BanInv, BanShapes, Jobs
    <2>3. \A c \in cases : c.n \in 1..MaxJobs /\ c.user \in Members /\ c.by \in Jobs
      BY <1>1, <2>1, StoredNow DEF BanInv, BanShapes, CaseOK, CaseType
    <2>4. \A a \in DOMAIN appeals : appeals[a] \in AppealType
      BY <1>1 DEF BanInv, BanShapes
    <2>5. BanTypeOK
      BY <1>1, <2>2, <2>3, <2>4 DEF BanTypeOK, BanInv, BanShapes, JobType, AppealType
    <2>6. CasesFollowActs
      BY <1>1 DEF BanInv, CaseOK, CasesFollowActs
    <2>7. ActsRecorded
      BY <2>2 DEF ActsRecorded, JobOK, JobType, CallsOf
    <2> QED
      BY <2>5, <2>6, <2>7 DEF CasesMatchActs
  <1> QED
    BY <1>1, BanSafe, PTL

\* An appeal that stands as accepted was accepted by a job that lifted a ban
\* of its member, and one whose message says so has its unban on record.
THEOREM AcceptedIsLifted == BanSpec => []AcceptedMeansLifted
  <1>1. ASSUME BanInv PROVE AcceptedMeansLifted
    BY <1>1 DEF AcceptedMeansLifted, BanInv, AppealOK
  <1> QED
    BY <1>1, BanSafe, PTL
-----------------------------------------------------------------------------
(* LegacyEvents. *)
WorkerType == [at : {"free", "gone"}, event : {"none"}]
                  \cup [at : {"settings", "case", "send"}, event : Reports]
AdminType == [at : {"idle", "done"}]
                 \cup [at : {"write"}, log : Logs, on : BOOLEAN,
                       read : [Logs -> BOOLEAN], stale : BOOLEAN]
Reasons == {"no", "full", "unlogged", "unread", "gone"}

EventShapes ==
    /\ kind \in [Reports -> ReportKinds \cup {"none"}]
    /\ arriving \subseteq Reports /\ asleep \subseteq Reports
    /\ channel \in Seq(Reports) /\ Len(channel) <= QueueSize
    /\ worker \in [LogWorkers -> WorkerType]
    /\ sent \in [Reports -> Nat] /\ lost \in [Reports -> Reasons]
    /\ phase \in {Order[i] : i \in DOMAIN Order} \cup {"panicked"}
    /\ logging \in [Logs -> BOOLEAN] /\ admin \in [Admins -> AdminType]

\* An event is with one worker, or once in the channel, or asleep, or arriving.
OnePlace(e) ==
    /\ \A w, v \in LogWorkers : worker[w].event = e /\ worker[v].event = e => w = v
    /\ \A i, j \in DOMAIN channel : channel[i] = e /\ channel[j] = e => i = j
    /\ InHand(e) => ~InChannel(e) /\ e \notin asleep /\ e \notin arriving
    /\ InChannel(e) => e \notin asleep /\ e \notin arriving
    /\ e \in asleep => e \notin arriving
Nowhere(e) == ~InHand(e) /\ ~InChannel(e) /\ e \notin asleep /\ e \notin arriving

EventOK(e) ==
    /\ OnePlace(e)
    /\ kind[e] = "none" => Nowhere(e)
    /\ Alive => kind[e] = "none" \/ Settled(e) \/ ~Nowhere(e)

\* A command that no other wrote behind has what Redis has.
AdminOK(a) == admin[a].at = "write" /\ ~admin[a].stale => admin[a].read = logging

EventInv ==
    /\ EventShapes
    /\ \A e \in Reports : EventOK(e)
    /\ \A a \in Admins : AdminOK(a)
-----------------------------------------------------------------------------
\* What a worker has in hand.
LEMMA WorkerFacts ==
  ASSUME EventInv, NEW w \in LogWorkers
  PROVE  /\ worker[w].at \in {"free", "gone"} => worker[w].event = "none"
         /\ worker[w].at \in {"settings", "case", "send"} => worker[w].event \in Reports
         /\ "none" \notin Reports /\ Free \in WorkerType /\ GoneWorker \in WorkerType
         /\ Free.event = "none" /\ GoneWorker.event = "none"
  <1>1. worker[w] \in WorkerType
    BY DEF EventInv, EventShapes
  <1>2. "none" \notin Reports
    BY LegacyEventsAssumption
  <1>3. /\ Free \in WorkerType /\ GoneWorker \in WorkerType
        /\ Free.event = "none" /\ GoneWorker.event = "none"
    BY DEF WorkerType, Free, GoneWorker
  <1>4. /\ worker[w].at \in {"free", "gone"} => worker[w].event = "none"
        /\ worker[w].at \in {"settings", "case", "send"} => worker[w].event \in Reports
    BY <1>1 DEF WorkerType
  <1> QED
    BY <1>2, <1>3, <1>4

\* An event at the head of the channel, and one at its back.
LEMMA HeadTail ==
  ASSUME NEW q \in Seq(Reports), q # <<>>, \A i, j \in DOMAIN q : q[i] = Head(q) /\ q[j] = Head(q) => i = j
  PROVE  /\ Head(q) \in Reports /\ Tail(q) \in Seq(Reports) /\ Len(Tail(q)) = Len(q) - 1 /\ Len(q) \in Nat
         /\ \A i \in DOMAIN Tail(q) : i + 1 \in DOMAIN q /\ Tail(q)[i] = q[i + 1] /\ Tail(q)[i] # Head(q)
         /\ \A i \in DOMAIN q : i = 1 \/ (i - 1 \in DOMAIN Tail(q) /\ Tail(q)[i - 1] = q[i])
         /\ 1 \in DOMAIN q /\ q[1] = Head(q)
  <1>1. Len(q) \in Nat \ {0} /\ DOMAIN q = 1..Len(q) /\ Head(q) = q[1]
    BY EmptySeq
  <1>2. /\ Tail(q) \in Seq(Reports) /\ Len(Tail(q)) = Len(q) - 1
        /\ \A i \in 1..(Len(q) - 1) : Tail(q)[i] = q[i + 1]
    BY <1>1
  <1>3. DOMAIN Tail(q) = 1..(Len(q) - 1)
    BY <1>1, <1>2
  <1>4. \A i \in DOMAIN Tail(q) : i + 1 \in DOMAIN q /\ i + 1 # 1 /\ Tail(q)[i] = q[i + 1]
    BY <1>1, <1>2, <1>3
  <1>5. 1 \in DOMAIN q /\ q[1] \in Reports
    BY <1>1
  <1> QED
    BY <1>1, <1>2, <1>3, <1>4, <1>5

\* An event that a step leaves where it is.
Stays(e) ==
    /\ \A w \in LogWorkers : worker'[w].event = e <=> worker[w].event = e
    /\ InChannel(e)' <=> InChannel(e)
    /\ \A i, j \in DOMAIN channel' : channel'[i] = e /\ channel'[j] = e => i = j
    /\ e \in asleep' <=> e \in asleep
    /\ e \in arriving' <=> e \in arriving
    /\ kind'[e] = kind[e]
    /\ sent'[e] = sent[e] /\ lost'[e] = lost[e]
    /\ Alive' => Alive

LEMMA StaysOK == ASSUME EventInv, NEW e \in Reports, Stays(e) PROVE EventOK(e)'
  <1>1. EventOK(e)
    BY DEF EventInv
  <1>2. InHand(e)' <=> InHand(e)
    BY DEF Stays, InHand
  <1>3. Settled(e)' <=> Settled(e)
    BY DEF Stays, Settled
  <1>4. Nowhere(e)' <=> Nowhere(e)
    BY <1>2 DEF Stays, Nowhere
  <1>5. OnePlace(e)'
    BY <1>1, <1>2 DEF Stays, OnePlace, EventOK
  <1> QED
    BY <1>1, <1>3, <1>4, <1>5 DEF Stays, EventOK

\* The channel of a step that neither sends nor receives.
LEMMA SameChannel ==
  ASSUME EventInv, UNCHANGED channel, NEW e \in Reports
  PROVE  /\ InChannel(e)' <=> InChannel(e)
         /\ \A i, j \in DOMAIN channel' : channel'[i] = e /\ channel'[j] = e => i = j
  BY DEF EventInv, EventOK, OnePlace, InChannel

\* Steps of the /log commands leave the queue alone; the others leave the
\* settings alone.
LEMMA SettingsStay == ASSUME EventInv, UNCHANGED <<logging, admin>> PROVE \A a \in Admins : AdminOK(a)'
  BY DEF EventInv, AdminOK
-----------------------------------------------------------------------------
LEMMA EventInitInv == ASSUME EventInit PROVE EventInv
  <1>1. "none" \notin Reports /\ QueueSize \in Nat
    BY LegacyEventsAssumption
  <1>2. EventShapes
    <2>1. channel \in Seq(Reports) /\ Len(channel) <= QueueSize
      BY <1>1 DEF EventInit
    <2>2. worker \in [LogWorkers -> WorkerType]
      BY DEF EventInit, Free, WorkerType
    <2>3. admin \in [Admins -> AdminType]
      BY DEF EventInit, AdminType
    <2>4. phase \in {Order[i] : i \in DOMAIN Order}
      BY DEF EventInit, Order
    <2> QED
      BY <2>1, <2>2, <2>3, <2>4 DEF EventInit, EventShapes, Reasons
  <1>3. ASSUME NEW e \in Reports PROVE EventOK(e)
    <2>1. \A w \in LogWorkers : worker[w].event # e
      BY <1>1 DEF EventInit, Free
    <2>2. DOMAIN channel = {}
      BY DEF EventInit
    <2>3. Nowhere(e) /\ kind[e] = "none"
      BY <2>1, <2>2 DEF EventInit, Nowhere, InHand, InChannel
    <2> QED
      BY <2>1, <2>2, <2>3 DEF EventOK, OnePlace, Nowhere
  <1>4. \A a \in Admins : AdminOK(a)
    BY DEF EventInit, AdminOK
  <1> QED
    BY <1>2, <1>3, <1>4 DEF EventInv

LEMMA ReportInv == ASSUME EventInv, NEW e \in Reports, Report(e) PROVE EventInv'
  <1>1. /\ UNCHANGED <<channel, worker, asleep, sent, lost, phase, logging, admin>>
        /\ arriving' = arriving \cup {e} /\ kind[e] = "none"
    BY DEF Report, queueVars
  <1>2. PICK k \in ReportKinds : kind' = [kind EXCEPT ![e] = k] /\ k # "none"
    BY LegacyEventsAssumption DEF Report, Handlers
  <1>3. EventShapes'
    BY <1>1, <1>2 DEF EventInv, EventShapes
  <1>4. ASSUME NEW d \in Reports PROVE EventOK(d)'
    <2>1. CASE d = e
      <3>1. Nowhere(e)
        BY <1>1 DEF EventInv, EventOK
      <3>2. OnePlace(e)'
        BY <1>1, <3>1, SameChannel DEF OnePlace, Nowhere, InHand, InChannel
      <3>3. kind'[e] # "none" /\ ~Nowhere(e)'
        BY <1>1, <1>2 DEF EventInv, EventShapes, Nowhere
      <3> QED
        BY <2>1, <3>2, <3>3 DEF EventOK
    <2>2. CASE d # e
      <3>1. Stays(d)
        BY <1>1, <1>2, <2>2, SameChannel DEF Stays, EventInv, EventShapes, Alive
      <3> QED
        BY <3>1, StaysOK
    <2> QED
      BY <2>1, <2>2
  <1> QED
    BY <1>1, <1>3, <1>4, SettingsStay DEF EventInv

\* An event goes into the channel, is dropped, or the process panics.
LEMMA EnqueueInv ==
  ASSUME EventInv, NEW e \in Reports, Alive, Enqueue(e), UNCHANGED <<kind, worker, sent, logging, admin>>,
         \/ e \in arriving /\ arriving' = arriving \ {e} /\ UNCHANGED asleep
         \/ e \in asleep /\ asleep' = asleep \ {e} /\ UNCHANGED arriving
  PROVE  EventInv'
  <1>1. /\ ~InHand(e) /\ ~InChannel(e) /\ OnePlace(e) /\ kind[e] # "none"
        /\ e \notin arriving' /\ e \notin asleep' /\ ~InHand(e)'
    BY DEF EventInv, EventOK, OnePlace, Nowhere, InHand
  <1>2. \A d \in Reports \ {e} : (d \in asleep' <=> d \in asleep) /\ (d \in arriving' <=> d \in arriving)
    OBVIOUS
  <1>3. CASE Passed("closed") /\ phase' = "panicked" /\ UNCHANGED <<channel, lost>>
    <2>1. ~Alive'
      BY <1>3 DEF Alive
    <2>2. EventShapes'
      BY <1>3 DEF EventInv, EventShapes
    <2>3. ASSUME NEW d \in Reports PROVE EventOK(d)'
      <3>1. CASE d = e
        <4>1. ~InChannel(e)'
          BY <1>1, <1>3, SameChannel
        <4>2. OnePlace(e)'
          BY <1>1, <1>3, <4>1, SameChannel DEF OnePlace
        <4> QED
          BY <1>1, <2>1, <3>1, <4>2 DEF EventOK
      <3>2. CASE d # e
        <4>1. Stays(d)
          BY <1>2, <1>3, <2>1, <3>2, SameChannel DEF Stays
        <4> QED
          BY <4>1, StaysOK
      <3> QED
        BY <3>1, <3>2
    <2> QED
      BY <2>2, <2>3, SettingsStay DEF EventInv
  <1>4. CASE UNCHANGED <<phase, channel>> /\ GiveUp(e, "full")
    <2>1. EventShapes' /\ lost'[e] = "full" /\ \A d \in Reports \ {e} : lost'[d] = lost[d]
      BY <1>4 DEF EventInv, EventShapes, GiveUp, Reasons
    <2>2. ASSUME NEW d \in Reports PROVE EventOK(d)'
      <3>1. CASE d = e
        <4>1. ~InChannel(e)'
          BY <1>1, <1>4, SameChannel
        <4>2. OnePlace(e)' /\ Settled(e)'
          BY <1>1, <1>4, <2>1, <4>1, SameChannel DEF OnePlace, Settled
        <4> QED
          BY <1>1, <3>1, <4>2 DEF EventOK
      <3>2. CASE d # e
        <4>1. Stays(d)
          BY <1>2, <1>4, <2>1, <3>2, SameChannel DEF Stays, Alive
        <4> QED
          BY <4>1, StaysOK
      <3> QED
        BY <3>1, <3>2
    <2> QED
      BY <2>1, <2>2, SettingsStay DEF EventInv
  <1>5. CASE UNCHANGED <<phase, lost>> /\ HasRoom /\ channel' = Append(channel, e)
    <2>1. channel \in Seq(Reports) /\ Len(channel) \in Nat /\ Len(channel) < QueueSize /\ QueueSize \in Nat
      BY <1>5, LegacyEventsAssumption DEF EventInv, EventShapes, HasRoom
    <2>2. /\ channel' \in Seq(Reports) /\ Len(channel') = Len(channel) + 1
          /\ DOMAIN channel' = DOMAIN channel \cup {Len(channel) + 1} /\ channel'[Len(channel) + 1] = e
          /\ \A i \in DOMAIN channel : channel'[i] = channel[i] /\ channel[i] # e
      BY <1>1, <1>5, <2>1 DEF InChannel
    <2>3. EventShapes'
      BY <1>5, <2>1, <2>2 DEF EventInv, EventShapes
    <2>4. ASSUME NEW d \in Reports PROVE EventOK(d)'
      <3>1. CASE d = e
        <4>1. InChannel(e)' /\ \A i, j \in DOMAIN channel' : channel'[i] = e /\ channel'[j] = e => i = j
          BY <2>2 DEF InChannel
        <4>2. OnePlace(e)' /\ ~Nowhere(e)'
          BY <1>1, <4>1 DEF OnePlace, Nowhere
        <4> QED
          BY <1>1, <3>1, <4>2 DEF EventOK
      <3>2. CASE d # e
        <4>1. /\ InChannel(d)' <=> InChannel(d)
              /\ \A i, j \in DOMAIN channel' : channel'[i] = d /\ channel'[j] = d => i = j
          BY <2>2, <3>2 DEF InChannel, EventInv, EventOK, OnePlace
        <4>2. Stays(d)
          BY <1>2, <1>5, <3>2, <4>1 DEF Stays, Alive
        <4> QED
          BY <4>2, StaysOK
      <3> QED
        BY <3>1, <3>2
    <2> QED
      BY <2>3, <2>4, SettingsStay DEF EventInv
  <1> QED
    BY <1>3, <1>4, <1>5 DEF Enqueue

\* A worker lets go of its event: it is settled or waits out its minute.
LetsGo(w, e) ==
    /\ worker[w].event = e /\ worker' = [worker EXCEPT ![w] = Free]
    /\ UNCHANGED <<kind, arriving, channel, phase, logging, admin>>
    /\ asleep' = asleep \/ asleep' = asleep \cup {e}
    /\ sent' = sent \/ sent' = [sent EXCEPT ![e] = @ + 1]
    /\ lost' = lost \/ \E why \in Reasons : lost' = [lost EXCEPT ![e] = why]
    /\ Settled(e)' \/ e \in asleep'

LEMMA LetsGoInv == ASSUME EventInv, NEW w \in LogWorkers, NEW e \in Reports, LetsGo(w, e) PROVE EventInv'
  <1>1. /\ worker'[w] = Free /\ Free \in WorkerType /\ Free.event = "none" /\ e # "none"
        /\ \A v \in LogWorkers \ {w} : worker'[v] = worker[v]
        /\ \A d \in Reports \ {e} : sent'[d] = sent[d] /\ lost'[d] = lost[d] /\ d # "none"
    BY WorkerFacts DEF LetsGo, EventInv, EventShapes
  <1>2. EventShapes'
    BY <1>1 DEF LetsGo, EventInv, EventShapes
  <1>3. ASSUME NEW d \in Reports PROVE EventOK(d)'
    <2>1. CASE d = e
      <3>1. OnePlace(e) /\ kind[e] # "none" /\ ~InChannel(e) /\ e \notin arriving
        BY DEF LetsGo, EventInv, EventOK, OnePlace, Nowhere, InHand
      <3>2. \A v \in LogWorkers : worker'[v].event # e
        BY <1>1, <3>1 DEF OnePlace, LetsGo
      <3>3. ~InHand(e)' /\ ~InChannel(e)'
        BY <3>1, <3>2, SameChannel DEF InHand, LetsGo
      <3>4. OnePlace(e)'
        BY <3>1, <3>2, <3>3, SameChannel DEF OnePlace, LetsGo
      <3>5. kind'[e] # "none" /\ (Settled(e)' \/ ~Nowhere(e)')
        BY <3>1 DEF LetsGo, Nowhere
      <3> QED
        BY <2>1, <3>4, <3>5 DEF EventOK
    <2>2. CASE d # e
      <3>1. \A v \in LogWorkers : worker'[v].event = d <=> worker[v].event = d
        BY <1>1, <2>2 DEF LetsGo
      <3>2. Stays(d)
        BY <1>1, <2>2, <3>1, SameChannel DEF Stays, LetsGo, Alive
      <3> QED
        BY <3>2, StaysOK
    <2> QED
      BY <2>1, <2>2
  <1> QED
    BY <1>2, <1>3, SettingsStay DEF EventInv, LetsGo

\* A worker's event stays with it.
LEMMA MovesInv ==
  ASSUME EventInv, NEW w \in LogWorkers, NEW at \in {"case", "send"},
         worker[w].at \in {"settings", "case", "send"}, Moves(w, at),
         UNCHANGED <<kind, arriving, channel, asleep, sent, lost, phase, logging, admin>>
  PROVE  EventInv'
  <1>1. /\ worker'[w].event = worker[w].event /\ worker'[w] \in WorkerType
        /\ \A v \in LogWorkers \ {w} : worker'[v] = worker[v]
    BY DEF Moves, EventInv, EventShapes, WorkerType
  <1>2. worker' \in [LogWorkers -> WorkerType]
    <2>1. worker \in [LogWorkers -> WorkerType]
      BY DEF EventInv, EventShapes
    <2> HIDE DEF WorkerType
    <2> QED
      BY <1>1, <2>1 DEF Moves
  <1>3. EventShapes'
    BY <1>2 DEF EventInv, EventShapes
  <1>4. ASSUME NEW d \in Reports PROVE EventOK(d)'
    <2>1. Stays(d)
      BY <1>1, SameChannel DEF Stays, Alive
    <2> QED
      BY <2>1, StaysOK
  <1> QED
    BY <1>3, <1>4, SettingsStay DEF EventInv

LEMMA TakeInv == ASSUME EventInv, NEW w \in LogWorkers, Take(w) PROVE EventInv'
  <1>1. PICK e \in Reports : /\ e = Head(channel) /\ channel' = Tail(channel)
                             /\ worker' = [worker EXCEPT ![w] = [at |-> "settings", event |-> e]]
    <2>1. channel \in Seq(Reports) /\ channel # <<>>
      BY DEF Take, EventInv, EventShapes
    <2>2. Head(channel) \in Reports
      BY <2>1, EmptySeq
    <2> QED
      BY <2>2 DEF Take
  <1>2. /\ UNCHANGED <<kind, arriving, asleep, sent, lost, phase, logging, admin>>
        /\ channel \in Seq(Reports) /\ channel # <<>> /\ worker[w].event = "none" /\ e # "none"
    BY WorkerFacts DEF Take, EventInv, EventShapes
  <1>3. OnePlace(e)
    BY DEF EventInv, EventOK
  <1>4. /\ Tail(channel) \in Seq(Reports) /\ Len(Tail(channel)) = Len(channel) - 1 /\ Len(channel) \in Nat
        /\ \A i \in DOMAIN Tail(channel) : /\ i + 1 \in DOMAIN channel
                                           /\ Tail(channel)[i] = channel[i + 1] /\ Tail(channel)[i] # e
        /\ \A i \in DOMAIN channel : i = 1 \/ (i - 1 \in DOMAIN Tail(channel) /\ Tail(channel)[i - 1] = channel[i])
        /\ 1 \in DOMAIN channel /\ channel[1] = e
    BY <1>1, <1>2, <1>3, HeadTail DEF OnePlace
  <1>5. /\ worker'[w] = [at |-> "settings", event |-> e] /\ worker'[w].event = e
        /\ [at |-> "settings", event |-> e] \in WorkerType
        /\ \A v \in LogWorkers \ {w} : worker'[v] = worker[v]
    BY <1>1 DEF EventInv, EventShapes, WorkerType
  <1>6. EventShapes'
    <2>1. QueueSize \in Nat
      BY LegacyEventsAssumption
    <2>2. channel' \in Seq(Reports) /\ Len(channel') <= QueueSize
      BY <1>1, <1>4, <2>1 DEF EventInv, EventShapes
    <2>3. worker' \in [LogWorkers -> WorkerType]
      BY <1>1, <1>5 DEF EventInv, EventShapes
    <2> QED
      BY <1>2, <2>2, <2>3 DEF EventInv, EventShapes
  <1>7. ASSUME NEW d \in Reports PROVE EventOK(d)'
    <2>1. CASE d = e
      <3>1. InChannel(e)
        BY <1>4 DEF InChannel
      <3>2. ~InHand(e) /\ e \notin asleep /\ e \notin arriving /\ kind[e] # "none"
        BY <1>3, <3>1 DEF OnePlace, EventInv, EventOK, Nowhere
      <3>3. ~InChannel(e)' /\ InHand(e)'
        BY <1>1, <1>4, <1>5 DEF InChannel, InHand
      <3>4. \A v, u \in LogWorkers : worker'[v].event = e /\ worker'[u].event = e => v = u
        BY <1>5, <3>2 DEF InHand
      <3>5. OnePlace(e)' /\ ~Nowhere(e)'
        BY <1>1, <1>2, <1>4, <3>2, <3>3, <3>4 DEF OnePlace, Nowhere
      <3> QED
        BY <1>2, <2>1, <3>2, <3>5 DEF EventOK
    <2>2. CASE d # e
      <3>1. InChannel(d)' <=> InChannel(d)
        <4>1. ASSUME InChannel(d)' PROVE InChannel(d)
          <5>1. PICK i \in DOMAIN Tail(channel) : Tail(channel)[i] = d
            BY <1>1, <4>1 DEF InChannel
          <5> QED
            BY <1>4, <5>1 DEF InChannel
        <4>2. ASSUME InChannel(d) PROVE InChannel(d)'
          <5>1. PICK i \in DOMAIN channel : channel[i] = d
            BY <4>2 DEF InChannel
          <5>2. i - 1 \in DOMAIN channel' /\ channel'[i - 1] = d
            BY <1>1, <1>4, <2>2, <5>1
          <5> QED
            BY <5>2 DEF InChannel
        <4> QED
          BY <4>1, <4>2
      <3>2. \A i, j \in DOMAIN channel' : channel'[i] = d /\ channel'[j] = d => i = j
        <4> SUFFICES ASSUME NEW i \in DOMAIN channel', NEW j \in DOMAIN channel', channel'[i] = d, channel'[j] = d
                     PROVE  i = j
          OBVIOUS
        <4>1. i + 1 \in DOMAIN channel /\ j + 1 \in DOMAIN channel /\ channel[i + 1] = d /\ channel[j + 1] = d
          BY <1>1, <1>4
        <4>2. i + 1 = j + 1
          BY <4>1 DEF EventInv, EventOK, OnePlace
        <4>3. i \in Nat /\ j \in Nat
          BY <1>1, <1>4
        <4> QED
          BY <4>2, <4>3
      <3>3. \A v \in LogWorkers : worker'[v].event = d <=> worker[v].event = d
        BY <1>2, <1>5, <2>2, LegacyEventsAssumption
      <3>4. Stays(d)
        BY <1>2, <3>1, <3>2, <3>3 DEF Stays, Alive
      <3> QED
        BY <3>4, StaysOK
    <2> QED
      BY <2>1, <2>2
  <1> QED
    BY <1>2, <1>6, <1>7, SettingsStay DEF EventInv

LEMMA LeaveInv == ASSUME EventInv, NEW w \in LogWorkers, Leave(w) PROVE EventInv'
  <1>1. /\ UNCHANGED <<kind, arriving, channel, asleep, sent, lost, phase, logging, admin>>
        /\ worker[w].event = "none" /\ GoneWorker.event = "none" /\ GoneWorker \in WorkerType
        /\ worker' = [worker EXCEPT ![w] = GoneWorker]
    BY WorkerFacts DEF Leave, Quits
  <1>2. worker' \in [LogWorkers -> WorkerType] /\ \A v \in LogWorkers : worker'[v].event = worker[v].event
    BY <1>1 DEF EventInv, EventShapes
  <1>3. EventShapes'
    BY <1>1, <1>2 DEF EventInv, EventShapes
  <1>4. ASSUME NEW d \in Reports PROVE EventOK(d)'
    <2>1. Stays(d)
      BY <1>1, <1>2, SameChannel DEF Stays, Alive
    <2> QED
      BY <2>1, StaysOK
  <1> QED
    BY <1>1, <1>3, <1>4, SettingsStay DEF EventInv

\* The bot stops, or nothing of this happens.
LEMMA QueueStays ==
  ASSUME EventInv, EventShapes', UNCHANGED <<kind, arriving, queueVars>>, Alive' => Alive
  PROVE  \A e \in Reports : EventOK(e)'
  <1> SUFFICES ASSUME NEW e \in Reports PROVE EventOK(e)'
    OBVIOUS
  <1>1. UNCHANGED <<kind, arriving, channel, worker, asleep, sent, lost>>
    BY DEF queueVars
  <1>2. Stays(e)
    BY <1>1, SameChannel DEF Stays
  <1> QED
    BY <1>2, StaysOK

LEMMA HandleInv == ASSUME EventInv, NEW w \in LogWorkers, ReadSettings(w) \/ ReadCase(w) \/ Send(w) PROVE EventInv'
  <1>1. PICK e \in Reports : e = worker[w].event
    BY WorkerFacts DEF ReadSettings, ReadCase, Send
  <1>2. worker[w].at \in {"settings", "case", "send"} /\ UNCHANGED <<kind, arriving, channel, logging, admin>>
    BY DEF ReadSettings, ReadCase, Send
  <1>3. sent \in [Reports -> Nat] /\ lost \in [Reports -> Reasons]
    BY DEF EventInv, EventShapes
  <1>4. CASE Frees(w) /\ UNCHANGED <<asleep, sent, phase>> /\ \E why \in Reasons \ {"no"} : GiveUp(e, why)
    <2>1. Settled(e)' /\ \E why \in Reasons : lost' = [lost EXCEPT ![e] = why]
      BY <1>3, <1>4 DEF GiveUp, Settled
    <2>2. LetsGo(w, e)
      BY <1>1, <1>2, <1>4, <2>1 DEF LetsGo, Frees
    <2> QED
      BY <2>2, LetsGoInv
  <1>5. CASE Frees(w) /\ UNCHANGED <<asleep, lost, phase>> /\ Posted(e)
    <2>1. sent' = [sent EXCEPT ![e] = @ + 1] /\ Settled(e)'
      BY <1>3, <1>5 DEF Posted, Settled
    <2>2. LetsGo(w, e)
      BY <1>1, <1>2, <1>5, <2>1 DEF LetsGo, Frees
    <2> QED
      BY <2>2, LetsGoInv
  <1>6. CASE Frees(w) /\ Requeue(e) /\ UNCHANGED <<lost, phase>> /\ (Posted(e) \/ UNCHANGED sent)
    <2>1. LetsGo(w, e)
      BY <1>1, <1>2, <1>6 DEF LetsGo, Frees, Requeue, Posted
    <2> QED
      BY <2>1, LetsGoInv
  <1>7. CASE \E at \in {"case", "send"} : Moves(w, at) /\ UNCHANGED <<asleep, sent, lost, phase>>
    BY <1>2, <1>7, MovesInv
  <1>11. CASE phase' = "panicked" /\ UNCHANGED <<worker, asleep, sent, lost>>
    <2>1. EventShapes'
      BY <1>2, <1>11 DEF EventInv, EventShapes
    <2>2. UNCHANGED <<kind, arriving, queueVars>> /\ ~Alive'
      BY <1>2, <1>11 DEF queueVars, Alive
    <2> QED
      BY <1>2, <2>1, <2>2, QueueStays, SettingsStay DEF EventInv
  <1>8. CASE ReadSettings(w)
    BY <1>1, <1>4, <1>7, <1>8, <1>11 DEF ReadSettings, AfterError, Reasons
  <1>9. CASE ReadCase(w)
    BY <1>1, <1>4, <1>7, <1>9 DEF ReadCase, AfterError, Reasons
  <1>10. CASE Send(w)
    BY <1>1, <1>4, <1>5, <1>6, <1>10 DEF Send, AfterError, Reasons
  <1> QED
    BY <1>8, <1>9, <1>10

LEMMA ShutdownInv == ASSUME EventInv, Shutdown PROVE EventInv'
  <1>1. UNCHANGED <<kind, arriving, channel, worker, asleep, sent, lost, logging, admin>> /\ Alive
    BY DEF Shutdown, queueVars
  <1>2. phase' \in {Order[i] : i \in DOMAIN Order}
    <2>1. DOMAIN Order = 1..7 /\ Len(Order) = 7
      BY DEF Order
    <2>2. PICK i \in 1..6 : phase' = Order[i + 1]
      BY <2>1 DEF Shutdown
    <2>3. i + 1 \in DOMAIN Order
      BY <2>1
    <2> QED
      BY <2>2, <2>3
  <1>3. EventShapes'
    BY <1>1, <1>2 DEF EventInv, EventShapes
  <1>4. UNCHANGED <<kind, arriving, queueVars>>
    BY DEF Shutdown
  <1> QED
    BY <1>1, <1>3, <1>4, QueueStays, SettingsStay DEF EventInv
-----------------------------------------------------------------------------
\* A command reads; another command's copy is stale once it has written.
LEMMA AdminFacts ==
  ASSUME EventInv, NEW a \in Admins, admin[a].at = "write"
  PROVE  /\ admin[a].log \in Logs /\ admin[a].on \in BOOLEAN
         /\ admin[a].read \in [Logs -> BOOLEAN] /\ admin[a].stale \in BOOLEAN
         /\ [admin[a] EXCEPT !.stale = TRUE] \in AdminType /\ [admin[a] EXCEPT !.stale = TRUE].stale
  <1>1. admin[a] \in AdminType
    BY DEF EventInv, EventShapes
  <1>2. admin[a] \in [at : {"write"}, log : Logs, on : BOOLEAN, read : [Logs -> BOOLEAN], stale : BOOLEAN]
    BY <1>1 DEF AdminType
  <1> QED
    BY <1>2 DEF AdminType

LEMMA CommandInv ==
  ASSUME EventInv, NEW a \in Admins, ReadLog(a) \/ WriteLog(a)
  PROVE  EventInv'
  <1>1. UNCHANGED <<kind, arriving, queueVars, phase>>
    BY DEF ReadLog, WriteLog
  <1>2. UNCHANGED <<kind, arriving, channel, worker, asleep, sent, lost, phase>>
    BY <1>1 DEF queueVars
  <1>3. /\ logging' \in [Logs -> BOOLEAN] /\ admin' \in [Admins -> AdminType]
        /\ \A b \in Admins : AdminOK(b)'
    <2>0. logging \in [Logs -> BOOLEAN] /\ admin \in [Admins -> AdminType]
      BY DEF EventInv, EventShapes
    <2>1. CASE ReadLog(a)
      <3>1. PICK r \in AdminType : admin' = [admin EXCEPT ![a] = r] /\ r.read = logging
        <4>1. PICK log \in Logs, on \in BOOLEAN :
                admin' = [admin EXCEPT ![a] = [at |-> "write", log |-> log, on |-> on,
                                               read |-> logging, stale |-> FALSE]]
          BY <2>1 DEF ReadLog
        <4>2. [at |-> "write", log |-> log, on |-> on, read |-> logging, stale |-> FALSE] \in AdminType
          BY <2>0 DEF AdminType
        <4> QED
          BY <4>1, <4>2
      <3>2. logging' = logging
        BY <2>1 DEF ReadLog
      <3>3. admin'[a] = r /\ \A b \in Admins \ {a} : admin'[b] = admin[b]
        BY <2>0, <3>1
      <3>4. \A b \in Admins : AdminOK(b)'
        BY <3>1, <3>2, <3>3 DEF AdminOK, EventInv
      <3> QED
        BY <2>0, <3>1, <3>2, <3>4
    <2>2. CASE WriteLog(a)
      <3>1. [at |-> "done"] \in AdminType /\ [at |-> "done"].at # "write"
        BY DEF AdminType
      <3>2. admin[a].at = "write"
        BY <2>2 DEF WriteLog
      <3>3. CASE UNCHANGED logging /\ admin' = [admin EXCEPT ![a] = [at |-> "done"]]
        <4>1. \A b \in Admins : AdminOK(b)'
          BY <2>0, <3>1, <3>3 DEF AdminOK, EventInv
        <4> QED
          BY <2>0, <3>1, <3>3, <4>1
      <3>4. CASE /\ logging' = NewSettings(admin[a])
                 /\ admin' = [b \in Admins |->
                                IF b = a THEN [at |-> "done"]
                                ELSE IF admin[b].at = "write" THEN [admin[b] EXCEPT !.stale = TRUE]
                                ELSE admin[b]]
        <4>1. logging' \in [Logs -> BOOLEAN]
          BY <3>2, <3>4, AdminFacts DEF NewSettings
        <4>2. ASSUME NEW b \in Admins PROVE admin'[b] \in AdminType /\ AdminOK(b)'
          <5>1. CASE b = a
            BY <3>1, <3>4, <5>1 DEF AdminOK
          <5>2. CASE b # a /\ admin[b].at = "write"
            BY <3>4, <5>2, AdminFacts DEF AdminOK
          <5>3. CASE b # a /\ admin[b].at # "write"
            BY <2>0, <3>4, <5>3 DEF AdminOK
          <5> QED
            BY <5>1, <5>2, <5>3
        <4>3. admin' \in [Admins -> AdminType]
          BY <3>4, <4>2
        <4> QED
          BY <4>1, <4>2, <4>3
      <3> QED
        BY <2>2, <3>3, <3>4 DEF WriteLog
    <2> QED
      BY <2>1, <2>2
  <1>4. EventShapes'
    BY <1>2, <1>3 DEF EventInv, EventShapes
  <1> QED
    BY <1>1, <1>2, <1>3, <1>4, QueueStays DEF EventInv, Alive

LEMMA EventNextInv == ASSUME EventInv, [EventNext]_eventVars PROVE EventInv'
  <1>1. CASE UNCHANGED eventVars
    <2>1. /\ UNCHANGED <<kind, arriving, queueVars, phase, logging, admin>>
          /\ UNCHANGED <<kind, arriving, channel, worker, asleep, sent, lost, phase, logging, admin>>
      BY <1>1 DEF eventVars, queueVars
    <2>2. EventShapes'
      BY <2>1 DEF EventInv, EventShapes
    <2> QED
      BY <2>1, <2>2, QueueStays, SettingsStay DEF EventInv, Alive
  <1>2. ASSUME NEW e \in Reports, Arrive(e) PROVE EventInv'
    BY <1>2, EnqueueInv DEF Arrive
  <1>3. ASSUME NEW e \in Reports, Wake(e) PROVE EventInv'
    BY <1>3, EnqueueInv DEF Wake
  <1>4. ASSUME NEW w \in LogWorkers, WorkerStep(w) PROVE EventInv'
    BY <1>4, TakeInv, LeaveInv, HandleInv DEF WorkerStep
  <1> QED
    BY <1>1, <1>2, <1>3, <1>4, ReportInv, CommandInv, ShutdownInv DEF EventNext

LEMMA EventSafe == EventSpec => []EventInv
  BY EventInitInv, EventNextInv, PTL DEF EventSpec

\* A set that has no two elements.
LEMMA AtMostOne ==
  ASSUME NEW S, \A x, y \in S : x = y
  PROVE  Cardinality(S) \in {0, 1} /\ (S = {} => Cardinality(S) = 0)
  <1>1. CASE S = {}
    BY <1>1, FS_EmptySet
  <1>2. CASE S # {}
    <2>1. PICK x \in S : S = {x}
      BY <1>2
    <2>2. Cardinality({x}) = 1
      BY FS_Singleton
    <2> QED
      BY <2>1, <2>2, <1>2
  <1> QED
    BY <1>1, <1>2

\* For any number of events and workers and any size of the channel: an event
\* that was reported is in one place, or it was posted or given up for a
\* stated reason, however full the channel and whatever fails or stops
\* (event-queue.go).
THEOREM NoEventIsLost == EventSpec => []EventsAccounted
  <1>1. ASSUME EventInv PROVE EventsAccounted
    <2>1. NoEventVanishes
      BY <1>1 DEF NoEventVanishes, EventInv, EventOK, Nowhere
    <2>2. ASSUME NEW e \in Reports
          PROVE  Cardinality({w \in LogWorkers : worker[w].event = e})
                 + Cardinality({i \in DOMAIN channel : channel[i] = e})
                 + Cardinality({e} \cap asleep)
                 + Cardinality({e} \cap arriving) <= 1
      <3> DEFINE W == {w \in LogWorkers : worker[w].event = e}
                 C == {i \in DOMAIN channel : channel[i] = e}
                 S == {e} \cap asleep
                 R == {e} \cap arriving
      <3>1. OnePlace(e)
        BY <1>1 DEF EventInv, EventOK
      <3>2. (\A x, y \in W : x = y) /\ (\A x, y \in C : x = y)
        BY <3>1 DEF OnePlace
      <3>3. (\A x, y \in S : x = y) /\ (\A x, y \in R : x = y)
        OBVIOUS
      <3>4. /\ W # {} => C = {} /\ S = {} /\ R = {}
            /\ C # {} => S = {} /\ R = {}
            /\ S # {} => R = {}
        BY <3>1 DEF OnePlace, InHand, InChannel
      <3>5. Cardinality(W) \in {0, 1} /\ (W = {} => Cardinality(W) = 0)
        BY <3>2, AtMostOne
      <3>6. Cardinality(C) \in {0, 1} /\ (C = {} => Cardinality(C) = 0)
        BY <3>2, AtMostOne
      <3>7. Cardinality(S) \in {0, 1} /\ (S = {} => Cardinality(S) = 0)
        BY <3>3, AtMostOne
      <3>8. Cardinality(R) \in {0, 1} /\ (R = {} => Cardinality(R) = 0)
        BY <3>3, AtMostOne
      <3> QED
        BY <3>4, <3>5, <3>6, <3>7, <3>8
    <2>3. EventTypeOK
      BY <1>1, <2>2 DEF EventTypeOK, EventInv, EventShapes, Reasons
    <2> QED
      BY <2>1, <2>3 DEF EventsAccounted
  <1> QED
    BY <1>1, EventSafe, PTL

\* A command changes the log it names; it changes the other one only if
\* another command wrote between its read and its write (log-channel.go).
THEOREM CommandsKeepToTheirLog == EventSpec => OtherLogUntouched
  <1> DEFINE OwnLog == \A log \in Logs : logging'[log] # logging[log] =>
                       \E a \in Admins : /\ admin[a].at = "write" /\ admin'[a].at = "done"
                                         /\ admin[a].log = log \/ admin[a].stale
  <1>1. ASSUME EventInv, [EventNext]_eventVars PROVE [OwnLog]_eventVars
    <2>1. CASE UNCHANGED eventVars
      BY <2>1
    <2>2. CASE UNCHANGED logging
      BY <2>2
    <2>3. ASSUME NEW a \in Admins, WriteLog(a), logging' # logging PROVE OwnLog
      <3>1. /\ admin[a].at = "write" /\ logging' = NewSettings(admin[a]) /\ admin'[a].at = "done"
        BY <2>3 DEF WriteLog
      <3>2. ~admin[a].stale => admin[a].read = logging
        BY <1>1, <3>1 DEF EventInv, AdminOK
      <3>3. \A log \in Logs : log # admin[a].log => logging'[log] = admin[a].read[log]
        BY <1>1, <3>1, AdminFacts DEF NewSettings
      <3> QED
        BY <3>1, <3>2, <3>3
    <2>4. \/ UNCHANGED eventVars \/ UNCHANGED logging
          \/ \E a \in Admins : WriteLog(a)
      BY <1>1 DEF EventNext, Report, Arrive, Wake, WorkerStep, Take, Leave, ReadSettings, ReadCase, Send,
                  ReadLog, Shutdown
    <2> QED
      BY <2>1, <2>2, <2>3, <2>4
  <1> QED
    BY <1>1, EventSafe, PTL DEF EventSpec, OtherLogUntouched
==============================================================================
