-------------------------- MODULE FrontendsProofs --------------------------
(***************************************************************************)
(* Proofs about the components side by side. A behaviour of Frontends is   *)
(* one of each component, so that what is proved of a component holds in   *)
(* it; and the components' variables keep their types.                     *)
(*                                                                         *)
(* The member's record is here as well: for every set of accepted          *)
(* policies, all windows, and records of any length and age.               *)
(***************************************************************************)
EXTENDS Frontends, DashboardProofs, EscalationProofs, SequenceTheorems

\* The template of a record stays the one it had.
LEMMA PolicyStays == RecordSpec => [](policy \in Policies)
<1>1. RecordInit => policy \in Policies
  BY DEF RecordInit
<1>2. policy \in Policies /\ [RecordNext]_<<policy, ages>> => (policy \in Policies)'
  BY DEF RecordNext, CreateForMember, RecordAges
<1>3. QED
  BY <1>1, <1>2, PTL DEF RecordSpec

\* Whatever the record of a member, the scan picks the level that the comment
\* over selectTemplateLevel describes.
THEOREM RecordGetsDocumentedLevel == RecordSpec => []SelectsDocumentedLevel
<1>1. policy \in Policies => SelectsDocumentedLevel
  BY RecordAssumption, SelectIsDocumented DEF SelectsDocumentedLevel, Selected
<1>2. QED
  BY <1>1, PolicyStays, PTL

\* A template that was accepted can be applied, at any time, exactly if its
\* default level is enabled. Validation accepts it in both cases.
THEOREM EnabledDefaultApplies ==
    RecordSpec => [](AcceptedTemplatesApply <=> DefaultAt(policy) # {})
<1>1. policy \in Policies /\ DefaultAt(policy) # {} => AcceptedTemplatesApply
  BY RecordAssumption, DefaultSelects DEF AcceptedTemplatesApply, Selected
<1>2. policy \in Policies /\ DefaultAt(policy) = {} => ~AcceptedTemplatesApply
  BY RecordAssumption, SelectIsDocumented DEF AcceptedTemplatesApply, Selected, DocumentedLevel
<1>3. policy \in Policies => (AcceptedTemplatesApply <=> DefaultAt(policy) # {})
  BY <1>1, <1>2
<1>4. QED
  BY <1>3, PolicyStays, PTL
-----------------------------------------------------------------------------
(* Side by side. *)
\* A step of Frontends is a step of the component that moves, and leaves the
\* others alone.
LEMMA StepOfComponents ==
  ASSUME [FrontendsNext]_frontendVars
  PROVE  /\ [PagingNext]_pagingVars /\ [ReadsNext]_readsVars /\ [AuthNext]_authVars
         /\ [StaffNext]_staffVars /\ [TemplatesNext]_templateVars
         /\ [RecordNext]_<<policy, ages>> /\ [SyncNext]_syncVars /\ [ChatNext]_chatVars
  BY DEF FrontendsNext, DashboardNext, frontendVars, dashboardVars

\* The components in Frontends behave as they do by themselves, whichever moves.
THEOREM ComponentsRun ==
    FrontendsSpec => /\ PagingSpec /\ ReadsSpec /\ AuthSpec /\ StaffSpec /\ TemplatesSpec
                     /\ RecordSpec /\ SyncSpec /\ ChatSpec
  <1>1. FrontendsInit => /\ PagingInit /\ ReadsInit /\ AuthInit /\ StaffInit /\ TemplatesInit
                         /\ RecordInit /\ SyncInit /\ ChatInit
    BY DEF FrontendsInit
  <1> QED
    BY <1>1, StepOfComponents, PTL
       DEF FrontendsSpec, PagingSpec, ReadsSpec, AuthSpec, StaffSpec, TemplatesSpec,
           RecordSpec, SyncSpec, ChatSpec
-----------------------------------------------------------------------------
(* Types. *)
\* The offset is a multiple of the limit that is used.
PagingTyped ==
    /\ PagingTypeOK
    /\ \E k \in Nat : offset = k * UsedLimit(askedLimit)

LEMMA Stamped ==
  ASSUME PagingTypeOK
  PROVE  /\ stamps \in Seq(1..MaxItems) /\ stamps \in Seq(Nat) /\ Len(stamps) \in 0..MaxItems
         /\ ItemsThere = 1..Len(stamps) /\ Cardinality(ItemsThere) = Len(stamps)
  <1>1. PICK n \in 0..MaxItems : stamps \in [1..n -> 1..MaxItems]
    BY DEF PagingTypeOK
  <1>2. stamps \in Seq(1..MaxItems) /\ Len(stamps) = n /\ stamps \in Seq(Nat)
    BY <1>1, PagingAssumption
  <1> QED
    BY <1>1, <1>2, NewerFinite DEF ItemsThere

LEMMA GrowthTyped ==
  ASSUME PagingTypeOK, NEW time \in 1..MaxItems, Len(stamps) < MaxItems,
         stamps' = Append(stamps, time)
  PROVE  /\ stamps' \in UNION {[1 .. n -> 1 .. MaxItems] : n \in 0 .. MaxItems}
         /\ ItemsThere \subseteq ItemsThere'
  <1>1. PICK n \in Nat : n = Len(stamps) /\ n + 1 \in 0..MaxItems
    BY Stamped, PagingAssumption
  <1>2. stamps' \in [1 .. n + 1 -> 1..MaxItems]
    <2>1. stamps \in Seq(1..MaxItems)
      BY Stamped
    <2>2. stamps' \in Seq(1..MaxItems) /\ Len(stamps') = n + 1
      BY <1>1, <2>1
    <2> QED
      BY <2>2, LenProperties
  <1>3. ItemsThere \subseteq ItemsThere'
    BY <1>1, <1>2, Stamped DEF ItemsThere
  <1> QED
    BY <1>1, <1>2, <1>3

LEMMA PageTyped ==
  ASSUME PagingTyped, ReadPage
  PROVE  PagingTyped'
  <1>1. PICK order \in NewestFirst :
            LET page == PageOf(order, UsedLimit(askedLimit)) IN
            /\ seen' = seen \cup page
            /\ walk' = IF page = {} THEN "over" ELSE "count"
            /\ offset' = IF page = {} THEN offset ELSE offset + ReportedLimit(askedLimit)
    BY DEF ReadPage
  <1>2. UNCHANGED <<feed, stamps, askedLimit, total, atStart>>
    BY DEF ReadPage
  <1>3. PICK limit \in Nat \ {0} : limit = UsedLimit(askedLimit) /\ limit = ReportedLimit(askedLimit)
    BY PagingAssumption DEF PagingTyped, PagingTypeOK, UsedLimit, ReportedLimit
  <1>4. PICK k \in Nat : offset = k * limit
    BY <1>3 DEF PagingTyped
  <1>5. offset' = k * limit \/ offset' = (k + 1) * limit
    BY <1>1, <1>3, <1>4
  <1>6. \A j \in Nat : j * limit \in Nat /\ (j * limit) % limit = 0
    OBVIOUS
  <1>7. PageOf(order, UsedLimit(askedLimit)) \subseteq ItemsThere
    <2>1. stamps \in Seq(Nat)
      BY Stamped DEF PagingTyped
    <2> QED
      BY <2>1, OrderFacts DEF PageOf
  <1>8. seen' \subseteq ItemsThere /\ walk' \in {"over", "count"}
    BY <1>1, <1>7 DEF PagingTyped, PagingTypeOK
  <1>9. UsedLimit(askedLimit)' = limit
    BY <1>2, <1>3 DEF UsedLimit
  <1>10. offset' \in Nat /\ offset' % limit = 0 /\ \E j \in Nat : offset' = j * limit
    <2>1. k + 1 \in Nat
      OBVIOUS
    <2> QED
      BY <1>5, <1>6, <2>1
  <1>11. PagingTypeOK'
    BY <1>2, <1>8, <1>9, <1>10 DEF PagingTyped, PagingTypeOK, ItemsThere
  <1> QED
    BY <1>9, <1>10, <1>11 DEF PagingTyped

LEMMA PagingStepTyped == PagingTyped /\ [PagingNext]_pagingVars => PagingTyped'
  <1> SUFFICES ASSUME PagingTyped, [PagingNext]_pagingVars PROVE PagingTyped'
    OBVIOUS
  <1> USE DEF UsedLimit
  <1>1. CASE UNCHANGED pagingVars
    BY <1>1 DEF PagingTyped, PagingTypeOK, pagingVars, ItemsThere
  <1>2. CASE AddCase
    <2>1. Len(stamps) + 1 \in 1..MaxItems
      BY <1>2, Stamped, PagingAssumption DEF PagingTyped, AddCase
    <2> QED
      BY <1>2, <2>1, GrowthTyped DEF PagingTyped, PagingTypeOK, AddCase
  <1>3. CASE AddEntry
    BY <1>3, GrowthTyped DEF PagingTyped, PagingTypeOK, AddEntry
  <1>4. CASE BeginWalk
    BY <1>4 DEF PagingTyped, PagingTypeOK, BeginWalk, ItemsThere
  <1>5. CASE CountItems
    <2>1. Cardinality(ItemsThere) \in 0..MaxItems
      BY Stamped DEF PagingTyped
    <2> QED
      BY <1>5, <2>1 DEF PagingTyped, PagingTypeOK, CountItems, ItemsThere
  <1> QED
    BY <1>1, <1>2, <1>3, <1>4, <1>5, PageTyped DEF PagingNext

LEMMA PagingTypeCorrect == PagingSpec => []PagingTypeOK
  <1>1. ASSUME PagingInit PROVE PagingTyped
    <2>1. askedLimit \in Limits /\ UsedLimit(askedLimit) \in Nat \ {0}
      BY <1>1, PagingAssumption DEF PagingInit, UsedLimit
    <2>2. 0 = 0 * UsedLimit(askedLimit) /\ 0 % UsedLimit(askedLimit) = 0
      BY <2>1
    <2>3. stamps \in [1..0 -> 1..MaxItems] /\ 0 \in 0..MaxItems
      BY <1>1, PagingAssumption DEF PagingInit
    <2>4. stamps \in UNION {[1 .. n -> 1 .. MaxItems] : n \in 0 .. MaxItems}
      BY <2>3
    <2> QED
      BY <1>1, <2>1, <2>2, <2>3, <2>4 DEF PagingInit, PagingTyped, PagingTypeOK
  <1>2. PagingTyped => PagingTypeOK
    BY DEF PagingTyped
  <1> QED
    BY <1>1, <1>2, PagingStepTyped, PTL DEF PagingSpec

\* What is kept in Redis has a time that was in front of the clock.
AuthBounds ==
    /\ now \in 1..MaxTime /\ outages \in 0..MaxOutages
    /\ \A l \in Logins : heldUntil[l] <= now + StateTTL
    /\ \A s \in Callbacks : /\ session[s].until <= now + SessionTTL
                            /\ session[s].expires <= session[s].until
                            /\ lastUse[s] <= now
    /\ \A r \in Carriers : carrier[r].copy <= now + SessionTTL /\ carrier[r].taken <= now

\* A session that is saved with an expiry taken by now.
LEMMA SavedBounds ==
  ASSUME SessionShapes, AuthBounds, NEW s \in Callbacks, NEW t \in Nat, t <= now,
         now' = now,
         session' = [session EXCEPT ![s] = Saved(t)] \/ session' = [session EXCEPT ![s] = Gone]
            \/ session' = session
  PROVE  \A c \in Callbacks : session'[c].until <= now + SessionTTL
                              /\ session'[c].expires <= session'[c].until
  BY AuthAssumption DEF SessionShapes, SessionType, AuthBounds, Saved, Gone

LEMMA AuthStepBounds == SessionInv /\ AuthBounds /\ [AuthNext]_authVars => AuthBounds'
  <1> SUFFICES ASSUME SessionInv, AuthBounds, [AuthNext]_authVars PROVE AuthBounds'
    OBVIOUS
  <1>1. SessionShapes /\ UsedAfterwards
    BY DEF SessionInv
  <1>2. CASE UNCHANGED authVars
    BY <1>2 DEF authVars, AuthBounds
  <1>3. CASE Tick
    BY <1>1, <1>3, AuthAssumption DEF Tick, AuthBounds, SessionShapes, SessionType, CarrierType
  <1>4. ASSUME NEW l \in Logins, DiscordLogin(l) PROVE AuthBounds'
    BY <1>1, <1>4, AuthAssumption DEF DiscordLogin, AuthBounds, SessionShapes
  <1>5. ASSUME NEW c \in Callbacks, Exchange(c) PROVE AuthBounds'
    BY <1>5 DEF Exchange, AuthBounds
  <1>6. ASSUME NEW c \in Callbacks, SaveNewSession(c) PROVE AuthBounds'
    <2>1. \A s \in Callbacks : session'[s].until <= now + SessionTTL /\ session'[s].expires <= session'[s].until
      BY <1>1, <1>6, SavedBounds DEF SaveNewSession, Writes, SessionShapes
    <2>2. \A s \in Callbacks : lastUse'[s] <= now
      BY <1>1, <1>6 DEF SaveNewSession, Writes, AuthBounds, SessionShapes
    <2>3. outages' \in 0..MaxOutages
      BY <1>6, AuthAssumption DEF SaveNewSession, Writes, CallFails, AuthBounds
    <2> QED
      BY <1>6, <2>1, <2>2, <2>3 DEF SaveNewSession, AuthBounds
  <1>7. ASSUME NEW c \in Callbacks, NEW l \in Logins, ConsumeOAuthState(c, l) PROVE AuthBounds'
    <2>1. outages' \in 0..MaxOutages
      BY <1>7, AuthAssumption DEF ConsumeOAuthState, CallFails, AuthBounds
    <2>2. \A m \in Logins : heldUntil'[m] <= now + StateTTL
      BY <1>1, <1>7, AuthAssumption DEF ConsumeOAuthState, ReadAndDelete, AuthBounds, SessionShapes
    <2> QED
      BY <1>7, <2>1, <2>2 DEF ConsumeOAuthState, AuthBounds
  <1>8. ASSUME NEW r \in Carriers, NEW s \in Callbacks, NEW kind \in {"api", "ops", "logout"},
               GetSession(r, s, kind)
        PROVE  AuthBounds'
    <2>1. session[s].expires <= now + SessionTTL /\ 0 <= now
      BY <1>1, AuthAssumption DEF AuthBounds, SessionShapes, SessionType
    <2>2. \A q \in Carriers : carrier'[q].copy <= now + SessionTTL /\ carrier'[q].taken <= now
      BY <1>1, <1>8, <2>1 DEF GetSession, AuthBounds, SessionShapes, CarrierType
    <2> QED
      BY <1>8, <2>2 DEF GetSession, Untouched, AuthBounds
  <1>9. ASSUME NEW r \in Carriers, CheckExpiry(r) PROVE AuthBounds'
    <2>1. \A q \in Carriers : /\ carrier'[q].copy = carrier[q].copy
                              /\ carrier'[q].taken = carrier[q].taken \/ carrier'[q].taken = now
      BY <1>1, <1>9 DEF CheckExpiry, SessionShapes, CarrierType
    <2>2. now \in Nat
      BY <1>1 DEF SessionShapes
    <2>3. \A q \in Carriers : carrier'[q].copy <= now + SessionTTL /\ carrier'[q].taken <= now
      BY <2>1, <2>2 DEF AuthBounds
    <2> QED
      BY <1>9, <2>3 DEF CheckExpiry, Untouched, AuthBounds
  <1>10. ASSUME NEW r \in Carriers, DropExpired(r) \/ SaveSession(r) \/ AuthLogout(r) PROVE AuthBounds'
    <2>1. PICK s \in Callbacks, t \in Nat : s = carrier[r].of /\ t = carrier[r].taken /\ t <= now
      BY <1>1, <1>10
         DEF DropExpired, SaveSession, AuthLogout, UsedAfterwards, SessionShapes, CarrierType, AuthBounds
    <2>2. /\ now' = now /\ heldUntil' = heldUntil
          /\ \/ session' = [session EXCEPT ![s] = Saved(t)] \/ session' = [session EXCEPT ![s] = Gone]
             \/ session' = session
      BY <1>10, <2>1 DEF DropExpired, SaveSession, AuthLogout, Writes, DeleteSession, Untouched
    <2>3. \A c \in Callbacks : session'[c].until <= now + SessionTTL /\ session'[c].expires <= session'[c].until
      BY <1>1, <2>1, <2>2, SavedBounds
    <2>4. \A c \in Callbacks : lastUse'[c] <= now
      BY <1>1, <1>10, <2>1 DEF DropExpired, SaveSession, AuthLogout, Untouched, SessionShapes, AuthBounds
    <2>5. outages' \in 0..MaxOutages
      BY <1>10, AuthAssumption DEF DropExpired, SaveSession, AuthLogout, Writes, CallFails, AuthBounds
    <2>6. \E a \in {"delete", "served", "refused"} : carrier' = [carrier EXCEPT ![r].at = a]
      BY <1>10 DEF DropExpired, SaveSession, AuthLogout, Writes, Goes
    <2>7. \A q \in Carriers : carrier'[q].copy = carrier[q].copy /\ carrier'[q].taken = carrier[q].taken
      BY <1>1, <2>6 DEF SessionShapes, CarrierType
    <2> QED
      BY <2>2, <2>3, <2>4, <2>5, <2>7 DEF AuthBounds
  <1> QED
    BY <1>2, <1>3, <1>4, <1>5, <1>6, <1>7, <1>8, <1>9, <1>10 DEF AuthNext

LEMMA AuthTypeCorrect == AuthSpec => []AuthTypeOK
  <1>1. ASSUME AuthInit PROVE AuthBounds
    BY <1>1, AuthAssumption DEF AuthInit, AuthBounds, Gone, Idle
  <1>2. ASSUME SessionInv, AuthBounds PROVE AuthTypeOK
    <2>1. SessionShapes /\ now \in 1..MaxTime /\ MaxTime \in Nat /\ StateTTL \in Nat /\ SessionTTL \in Nat
      BY <1>2, AuthAssumption DEF SessionInv, AuthBounds
    <2>2. heldUntil \in [Logins -> 0 .. (MaxTime + StateTTL)] /\ lastUse \in [Callbacks -> 0..MaxTime]
      <3>1. \A l \in Logins : heldUntil[l] \in 0 .. (MaxTime + StateTTL)
        BY <1>2, <2>1 DEF SessionShapes, AuthBounds
      <3>2. \A s \in Callbacks : lastUse[s] \in 0..MaxTime
        BY <1>2, <2>1 DEF SessionShapes, AuthBounds
      <3> QED
        BY <2>1, <3>1, <3>2 DEF SessionShapes
    <2>3. session \in [Callbacks -> [until : Expiries, expires : Expiries]]
      <3>1. ASSUME NEW s \in Callbacks PROVE session[s] \in [until : Expiries, expires : Expiries]
        <4>1. session[s] \in SessionType /\ session[s].until <= now + SessionTTL /\ session[s].expires <= session[s].until
          BY <1>2, <2>1 DEF SessionShapes, AuthBounds
        <4>2. session[s].until \in Expiries /\ session[s].expires \in Expiries
          BY <2>1, <4>1 DEF SessionType, Expiries
        <4> QED
          BY <4>1, <4>2 DEF SessionType
      <3> QED
        BY <2>1, <3>1 DEF SessionShapes
    <2>4. carrier \in [Carriers -> [at : {"idle", "read", "expired", "save", "delete", "served", "refused"},
                                    of : Callbacks \cup {Unused}, kind : {"api", "ops", "logout"},
                                    copy : Expiries, taken : 0 .. MaxTime]]
      <3>1. ASSUME NEW r \in Carriers
            PROVE  carrier[r] \in [at : {"idle", "read", "expired", "save", "delete", "served", "refused"},
                                   of : Callbacks \cup {Unused}, kind : {"api", "ops", "logout"},
                                   copy : Expiries, taken : 0 .. MaxTime]
        <4>1. carrier[r] \in CarrierType /\ carrier[r].copy <= now + SessionTTL /\ carrier[r].taken <= now
          BY <1>2, <2>1 DEF SessionShapes, AuthBounds
        <4>2. carrier[r].copy \in Expiries /\ carrier[r].taken \in 0..MaxTime
          BY <2>1, <4>1 DEF CarrierType, Expiries
        <4> QED
          BY <4>1, <4>2 DEF CarrierType
      <3> QED
        BY <2>1, <3>1 DEF SessionShapes
    <2>5. callback \in [Callbacks -> CallbackType] /\ logouts \in [Callbacks -> LogoutType]
      BY <2>1 DEF SessionShapes
    <2> QED
      BY <1>2, <2>2, <2>3, <2>4, <2>5 DEF AuthTypeOK, AuthBounds, CallbackType, LogoutType
  <1> QED
    BY <1>1, <1>2, AuthStepBounds, SessionsInvariance, PTL DEF AuthSpec

LEMMA TemplatesTypeCorrect == TemplatesSpec => []TemplatesTypeOK
  <1>1. ASSUME TemplateInv PROVE TemplatesTypeOK
    <2>1. TemplateShapes /\ commits \in Nat
      BY <1>1 DEF TemplateInv, TemplateShapes
    <2>2. \A t \in TemplateIds : tmpl[t] \in RowType /\ tmpl[t].by \in 0..commits /\ levelsOf[t] \in 0..commits
      BY <1>1, <2>1 DEF TemplateInv, TemplateShapes, RowType, Ordered
    <2>3. \A t \in TemplateIds :
             tmpl[t] \in [slug : Slugs \cup {NoSlug}, version : Nat, archived : BOOLEAN, by : 0 .. commits]
      BY <2>2 DEF RowType
    <2>4. \A e \in Editors : editor[e].at \in Steps /\ editor[e].op \in {"create", "update", "archive"}
      BY <2>1 DEF TemplateShapes, EditType
    <2>5. \A o \in Observers : observer[o].of \in TemplateIds /\ Len(observer[o].found) <= 3
      BY <2>1 DEF TemplateShapes
    <2> QED
      BY <2>1, <2>2, <2>3, <2>4, <2>5 DEF TemplatesTypeOK, TemplateShapes, Steps
  <1> QED
    BY <1>1, TemplatesInvariance, PTL

\* The variables of the dashboard's components keep their types: times and
\* counters stay in their bounds, an offset is a multiple of the limit in use, a
\* session expires before its key, a row is no newer than the last commit.
THEOREM DashboardTypeCorrect == FrontendsSpec => []DashboardTypeOK
  <1>1. PagingTypeOK /\ AuthTypeOK /\ StaffTypeOK /\ TemplatesTypeOK => DashboardTypeOK
    BY DEF DashboardTypeOK
  <1> QED
    BY <1>1, ComponentsRun, PagingTypeCorrect, AuthTypeCorrect, StaffTypeCorrect,
       TemplatesTypeCorrect, PTL
=============================================================================
