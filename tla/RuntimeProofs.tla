---------------------------- MODULE RuntimeProofs ----------------------------
(***************************************************************************)
(* Proofs about WorkQueue and Runtime, for any number of requests, workers *)
(* and passes and any channel size.                                        *)
(*                                                                         *)
(* A closed channel has no sender because Stop clears the flag while       *)
(* nobody reads it, and nobody gets past it afterwards; what the poller    *)
(* submits is typed because it is in Submit only while its batch lasts.    *)
(* The queue inside the process is a WorkQueue, so what is shown of that   *)
(* holds in it. Run's deferred closes are a prefix of the resources in the *)
(* order they were opened; the queue, which was opened last, is closed     *)
(* first, and while it works everything is open.                           *)
(***************************************************************************)
EXTENDS Runtime, FiniteSetTheorems, SequenceTheorems, TLAPS

(* WorkQueue. *)
\* Before Start there is no poller.
NoPollerYet == life = "new" => poll = "off"

\* The poller is in Submit only with a case of its batch in hand.
PollerHasCase == pc[Poller] # "ready" => poll = "submit" /\ batch > 0

\* Before Start, and once the flag is cleared, no submitter is past its check.
NoReaders ==
    life \in {"new", "flagged", "draining", "stopped"} =>
        \A p \in Producers : pc[p] \notin {"offer", "sent"}

IInv == TypeOK /\ NoPollerYet /\ PollerHasCase /\ NoReaders
-----------------------------------------------------------------------------
LEMMA InitInv == Init => IInv
  <1> USE QueueAssumption
  <1> SUFFICES ASSUME Init PROVE IInv
    OBVIOUS
  <1>1. TypeOK
    <2>1. jobs \in Seq(Hints) /\ Len(jobs) <= Size
      BY DEF Init
    <2>2. /\ pc \in [Producers -> {"ready", "offer", "sent", "done"}]
          /\ holds \in [Workers -> SUBSET Hints]
          /\ stats \in [Counters -> Nat]
      BY DEF Init
    <2>3. batch \in 0 .. BatchSize /\ passes \in 1 .. MaxPasses
      BY DEF Init
    <2> QED
      BY <2>1, <2>2, <2>3 DEF Init, TypeOK
  <1>2. NoPollerYet /\ PollerHasCase /\ NoReaders
    BY DEF Init, NoPollerYet, PollerHasCase, NoReaders, Producers
  <1> QED
    BY <1>1, <1>2 DEF IInv

\* A counter that goes up stays a counter.
LEMMA CountTyped ==
  ASSUME TypeOK, NEW k \in Counters, Count(k)
  PROVE  stats' \in [Counters -> Nat]
  BY DEF TypeOK, Count

\* The hint of a producer that is in Submit, and what its return leaves.
LEMMA HintTyped ==
  ASSUME TypeOK, NEW p \in Producers, p = Poller => batch > 0
  PROVE  HintOf(p) \in Hints
  <1>1. CASE p = Poller
    <2>1. batch \in 1 .. BatchSize
      BY <1>1, QueueAssumption DEF TypeOK
    <2> QED
      BY <1>1, <2>1 DEF HintOf, Hints, TypeOK
  <1>2. CASE p # Poller
    BY <1>2 DEF HintOf, Hints, Producers
  <1> QED
    BY <1>1, <1>2

LEMMA ReturnTyped ==
  ASSUME TypeOK, NEW p \in Producers, p = Poller => batch > 0, Return(p)
  PROVE  /\ pc' \in [Producers -> {"ready", "offer", "sent", "done"}]
         /\ batch' \in 0 .. BatchSize
  <1>1. pc' \in [Producers -> {"ready", "offer", "sent", "done"}]
    BY DEF TypeOK, Return
  <1>2. batch' \in 0 .. BatchSize
    BY QueueAssumption DEF TypeOK, Return
  <1> QED
    BY <1>1, <1>2

LEMMA RefuseTyped ==
  ASSUME TypeOK, NEW p \in Producers, p = Poller => batch > 0, Refuse(p)
  PROVE  /\ stats' \in [Counters -> Nat]
         /\ over' \subseteq Hints
         /\ pc' \in [Producers -> {"ready", "offer", "sent", "done"}]
         /\ batch' \in 0 .. BatchSize
  <1>1. stats' \in [Counters -> Nat]
    BY CountTyped DEF Refuse, Counters
  <1>2. over' \subseteq Hints
    BY HintTyped DEF Refuse, TypeOK
  <1>3. /\ pc' \in [Producers -> {"ready", "offer", "sent", "done"}]
        /\ batch' \in 0 .. BatchSize
    BY ReturnTyped DEF Refuse
  <1> QED
    BY <1>1, <1>2, <1>3
-----------------------------------------------------------------------------
\* Every step keeps the state well typed.
LEMMA NextTyped == IInv /\ [Next]_vars => TypeOK'
  <1> USE QueueAssumption
  <1> SUFFICES ASSUME IInv, [Next]_vars PROVE TypeOK'
    OBVIOUS
  <1> TypeOK /\ PollerHasCase
    BY DEF IInv
  <1>1. ASSUME NEW p \in Producers, Submit(p) PROVE TypeOK'
    <2>1. p = Poller => batch > 0
      BY <1>1 DEF Submit, HasWork
    <2>2. CASE Active
      BY <1>1, <2>2 DEF Submit, TypeOK, workVars
    <2>3. CASE ~Active
      <3>1. Refuse(p)
        BY <1>1, <2>3 DEF Submit
      <3> QED
        BY <1>1, <2>1, <3>1, RefuseTyped DEF Submit, TypeOK, workVars
    <2> QED
      BY <2>2, <2>3
  <1>2. ASSUME NEW p \in Producers, Offer(p) PROVE TypeOK'
    <2>1. p = Poller => batch > 0
      BY <1>2 DEF Offer, PollerHasCase
    <2>2. CASE Room
      <3>1. jobs' = Append(jobs, HintOf(p)) /\ HintOf(p) \in Hints
        BY <1>2, <2>1, <2>2, HintTyped DEF Offer
      <3>2. jobs' \in Seq(Hints) /\ Len(jobs') <= Size
        BY <2>2, <3>1 DEF TypeOK, Room
      <3> QED
        BY <1>2, <2>2, <3>2 DEF Offer, TypeOK, workVars
    <2>3. CASE ~Room
      <3>1. Refuse(p) /\ UNCHANGED jobs
        BY <1>2, <2>3 DEF Offer
      <3> QED
        BY <1>2, <2>1, <3>1, RefuseTyped DEF Offer, TypeOK, workVars
    <2> QED
      BY <2>2, <2>3
  <1>3. ASSUME NEW p \in Producers, Sent(p) PROVE TypeOK'
    <2>1. p = Poller => batch > 0
      BY <1>3 DEF Sent, PollerHasCase
    <2>2. stats' \in [Counters -> Nat]
      BY <1>3, CountTyped DEF Sent, Counters
    <2> QED
      BY <1>3, <2>1, <2>2, ReturnTyped DEF Sent, TypeOK, workVars
  <1>4. ASSUME Start \/ Polling \/ ContextEnds \/ CallStop \/ Stopping PROVE TypeOK'
    <2>1. CASE Start
      BY <2>1 DEF Start, TypeOK
    <2>2. CASE Polling
      BY <2>2 DEF Polling, List, Tick, PollerExits, InSelect, TypeOK, workVars
    <2>3. CASE ContextEnds \/ CallStop \/ Stopping
      BY <2>3 DEF ContextEnds, CallStop, Stopping, ClearFlag, CancelAndClose, StopReturns,
                  TypeOK, pollVars, workVars
    <2> QED
      BY <1>4, <2>1, <2>2, <2>3
  <1>5. ASSUME NEW w \in Workers, Working(w) PROVE TypeOK'
    <2>1. CASE Receive(w)
      <3>1. jobs # <<>> /\ jobs' = Tail(jobs)
        BY <2>1 DEF Receive
      <3>2. Head(jobs) \in Hints /\ jobs' \in Seq(Hints) /\ Len(jobs') <= Size
        BY <3>1 DEF TypeOK
      <3> QED
        BY <2>1, <3>2 DEF Receive, TypeOK, pollVars
    <2>2. ASSUME NEW k \in {"processed", "failed"}, HandlerReturns(w, k) PROVE TypeOK'
      <3>1. stats' \in [Counters -> Nat]
        BY <2>2, CountTyped DEF HandlerReturns, Counters
      <3>2. over' \subseteq Hints
        BY <2>2 DEF HandlerReturns, TypeOK
      <3> QED
        BY <2>2, <3>1, <3>2 DEF HandlerReturns, TypeOK, pollVars
    <2>3. CASE Note(w) \/ WorkerExits(w)
      BY <2>3 DEF Note, WorkerExits, TypeOK, pollVars
    <2> QED
      BY <1>5, <2>1, <2>2, <2>3 DEF Working
  <1>6. CASE UNCHANGED vars
    BY <1>6 DEF vars, pollVars, workVars, TypeOK
  <1> QED
    BY <1>1, <1>2, <1>3, <1>4, <1>5, <1>6 DEF Next, Producing

\* Every step keeps the poller's hand and the readers where the lock has them.
LEMMA NextLocked ==
  IInv /\ [Next]_vars => NoPollerYet' /\ PollerHasCase' /\ NoReaders'
  <1> USE QueueAssumption
  <1> SUFFICES ASSUME IInv, [Next]_vars PROVE NoPollerYet' /\ PollerHasCase' /\ NoReaders'
    OBVIOUS
  <1> TypeOK /\ NoPollerYet /\ PollerHasCase /\ NoReaders
    BY DEF IInv
  <1> USE DEF NoPollerYet, PollerHasCase, NoReaders
  <1> Poller \in Producers
    BY DEF Producers
  <1>1. ASSUME NEW p \in Producers, Producing(p)
        PROVE  NoPollerYet' /\ PollerHasCase' /\ NoReaders'
    <2>1. life' = life /\ poll' = poll
      BY <1>1 DEF Producing, Submit, Offer, Sent, pollVars
    <2>2. CASE Submit(p)
      BY <2>1, <2>2 DEF Submit, HasWork, Active, Refuse, Return, TypeOK
    <2>3. CASE Offer(p)
      BY <2>1, <2>3 DEF Offer, Refuse, Return, TypeOK
    <2>4. CASE Sent(p)
      BY <2>1, <2>4 DEF Sent, Return, TypeOK
    <2> QED
      BY <1>1, <2>2, <2>3, <2>4 DEF Producing
  <1>2. CASE Start
    BY <1>2 DEF Start
  <1>3. CASE Polling
    BY <1>3 DEF Polling, List, Tick, PollerExits, InSelect, TypeOK
  <1>4. CASE ContextEnds \/ CallStop \/ Stopping
    BY <1>4 DEF ContextEnds, CallStop, Stopping, ClearFlag, CancelAndClose, StopReturns,
                pollVars, Readers
  <1>5. ASSUME NEW w \in Workers, Working(w)
        PROVE  NoPollerYet' /\ PollerHasCase' /\ NoReaders'
    BY <1>5 DEF Working, Receive, HandlerReturns, Note, WorkerExits, pollVars
  <1>6. CASE UNCHANGED vars
    BY <1>6 DEF vars, pollVars
  <1> QED
    BY <1>1, <1>2, <1>3, <1>4, <1>5, <1>6 DEF Next

LEMMA Invariance == Spec => []IInv
  <1>1. IInv /\ [Next]_vars => IInv'
    BY NextTyped, NextLocked DEF IInv
  <1> QED
    BY <1>1, InitInv, PTL DEF Spec
-----------------------------------------------------------------------------
\* The type invariant of the queue, for every value of the constants.
THEOREM TypeCorrect == Spec => []TypeOK
  <1>1. IInv => TypeOK
    BY DEF IInv
  <1> QED
    BY <1>1, Invariance, PTL

\* No submitter stands before its send when the channel is closed, whatever the
\* number of submitters: Submit cannot panic.
THEOREM NeverSendsOnClosed == Spec => []NoSendOnClosed
  <1>1. IInv => NoSendOnClosed
    BY DEF IInv, NoReaders, NoSendOnClosed, ChannelClosed
  <1> QED
    BY <1>1, Invariance, PTL
-----------------------------------------------------------------------------
(* Every hint is in one place                                              *)

Taken == Buffered \cup Handling \cup over

\* A request that still has its hint in hand has not used it, and the poller
\* counts its batch down: what lies behind it is used, what it holds is not.
Spent ==
    /\ \A r \in Requests : r \in Taken => pc[r] \in {"sent", "done"}
    /\ \A i \in 1 .. MaxPasses, j \in 1 .. BatchSize : <<i, j>> \in Taken =>
          \/ i < passes
          \/ /\ i = passes /\ poll \in {"submit", "done"}
             /\ j > batch \/ (j = batch /\ pc[Poller] = "sent")

\* The buffer, the workers' hands and what is over do not overlap.
Apart ==
    /\ \A i, k \in DOMAIN jobs : jobs[i] = jobs[k] => i = k
    /\ Buffered \cap over = {}
    /\ \A w \in Workers : holds[w] \cap (Buffered \cup over) = {}
    /\ \A v, w \in Workers : v # w => holds[v] \cap holds[w] = {}
    /\ \A w \in Workers : IF work[w] = "handle" THEN \E h \in Hints : holds[w] = {h}
                                                ELSE holds[w] = {}

\* Nobody works before Start; a worker is done when the closed channel is
\* empty, and it stays so.
Drained ==
    /\ life = "new" => \A w \in Workers : work[w] = "off"
    /\ \A w \in Workers : work[w] = "done" => ChannelClosed /\ jobs = <<>>

PlaceInv == IInv /\ Spent /\ Apart /\ Drained

\* What appending to the buffer and taking its head do to its hints.
LEMMA AppendHint ==
  ASSUME NEW s \in Seq(Hints), NEW h \in Hints
  PROVE  LET t == Append(s, h) IN
         /\ {t[i] : i \in DOMAIN t} = {s[i] : i \in DOMAIN s} \cup {h}
         /\ (\A i, k \in DOMAIN s : s[i] = s[k] => i = k) /\ h \notin {s[i] : i \in DOMAIN s}
               => \A i, k \in DOMAIN t : t[i] = t[k] => i = k
  <1> DEFINE t == Append(s, h)  n == Len(s)
  <1>1. /\ n \in Nat /\ DOMAIN s = 1 .. n /\ DOMAIN t = 1 .. (n + 1)
        /\ t[n + 1] = h /\ \A i \in 1 .. n : t[i] = s[i]
    OBVIOUS
  <1> HIDE DEF t, n
  <1>2. {t[i] : i \in DOMAIN t} = {s[i] : i \in DOMAIN s} \cup {h}
    <2>1. ASSUME NEW i \in DOMAIN t PROVE t[i] \in {s[k] : k \in DOMAIN s} \cup {h}
      <3>1. i = n + 1 \/ i \in 1 .. n
        BY <1>1, <2>1
      <3> QED
        BY <1>1, <3>1
    <2>2. ASSUME NEW i \in DOMAIN s PROVE s[i] \in {t[k] : k \in DOMAIN t}
      <3>1. i \in DOMAIN t /\ t[i] = s[i]
        BY <1>1, <2>2
      <3> QED
        BY <3>1
    <2>3. h \in {t[k] : k \in DOMAIN t}
      <3>1. n + 1 \in DOMAIN t
        BY <1>1
      <3> QED
        BY <1>1, <3>1
    <2> QED
      BY <2>1, <2>2, <2>3
  <1>3. ASSUME \A i, k \in DOMAIN s : s[i] = s[k] => i = k, h \notin {s[i] : i \in DOMAIN s},
               NEW i \in DOMAIN t, NEW k \in DOMAIN t, t[i] = t[k]
        PROVE  i = k
    BY <1>1, <1>3
  <1> QED
    BY <1>2, <1>3 DEF t

LEMMA TakeHead ==
  ASSUME NEW s \in Seq(Hints), s # <<>>, \A i, k \in DOMAIN s : s[i] = s[k] => i = k
  PROVE  LET t == Tail(s) IN
         /\ Head(s) \in Hints
         /\ {s[i] : i \in DOMAIN s} = {t[i] : i \in DOMAIN t} \cup {Head(s)}
         /\ Head(s) \notin {t[i] : i \in DOMAIN t}
         /\ \A i, k \in DOMAIN t : t[i] = t[k] => i = k
  <1> DEFINE t == Tail(s)  n == Len(s)
  <1>1. /\ n \in Nat \ {0} /\ DOMAIN s = 1 .. n /\ DOMAIN t = 1 .. (n - 1)
        /\ Head(s) = s[1] /\ s[1] \in Hints /\ \A i \in 1 .. (n - 1) : t[i] = s[i + 1]
    OBVIOUS
  <1> HIDE DEF t, n
  <1>2. ASSUME NEW i \in DOMAIN t PROVE t[i] \in {s[k] : k \in DOMAIN s} /\ t[i] # Head(s)
    <2>1. t[i] = s[i + 1] /\ i + 1 \in DOMAIN s /\ 1 \in DOMAIN s /\ i + 1 # 1
      BY <1>1, <1>2
    <2> QED
      BY <1>1, <2>1
  <1>3. ASSUME NEW i \in DOMAIN s PROVE s[i] \in {t[k] : k \in DOMAIN t} \cup {Head(s)}
    <2>1. CASE i = 1
      BY <1>1, <2>1
    <2>2. CASE i # 1
      <3>1. i - 1 \in DOMAIN t /\ t[i - 1] = s[i]
        BY <1>1, <1>3, <2>2
      <3> QED
        BY <3>1
    <2> QED
      BY <2>1, <2>2
  <1>4. ASSUME NEW i \in DOMAIN t, NEW k \in DOMAIN t, t[i] = t[k] PROVE i = k
    <2>1. s[i + 1] = s[k + 1] /\ i + 1 \in DOMAIN s /\ k + 1 \in DOMAIN s
      BY <1>1, <1>4
    <2>2. i + 1 = k + 1
      BY <2>1
    <2> QED
      BY <1>1, <2>2
  <1>5. Head(s) \in {s[k] : k \in DOMAIN s}
    BY <1>1
  <1> QED
    BY <1>1, <1>2, <1>3, <1>4, <1>5 DEF t

\* The hint that a producer has in hand is not taken.
LEMMA HandIsFresh ==
  ASSUME PlaceInv, NEW p \in Producers, pc[p] \in {"ready", "offer"},
         p = Poller => poll = "submit" /\ batch > 0
  PROVE  HintOf(p) \in Hints \ Taken
  <1>0. TypeOK /\ Spent
    BY DEF PlaceInv, IInv
  <1>1. HintOf(p) \in Hints
    BY <1>0, HintTyped
  <1>2. CASE p = Poller
    <2>1. passes \in 1 .. MaxPasses /\ batch \in 1 .. BatchSize
      BY <1>0, <1>2, QueueAssumption DEF TypeOK
    <2>2. ~(passes < passes) /\ ~(batch > batch)
      BY <2>1
    <2> QED
      BY <1>0, <1>1, <1>2, <2>1, <2>2 DEF HintOf, Spent
  <1>3. CASE p # Poller
    BY <1>0, <1>1, <1>3 DEF HintOf, Producers, Spent
  <1> QED
    BY <1>2, <1>3

\* A request's name is no pair.
LEMMA NamesDiffer ==
  ASSUME NEW r \in Requests, NEW i \in 1 .. MaxPasses, NEW j \in 1 .. BatchSize
  PROVE  r # <<i, j>>
  <1>1. <<i, j>> \in Nat \X Nat
    BY QueueAssumption
  <1> QED
    BY <1>1, QueueAssumption

LEMMA InitPlace == Init => PlaceInv
  <1> SUFFICES ASSUME Init PROVE PlaceInv
    OBVIOUS
  <1>1. IInv
    BY InitInv
  <1>2. Buffered = {} /\ Handling = {} /\ over = {}
    BY DEF Init, Buffered, Handling
  <1> QED
    BY <1>1, <1>2 DEF Init, PlaceInv, Spent, Apart, Drained, Taken

\* The hint of a producer is used up: it goes to the buffer or is over.
LEMMA SpendHint ==
  ASSUME PlaceInv, NEW p \in Producers, pc[p] \in {"ready", "offer"},
         p = Poller => poll = "submit" /\ batch > 0,
         Taken' = Taken \cup {HintOf(p)}, UNCHANGED <<poll, passes>>,
         \/ pc' = [pc EXCEPT ![p] = "sent"] /\ UNCHANGED batch
         \/ Return(p)
  PROVE  Spent'
  <1>0. TypeOK /\ Spent /\ Poller \notin Requests
    BY QueueAssumption DEF PlaceInv, IInv
  <1>1. ASSUME NEW r \in Requests, r \in Taken' PROVE pc'[r] \in {"sent", "done"}
    <2>1. CASE r = p
      BY <1>0, <2>1 DEF TypeOK, Return
    <2>2. CASE r # p
      <3>1. pc'[r] = pc[r]
        BY <1>0, <2>2 DEF TypeOK, Return, Producers
      <3>2. r # HintOf(p)
        <4>1. CASE p = Poller
          <5>1. passes \in 1 .. MaxPasses /\ batch \in 1 .. BatchSize
            BY <1>0, <4>1, QueueAssumption DEF TypeOK
          <5> QED
            BY <4>1, <5>1, NamesDiffer DEF HintOf
        <4>2. CASE p # Poller
          BY <2>2, <4>2 DEF HintOf
        <4> QED
          BY <4>1, <4>2
      <3> QED
        BY <1>0, <1>1, <3>1, <3>2 DEF Spent
    <2> QED
      BY <2>1, <2>2
  <1>2. ASSUME NEW i \in 1 .. MaxPasses, NEW j \in 1 .. BatchSize, <<i, j>> \in Taken'
        PROVE  \/ i < passes'
               \/ /\ i = passes' /\ poll' \in {"submit", "done"}
                  /\ j > batch' \/ (j = batch' /\ pc'[Poller] = "sent")
    <2>0. batch \in Nat /\ j \in Nat
      BY <1>0, QueueAssumption DEF TypeOK
    <2>1. CASE p = Poller
      <3>1. \/ pc'[Poller] = "sent" /\ batch' = batch
            \/ batch' = batch - 1
        BY <1>0, <2>1 DEF TypeOK, Return, Producers
      <3>2. CASE <<i, j>> = HintOf(p)
        <4>1. i = passes /\ j = batch
          BY <2>1, <3>2 DEF HintOf
        <4> QED
          BY <2>0, <2>1, <3>1, <4>1
      <3>3. CASE <<i, j>> \in Taken
        <4>1. i < passes \/ (i = passes /\ poll \in {"submit", "done"} /\ j > batch)
          BY <1>0, <2>1, <3>3 DEF Spent
        <4> QED
          BY <2>0, <3>1, <4>1
      <3> QED
        BY <1>2, <3>2, <3>3
    <2>2. CASE p # Poller
      <3>1. pc'[Poller] = pc[Poller] /\ batch' = batch
        BY <1>0, <2>2 DEF TypeOK, Return, Producers
      <3>2. <<i, j>> # HintOf(p)
        BY <2>2, NamesDiffer DEF HintOf, Producers
      <3> QED
        BY <1>0, <1>2, <3>1, <3>2 DEF Spent
    <2> QED
      BY <2>1, <2>2
  <1> QED
    BY <1>1, <1>2 DEF Spent

\* A step that leaves every hint where it is.
LEMMA HintsStay ==
  ASSUME UNCHANGED <<jobs, holds, over>>
  PROVE  Buffered' = Buffered /\ Handling' = Handling /\ Taken' = Taken
  BY DEF Buffered, Handling, Taken

\* A refused hint.
LEMMA RefusePlace ==
  ASSUME PlaceInv, NEW p \in Producers, pc[p] \in {"ready", "offer"},
         p = Poller => poll = "submit" /\ batch > 0,
         Refuse(p), UNCHANGED <<life, jobs, poll, passes, work, holds>>
  PROVE  Spent' /\ Apart' /\ Drained'
  <1>0. TypeOK /\ Spent /\ Apart /\ Drained
    BY DEF PlaceInv, IInv
  <1>1. HintOf(p) \in Hints /\ HintOf(p) \notin Taken
    BY HandIsFresh
  <1>2. over' = over \cup {HintOf(p)} /\ Buffered' = Buffered /\ Handling' = Handling
    BY DEF Refuse, Buffered, Handling
  <1>3. Spent'
    <2>1. Taken' = Taken \cup {HintOf(p)}
      BY <1>2 DEF Taken
    <2> QED
      BY <2>1, SpendHint DEF Refuse
  <1>4. Apart'
    <2>1. \A w \in Workers : HintOf(p) \notin holds[w]
      BY <1>1 DEF Taken, Handling
    <2>2. HintOf(p) \notin Buffered
      BY <1>1 DEF Taken
    <2> QED
      BY <1>0, <1>2, <2>1, <2>2 DEF Apart
  <1> QED
    BY <1>0, <1>3, <1>4 DEF Drained, ChannelClosed

LEMMA ProducingPlace ==
  ASSUME PlaceInv, NEW p \in Producers, Producing(p)
  PROVE  Spent' /\ Apart' /\ Drained'
  <1>0. TypeOK /\ PollerHasCase /\ NoReaders /\ Spent /\ Apart /\ Drained
    BY DEF PlaceInv, IInv
  <1>1. CASE Submit(p)
    <2>1. p = Poller => poll = "submit" /\ batch > 0
      BY <1>1 DEF Submit, HasWork
    <2>2. CASE Active
      <3>1. /\ pc' = [pc EXCEPT ![p] = "offer"] /\ pc[p] = "ready"
            /\ UNCHANGED <<life, jobs, poll, batch, passes, work, holds, over>>
        BY <1>1, <2>2 DEF Submit, workVars
      <3>2. \A q \in Producers : pc[q] \in {"sent", "done"} => pc'[q] = pc[q]
        BY <1>0, <3>1 DEF TypeOK
      <3>3. Taken' = Taken /\ Buffered' = Buffered
        BY <3>1, HintsStay
      <3>4. Spent'
        BY <1>0, <3>1, <3>2, <3>3 DEF Spent, Producers
      <3> QED
        BY <1>0, <3>1, <3>3, <3>4 DEF Apart, Drained, ChannelClosed
    <2>3. CASE ~Active
      BY <1>1, <2>1, <2>3, RefusePlace DEF Submit, workVars
    <2> QED
      BY <2>2, <2>3
  <1>2. CASE Offer(p)
    <2>1. p = Poller => poll = "submit" /\ batch > 0
      BY <1>0, <1>2 DEF Offer, PollerHasCase
    <2>2. CASE Room
      <3>1. /\ pc' = [pc EXCEPT ![p] = "sent"] /\ pc[p] = "offer"
            /\ jobs' = Append(jobs, HintOf(p))
            /\ UNCHANGED <<life, poll, batch, passes, work, holds, over>>
        BY <1>2, <2>2 DEF Offer, workVars
      <3>2. HintOf(p) \in Hints /\ HintOf(p) \notin Taken
        BY <2>1, <3>1, HandIsFresh
      <3>3. /\ Buffered' = Buffered \cup {HintOf(p)}
            /\ \A i, k \in DOMAIN jobs' : jobs'[i] = jobs'[k] => i = k
        <4>1. jobs \in Seq(Hints) /\ HintOf(p) \notin Buffered
          BY <1>0, <3>2 DEF TypeOK, Taken
        <4> QED
          BY <1>0, <3>1, <3>2, <4>1, AppendHint DEF Apart, Buffered
      <3>4. Spent'
        <4>1. Taken' = Taken \cup {HintOf(p)}
          BY <3>1, <3>3 DEF Taken, Handling
        <4> QED
          BY <2>1, <3>1, <4>1, SpendHint
      <3>5. Apart'
        <4>1. HintOf(p) \notin over /\ \A w \in Workers : HintOf(p) \notin holds[w]
          BY <3>2 DEF Taken, Handling
        <4> QED
          BY <1>0, <3>1, <3>3, <4>1 DEF Apart
      <3>6. Drained'
        <4>1. ~ChannelClosed
          BY <1>0, <3>1 DEF NoReaders, ChannelClosed
        <4> QED
          BY <1>0, <3>1, <4>1 DEF Drained, ChannelClosed
      <3> QED
        BY <3>4, <3>5, <3>6
    <2>3. CASE ~Room
      BY <1>2, <2>1, <2>3, RefusePlace DEF Offer, workVars
    <2> QED
      BY <2>2, <2>3
  <1>3. CASE Sent(p)
    <2>1. /\ pc[p] = "sent" /\ Return(p)
          /\ UNCHANGED <<life, jobs, poll, passes, work, holds, over>>
      BY <1>3 DEF Sent, workVars
    <2>2. Taken' = Taken /\ Buffered' = Buffered
      BY <2>1, HintsStay
    <2>3. Spent'
      <3>0. Poller \notin Requests
        BY QueueAssumption
      <3>1. CASE p = Poller
        <4>1. /\ batch' = batch - 1 /\ batch \in Nat
              /\ \A r \in Requests : pc'[r] = pc[r]
          BY <1>0, <2>1, <3>0, <3>1, QueueAssumption DEF Return, TypeOK, Producers
        <4>2. ASSUME NEW i \in 1 .. MaxPasses, NEW j \in 1 .. BatchSize, <<i, j>> \in Taken'
              PROVE  i < passes' \/ (i = passes' /\ poll' \in {"submit", "done"} /\ j > batch')
          <5>1. \/ i < passes
                \/ i = passes /\ poll \in {"submit", "done"} /\ (j > batch \/ j = batch)
            BY <1>0, <2>2, <4>2 DEF Spent
          <5>2. j \in Nat
            OBVIOUS
          <5> QED
            BY <2>1, <4>1, <5>1, <5>2
        <4> QED
          BY <1>0, <2>2, <4>1, <4>2 DEF Spent
      <3>2. CASE p # Poller
        <4>1. /\ batch' = batch /\ pc'[Poller] = pc[Poller]
              /\ \A r \in Requests : pc'[r] = pc[r] \/ pc'[r] = "done"
          BY <1>0, <2>1, <3>0, <3>2 DEF Return, TypeOK, Producers
        <4> QED
          BY <1>0, <2>1, <2>2, <4>1 DEF Spent
      <3> QED
        BY <3>1, <3>2
    <2> QED
      BY <1>0, <2>1, <2>2, <2>3 DEF Apart, Drained, ChannelClosed
  <1> QED
    BY <1>1, <1>2, <1>3 DEF Producing

LEMMA WorkingPlace ==
  ASSUME PlaceInv, NEW w \in Workers, Working(w)
  PROVE  Spent' /\ Apart' /\ Drained'
  <1>0. TypeOK /\ Spent /\ Apart /\ Drained
    BY DEF PlaceInv, IInv
  <1>1. CASE Receive(w)
    <2> DEFINE h == Head(jobs)
    <2>1. /\ work[w] = "receive" /\ jobs # <<>>
          /\ work' = [work EXCEPT ![w] = "handle"] /\ holds' = [holds EXCEPT ![w] = {h}]
          /\ jobs' = Tail(jobs)
          /\ UNCHANGED <<life, pc, poll, batch, passes, over>>
      BY <1>1 DEF Receive, pollVars
    <2>2. /\ h \in Hints /\ Buffered = Buffered' \cup {h} /\ h \notin Buffered'
          /\ \A i, k \in DOMAIN jobs' : jobs'[i] = jobs'[k] => i = k
      <3>1. jobs \in Seq(Hints)
        BY <1>0 DEF TypeOK
      <3>2. \A i, k \in DOMAIN jobs : jobs[i] = jobs[k] => i = k
        BY <1>0 DEF Apart
      <3>3. jobs # <<>> /\ jobs' = Tail(jobs)
        BY <2>1
      <3>4. LET t == Tail(jobs) IN
            /\ Head(jobs) \in Hints
            /\ {jobs[i] : i \in DOMAIN jobs} = {t[i] : i \in DOMAIN t} \cup {Head(jobs)}
            /\ Head(jobs) \notin {t[i] : i \in DOMAIN t}
            /\ \A i, k \in DOMAIN t : t[i] = t[k] => i = k
        BY <3>1, <3>2, <3>3, TakeHead
      <3> QED
        BY <3>3, <3>4, Zenon DEF Buffered
    <2> HIDE DEF h
    <2>3. holds[w] = {} /\ \A v \in Workers : holds'[v] = IF v = w THEN {h} ELSE holds[v]
      BY <1>0, <2>1 DEF Apart, TypeOK
    <2>4. Handling' = Handling \cup {h}
      BY <2>3 DEF Handling
    <2>5. Spent'
      <3>1. Taken' = Taken
        BY <2>1, <2>2, <2>4 DEF Taken
      <3> QED
        BY <1>0, <2>1, <3>1 DEF Spent
    <2>6. Apart'
      <3>1. h \notin over /\ \A v \in Workers : h \notin holds[v]
        BY <1>0, <2>2 DEF Apart
      <3>2. \A v \in Workers : work'[v] = IF v = w THEN "handle" ELSE work[v]
        BY <1>0, <2>1 DEF TypeOK
      <3> QED
        BY <1>0, <2>1, <2>2, <2>3, <3>1, <3>2 DEF Apart
    <2>7. Drained'
      <3>1. \A v \in Workers : work'[v] = IF v = w THEN "handle" ELSE work[v]
        BY <1>0, <2>1 DEF TypeOK
      <3> QED
        BY <1>0, <2>1, <3>1 DEF Drained, ChannelClosed
    <2> QED
      BY <2>5, <2>6, <2>7
  <1>2. ASSUME NEW outcome \in {"processed", "failed"}, HandlerReturns(w, outcome)
        PROVE  Spent' /\ Apart' /\ Drained'
    <2>1. /\ work[w] = "handle" /\ over' = over \cup holds[w]
          /\ holds' = [holds EXCEPT ![w] = {}]
          /\ \E s \in {"note", "receive"} : work' = [work EXCEPT ![w] = s]
          /\ UNCHANGED <<life, jobs, pc, poll, batch, passes>>
      BY <1>2 DEF HandlerReturns, pollVars
    <2>2. \A v \in Workers : /\ holds'[v] = IF v = w THEN {} ELSE holds[v]
                             /\ v # w => work'[v] = work[v]
      BY <1>0, <2>1 DEF TypeOK
    <2>3. work'[w] \in {"note", "receive"}
      BY <1>0, <2>1 DEF TypeOK
    <2>4. Handling = Handling' \cup holds[w] /\ Buffered' = Buffered
      BY <2>1, <2>2 DEF Handling, Buffered
    <2>5. Spent'
      <3>1. Taken' = Taken
        BY <2>1, <2>4 DEF Taken
      <3> QED
        BY <1>0, <2>1, <3>1 DEF Spent
    <2>6. Apart'
      BY <1>0, <2>1, <2>2, <2>3, <2>4 DEF Apart
    <2>7. Drained'
      BY <1>0, <2>1, <2>2, <2>3 DEF Drained, ChannelClosed
    <2> QED
      BY <2>5, <2>6, <2>7
  <1>3. CASE Note(w) \/ WorkerExits(w)
    <2>1. /\ UNCHANGED <<life, jobs, pc, poll, batch, passes, holds, over>>
          /\ work[w] \in {"note", "receive"}
          /\ \/ work' = [work EXCEPT ![w] = "receive"]
             \/ work' = [work EXCEPT ![w] = "done"] /\ ChannelClosed /\ jobs = <<>>
      BY <1>3 DEF Note, WorkerExits, RangeOver, pollVars
    <2>2. Taken' = Taken /\ Buffered' = Buffered
      BY <2>1, HintsStay
    <2>3. \A v \in Workers : \/ v # w /\ work'[v] = work[v]
                             \/ v = w /\ work'[v] = "receive"
                             \/ v = w /\ work'[v] = "done" /\ ChannelClosed /\ jobs = <<>>
      BY <1>0, <2>1 DEF TypeOK
    <2>4. Spent'
      BY <1>0, <2>1, <2>2 DEF Spent
    <2>5. Apart'
      BY <1>0, <2>1, <2>2, <2>3 DEF Apart
    <2>6. Drained'
      BY <1>0, <2>1, <2>3 DEF Drained, ChannelClosed
    <2> QED
      BY <2>4, <2>5, <2>6
  <1> QED
    BY <1>1, <1>2, <1>3 DEF Working

LEMMA NextPlace == PlaceInv /\ [Next]_vars => PlaceInv'
  <1> SUFFICES ASSUME PlaceInv, [Next]_vars PROVE Spent' /\ Apart' /\ Drained'
    BY NextTyped, NextLocked DEF PlaceInv, IInv
  <1>0. TypeOK /\ NoPollerYet /\ PollerHasCase /\ Spent /\ Apart /\ Drained
    BY DEF PlaceInv, IInv
  <1>1. ASSUME NEW p \in Producers, Producing(p) PROVE Spent' /\ Apart' /\ Drained'
    BY <1>1, ProducingPlace
  <1>2. ASSUME NEW w \in Workers, Working(w) PROVE Spent' /\ Apart' /\ Drained'
    BY <1>2, WorkingPlace
  <1>3. CASE Start
    <2>1. /\ life = "new" /\ life' = "serving" /\ poll = "off" /\ poll' = "list"
          /\ work' = [w \in Workers |-> "receive"]
          /\ UNCHANGED <<jobs, pc, batch, passes, holds, over>>
      BY <1>0, <1>3 DEF Start, NoPollerYet
    <2>2. Taken' = Taken /\ Buffered' = Buffered
      BY <2>1, HintsStay
    <2>3. Spent'
      BY <1>0, <2>1, <2>2 DEF Spent
    <2> QED
      BY <1>0, <2>1, <2>2, <2>3 DEF Apart, Drained
  <1>4. CASE Polling
    <2>1. /\ UNCHANGED <<life, jobs, pc, work, holds, over>>
          /\ \/ poll = "list" /\ poll' = "submit" /\ passes' = passes
             \/ poll = "submit" /\ poll' = "list" /\ passes' = passes + 1
             \/ poll = "submit" /\ poll' = "done" /\ passes' = passes /\ batch' = batch
      BY <1>4 DEF Polling, List, Tick, PollerExits, InSelect, workVars
    <2>2. Taken' = Taken /\ Buffered' = Buffered
      BY <2>1, HintsStay
    <2>3. passes \in Nat
      BY <1>0 DEF TypeOK
    <2>4. Spent'
      BY <1>0, <2>1, <2>2, <2>3 DEF Spent
    <2> QED
      BY <1>0, <2>1, <2>2, <2>4 DEF Apart, Drained, ChannelClosed
  <1>5. CASE ContextEnds \/ CallStop \/ Stopping
    <2>1. /\ UNCHANGED <<jobs, pc, poll, batch, passes, work, holds, over>>
          /\ life' # "new" /\ (ChannelClosed => ChannelClosed')
      BY <1>5 DEF ContextEnds, CallStop, Stopping, ClearFlag, CancelAndClose, StopReturns,
                  pollVars, workVars, ChannelClosed
    <2>2. Taken' = Taken /\ Buffered' = Buffered
      BY <2>1, HintsStay
    <2> QED
      BY <1>0, <2>1, <2>2 DEF Spent, Apart, Drained
  <1>6. CASE UNCHANGED vars
    BY <1>0, <1>6, HintsStay DEF vars, pollVars, workVars, Spent, Apart, Drained, ChannelClosed
  <1> QED
    BY <1>1, <1>2, <1>3, <1>4, <1>5, <1>6 DEF Next

LEMMA AlwaysPlaced == Spec => []PlaceInv
  BY InitPlace, NextPlace, PTL DEF Spec
-----------------------------------------------------------------------------
(* The queue implements its board                                          *)

Phase == IF life = "new" THEN "new"
         ELSE IF Active THEN "open"
         ELSE IF life = "stopped" THEN "closed" ELSE "closing"

Held == Buffered \cup Handling

LEMMA RefuseOnBoard ==
  ASSUME PlaceInv, NEW p \in Producers, pc[p] \in {"ready", "offer"},
         p = Poller => poll = "submit" /\ batch > 0,
         Refuse(p), UNCHANGED <<life, jobs, holds>>
  PROVE  Board!Next
  <1>1. HintOf(p) \in Hints /\ HintOf(p) \notin Held /\ HintOf(p) \notin over
    BY HandIsFresh DEF Taken, Held
  <1>2. over' = over \cup {HintOf(p)} /\ Held' = Held /\ Phase' = Phase
    BY DEF Refuse, Held, Buffered, Handling, Phase, Active
  <1>3. Board!Refuse(HintOf(p))
    BY <1>1, <1>2 DEF Board!Refuse, Board!Fresh, Held, Phase
  <1> QED
    BY <1>1, <1>3 DEF Board!Next

LEMMA ProducingOnBoard ==
  ASSUME PlaceInv, NEW p \in Producers, Producing(p)
  PROVE  Board!Next \/ UNCHANGED Board!boardVars
  <1>0. TypeOK /\ PollerHasCase /\ NoReaders
    BY DEF PlaceInv, IInv
  <1>1. CASE Submit(p)
    <2>1. p = Poller => poll = "submit" /\ batch > 0
      BY <1>1 DEF Submit, HasWork
    <2>2. CASE Active
      <3>1. UNCHANGED <<life, jobs, holds, over>>
        BY <1>1, <2>2 DEF Submit, workVars
      <3>2. UNCHANGED <<Phase, Held, over>>
        BY <3>1 DEF Phase, Active, Held, Buffered, Handling
      <3> QED
        BY <3>2 DEF Board!boardVars, Phase, Held
    <2>3. CASE ~Active
      BY <1>1, <2>1, <2>3, RefuseOnBoard DEF Submit, workVars
    <2> QED
      BY <2>2, <2>3
  <1>2. CASE Offer(p)
    <2>1. p = Poller => poll = "submit" /\ batch > 0
      BY <1>0, <1>2 DEF Offer, PollerHasCase
    <2>2. CASE Room
      <3>1. /\ pc[p] = "offer" /\ jobs' = Append(jobs, HintOf(p))
            /\ UNCHANGED <<life, holds, over>>
        BY <1>2, <2>2 DEF Offer, workVars
      <3>2. HintOf(p) \in Hints /\ HintOf(p) \notin Held /\ HintOf(p) \notin over
        BY <2>1, <3>1, HandIsFresh DEF Taken, Held
      <3>3. Held' = Held \cup {HintOf(p)}
        <4>0. jobs \in Seq(Hints)
          BY <1>0 DEF TypeOK
        <4>1. Buffered' = Buffered \cup {HintOf(p)}
          BY <3>1, <3>2, <4>0, AppendHint DEF Buffered
        <4> QED
          BY <3>1, <4>1 DEF Held, Handling
      <3>4. Phase = "open" /\ Phase' = "open"
        <4>1. life \in {"serving", "stopping"}
          BY <1>0, <3>1 DEF NoReaders, TypeOK
        <4> QED
          BY <3>1, <4>1 DEF Phase, Active
      <3>5. Board!Take(HintOf(p))
        BY <3>1, <3>2, <3>3, <3>4 DEF Board!Take, Board!Fresh, Held, Phase
      <3> QED
        BY <3>2, <3>5 DEF Board!Next
    <2>3. CASE ~Room
      BY <1>2, <2>1, <2>3, RefuseOnBoard DEF Offer, workVars
    <2> QED
      BY <2>2, <2>3
  <1>3. CASE Sent(p)
    <2>1. UNCHANGED <<life, jobs, holds, over>>
      BY <1>3 DEF Sent, workVars
    <2>2. UNCHANGED <<Phase, Held, over>>
      BY <2>1 DEF Phase, Active, Held, Buffered, Handling
    <2> QED
      BY <2>2 DEF Board!boardVars, Phase, Held
  <1> QED
    BY <1>1, <1>2, <1>3 DEF Producing

LEMMA WorkingOnBoard ==
  ASSUME PlaceInv, NEW w \in Workers, Working(w)
  PROVE  Board!Next \/ UNCHANGED Board!boardVars
  <1>0. TypeOK /\ Apart
    BY DEF PlaceInv, IInv
  <1>1. CASE Receive(w)
    <2>1. /\ work[w] = "receive" /\ jobs # <<>> /\ jobs' = Tail(jobs)
          /\ holds' = [holds EXCEPT ![w] = {Head(jobs)}]
          /\ UNCHANGED <<life, over>>
      BY <1>1 DEF Receive
    <2>2. Buffered = Buffered' \cup {Head(jobs)}
      <3>1. jobs \in Seq(Hints) /\ \A i, k \in DOMAIN jobs : jobs[i] = jobs[k] => i = k
        BY <1>0 DEF TypeOK, Apart
      <3>2. jobs # <<>> /\ jobs' = Tail(jobs)
        BY <2>1
      <3>3. LET t == Tail(jobs) IN
            /\ Head(jobs) \in Hints
            /\ {jobs[i] : i \in DOMAIN jobs} = {t[i] : i \in DOMAIN t} \cup {Head(jobs)}
            /\ Head(jobs) \notin {t[i] : i \in DOMAIN t}
            /\ \A i, k \in DOMAIN t : t[i] = t[k] => i = k
        BY <3>1, <3>2, TakeHead
      <3> QED
        BY <3>2, <3>3, Zenon DEF Buffered
    <2>3. Handling' = Handling \cup {Head(jobs)}
      <3>1. PICK h : h = Head(jobs)
        OBVIOUS
      <3>2. holds[w] = {} /\ \A v \in Workers : holds'[v] = IF v = w THEN {h} ELSE holds[v]
        BY <1>0, <2>1, <3>1 DEF Apart, TypeOK
      <3>3. Handling' = Handling \cup {h}
        BY <3>2 DEF Handling
      <3> QED
        BY <3>1, <3>3
    <2>4. Held' = Held /\ Phase' = Phase
      BY <2>1, <2>2, <2>3 DEF Held, Phase, Active
    <2> QED
      BY <2>1, <2>4 DEF Board!boardVars, Phase, Held
  <1>2. ASSUME NEW outcome \in {"processed", "failed"}, HandlerReturns(w, outcome)
        PROVE  Board!Next
    <2>1. /\ work[w] = "handle" /\ over' = over \cup holds[w]
          /\ holds' = [holds EXCEPT ![w] = {}]
          /\ UNCHANGED <<life, jobs>>
      BY <1>2 DEF HandlerReturns
    <2>2. PICK h \in Hints : holds[w] = {h}
      BY <1>0, <2>1 DEF Apart
    <2>3. \A v \in Workers : holds'[v] = IF v = w THEN {} ELSE holds[v]
      BY <1>0, <2>1 DEF TypeOK
    <2>4. h \in Handling /\ Handling' = Handling \ {h}
      <3>1. \A v \in Workers : v # w => h \notin holds[v]
        BY <1>0, <2>2 DEF Apart
      <3> QED
        BY <2>2, <2>3, <3>1 DEF Handling
    <2>5. Buffered' = Buffered /\ h \notin Buffered
      BY <1>0, <2>1, <2>2 DEF Apart, Buffered
    <2>6. h \in Held /\ Held' = Held \ {h} /\ over' = over \cup {h} /\ Phase' = Phase
      BY <2>1, <2>2, <2>4, <2>5 DEF Held, Phase, Active
    <2>7. Board!Finish(h)
      BY <2>6 DEF Board!Finish, Held, Phase
    <2> QED
      BY <2>7 DEF Board!Next
  <1>3. CASE Note(w) \/ WorkerExits(w)
    <2>1. UNCHANGED <<life, jobs, holds, over>>
      BY <1>3 DEF Note, WorkerExits
    <2>2. UNCHANGED <<Phase, Held, over>>
      BY <2>1 DEF Phase, Active, Held, Buffered, Handling
    <2> QED
      BY <2>2 DEF Board!boardVars, Phase, Held
  <1> QED
    BY <1>1, <1>2, <1>3 DEF Working

\* Start opens the board, the flag closes it, and Stop returns when every
\* worker found the closed channel empty.
LEMMA LifeOnBoard ==
  ASSUME PlaceInv, Start \/ Polling \/ ContextEnds \/ CallStop \/ Stopping
  PROVE  Board!Next \/ UNCHANGED Board!boardVars
  <1>0. TypeOK /\ Apart /\ Drained
    BY DEF PlaceInv, IInv
  <1>1. UNCHANGED <<jobs, holds, over>>
    BY DEF Start, Polling, List, Tick, PollerExits, ContextEnds, CallStop, Stopping,
           ClearFlag, CancelAndClose, StopReturns, pollVars, workVars
  <1>2. Held' = Held
    BY <1>1 DEF Held, Buffered, Handling
  <1>3. CASE Start
    <2>1. Board!Open
      BY <1>1, <1>2, <1>3 DEF Start, Board!Open, Active, Held
    <2> QED
      BY <2>1 DEF Board!Next
  <1>4. CASE ClearFlag
    <2>1. Board!Close
      BY <1>1, <1>2, <1>4 DEF ClearFlag, Board!Close, Active, Held
    <2> QED
      BY <2>1 DEF Board!Next
  <1>5. CASE StopReturns
    <2>1. life = "draining" /\ life' = "stopped" /\ \A w \in Workers : work[w] = "done"
      BY <1>5 DEF StopReturns, AllDone
    <2>2. jobs = <<>> /\ Handling = {}
      BY <1>0, <2>1, QueueAssumption DEF Drained, Apart, Handling
    <2>3. Held = {}
      BY <2>2 DEF Held, Buffered
    <2>4. Board!Closed
      BY <1>1, <1>2, <2>1, <2>3 DEF Board!Closed, Active, Held
    <2> QED
      BY <2>4 DEF Board!Next
  <1>6. CASE Polling \/ ContextEnds \/ CallStop \/ CancelAndClose
    <2>1. Phase' = Phase
      BY <1>6 DEF Polling, List, Tick, PollerExits, ContextEnds, CallStop, CancelAndClose,
                  Phase, Active
    <2> QED
      BY <1>1, <1>2, <2>1 DEF Board!boardVars, Phase, Held
  <1> QED
    BY <1>3, <1>4, <1>5, <1>6 DEF Stopping

\* The queue keeps the promises of HintBoard: a hint is taken or refused once,
\* what was taken is worked off once, and Stop returns when nothing taken is
\* left, for any number of submitters, workers and any channel size.
THEOREM QueueImplementsBoard == Spec => BoardSpec
  <1>1. Init => Board!Init
    BY DEF Init, Board!Init, Buffered, Handling
  <1>2. PlaceInv /\ [Next]_vars => [Board!Next]_(Board!boardVars)
    <2>1. ASSUME UNCHANGED vars PROVE UNCHANGED Board!boardVars
      BY <2>1 DEF vars, pollVars, workVars, Board!boardVars, Active, Buffered, Handling
    <2> QED
      BY <2>1, ProducingOnBoard, WorkingOnBoard, LifeOnBoard DEF Next
  <1> QED
    BY <1>1, <1>2, AlwaysPlaced, PTL DEF Spec, BoardSpec, Board!Spec
-----------------------------------------------------------------------------
(* The counters account for every hint                                     *)

Uncounted == {p \in Producers : pc[p] = "sent"}

\* However many requests there are, only finitely many are past their send.
Counted ==
    /\ IsFiniteSet(Uncounted) /\ IsFiniteSet(Handling)
    /\ stats["enqueued"] + Cardinality(Uncounted)
           = stats["processed"] + stats["failed"] + Len(jobs) + Cardinality(Handling)

CountInv == PlaceInv /\ Counted

\* What a counter that goes up leaves of the others.
LEMMA CountAddsOne ==
  ASSUME TypeOK, NEW k \in Counters, Count(k)
  PROVE  /\ stats'[k] = stats[k] + 1
         /\ \A c \in Counters : c # k => stats'[c] = stats[c]
         /\ \A c \in Counters : stats[c] \in Nat
  BY DEF TypeOK, Count

\* The balance, term by term.
LEMMA CountedBy ==
  ASSUME NEW e \in Nat, NEW d \in Nat, NEW f \in Nat, NEW n \in Nat,
         NEW u \in Nat, NEW h \in Nat, e + u = d + f + n + h,
         stats'["enqueued"] = e, stats'["processed"] = d, stats'["failed"] = f,
         Len(jobs') = n, Cardinality(Uncounted') = u, Cardinality(Handling') = h,
         IsFiniteSet(Uncounted'), IsFiniteSet(Handling')
  PROVE  Counted'
  BY DEF Counted

\* The terms of the balance are numbers.
LEMMA Numbers ==
  ASSUME TypeOK, Counted
  PROVE  /\ Cardinality(Uncounted) \in Nat /\ Cardinality(Handling) \in Nat
         /\ Cardinality(Uncounted) = 0 <=> Uncounted = {}
         /\ Cardinality(Handling) = 0 <=> Handling = {}
         /\ stats["enqueued"] \in Nat /\ stats["processed"] \in Nat /\ stats["failed"] \in Nat
         /\ Len(jobs) \in Nat
         /\ Len(jobs) = 0 <=> jobs = <<>>
         /\ IsFiniteSet(Uncounted) /\ IsFiniteSet(Handling)
         /\ stats["enqueued"] + Cardinality(Uncounted)
                = stats["processed"] + stats["failed"] + Len(jobs) + Cardinality(Handling)
  <1>1. /\ Cardinality(Uncounted) \in Nat /\ Cardinality(Handling) \in Nat
        /\ Cardinality(Uncounted) = 0 <=> Uncounted = {}
        /\ Cardinality(Handling) = 0 <=> Handling = {}
    BY FS_CardinalityType, FS_EmptySet DEF Counted
  <1>2. /\ stats["enqueued"] \in Nat /\ stats["processed"] \in Nat /\ stats["failed"] \in Nat
        /\ Len(jobs) \in Nat
        /\ Len(jobs) = 0 <=> jobs = <<>>
    BY DEF TypeOK, Counters
  <1>3. /\ IsFiniteSet(Uncounted) /\ IsFiniteSet(Handling)
        /\ stats["enqueued"] + Cardinality(Uncounted)
               = stats["processed"] + stats["failed"] + Len(jobs) + Cardinality(Handling)
    BY DEF Counted
  <1> QED
    BY <1>1, <1>2, <1>3

LEMMA InitCounted == Init => CountInv
  <1> SUFFICES ASSUME Init PROVE CountInv
    OBVIOUS
  <1>1. Uncounted = {} /\ Handling = {}
    BY DEF Init, Uncounted, Handling
  <1>2. stats["enqueued"] = 0 /\ stats["processed"] = 0 /\ stats["failed"] = 0 /\ jobs = <<>>
    BY DEF Init, Counters
  <1>3. Counted
    BY <1>1, <1>2, FS_EmptySet DEF Counted
  <1> QED
    BY <1>3, InitPlace DEF CountInv

\* A step that moves no hint and no producer past its send.
LEMMA CountStays ==
  ASSUME Counted, UNCHANGED <<jobs, holds, Uncounted>>,
         \A c \in {"enqueued", "processed", "failed"} : stats'[c] = stats[c]
  PROVE  Counted'
  <1>1. Handling' = Handling
    BY DEF Handling
  <1> QED
    BY <1>1 DEF Counted

LEMMA RefuseCounted ==
  ASSUME TypeOK, Counted, NEW p \in Producers, pc[p] # "sent", Refuse(p),
         UNCHANGED <<jobs, holds>>
  PROVE  Counted'
  <1>1. \A q \in Producers : q # p => pc'[q] = pc[q]
    BY DEF TypeOK, Refuse, Return
  <1>2. pc'[p] # "sent"
    BY DEF TypeOK, Refuse, Return
  <1>3. Uncounted' = Uncounted
    BY <1>1, <1>2 DEF Uncounted
  <1>4. \A c \in {"enqueued", "processed", "failed"} : stats'[c] = stats[c]
    BY CountAddsOne DEF Refuse, Counters
  <1> QED
    BY <1>3, <1>4, CountStays

LEMMA ProducingCounted ==
  ASSUME TypeOK, Counted, NEW p \in Producers, Producing(p)
  PROVE  Counted'
  <1>1. CASE Submit(p)
    <2>1. CASE Active
      <3>1. pc[p] = "ready" /\ pc' = [pc EXCEPT ![p] = "offer"] /\ UNCHANGED <<jobs, holds, stats>>
        BY <1>1, <2>1 DEF Submit, workVars
      <3>2. Uncounted' = Uncounted
        BY <3>1 DEF Uncounted, TypeOK
      <3> QED
        BY <3>1, <3>2, CountStays
    <2>2. CASE ~Active
      BY <1>1, <2>2, RefuseCounted DEF Submit, workVars
    <2> QED
      BY <2>1, <2>2
  <1>2. CASE Offer(p)
    <2>1. CASE Room
      <3>1. /\ pc[p] = "offer" /\ pc' = [pc EXCEPT ![p] = "sent"]
            /\ jobs' = Append(jobs, HintOf(p)) /\ UNCHANGED <<holds, stats>>
        BY <1>2, <2>1 DEF Offer, workVars
      <3>2. Uncounted' = Uncounted \cup {p} /\ p \notin Uncounted
        BY <3>1 DEF Uncounted, TypeOK
      <3>3. /\ IsFiniteSet(Uncounted')
            /\ Cardinality(Uncounted') = Cardinality(Uncounted) + 1
        BY <3>2, FS_AddElement DEF Counted
      <3>4. Len(jobs') = Len(jobs) + 1 /\ Len(jobs) \in Nat
        BY <3>1 DEF TypeOK
      <3>5. Handling' = Handling
        BY <3>1 DEF Handling
      <3> DEFINE e == stats["enqueued"]  d == stats["processed"]  f == stats["failed"]
                 n == Len(jobs)  u == Cardinality(Uncounted)  h == Cardinality(Handling)
      <3>6. /\ e \in Nat /\ d \in Nat /\ f \in Nat /\ n \in Nat /\ u \in Nat /\ h \in Nat
            /\ stats["enqueued"] = e /\ stats["processed"] = d /\ stats["failed"] = f
            /\ Len(jobs) = n /\ Cardinality(Uncounted) = u /\ Cardinality(Handling) = h
            /\ e + u = d + f + n + h
            /\ IsFiniteSet(Uncounted) /\ IsFiniteSet(Handling)
            /\ n = 0 <=> jobs = <<>>
            /\ u = 0 <=> Uncounted = {}
            /\ h = 0 <=> Handling = {}
        BY Numbers
      <3> HIDE DEF e, d, f, n, u, h
      <3>7. e + (u + 1) = d + f + (n + 1) + h
        BY <3>6
      <3> QED
        BY <3>1, <3>3, <3>4, <3>5, <3>6, <3>7, CountedBy
    <2>2. CASE ~Room
      BY <1>2, <2>2, RefuseCounted DEF Offer, workVars
    <2> QED
      BY <2>1, <2>2
  <1>3. CASE Sent(p)
    <2>1. pc[p] = "sent" /\ Return(p) /\ Count("enqueued") /\ UNCHANGED <<jobs, holds>>
      BY <1>3 DEF Sent, workVars
    <2>2. Uncounted' = Uncounted \ {p} /\ p \in Uncounted
      <3>1. \A q \in Producers : q # p => pc'[q] = pc[q]
        BY <2>1 DEF TypeOK, Return
      <3>2. pc'[p] # "sent"
        BY <2>1 DEF TypeOK, Return
      <3> QED
        BY <2>1, <3>1, <3>2 DEF Uncounted
    <2>3. /\ IsFiniteSet(Uncounted')
          /\ Cardinality(Uncounted') = Cardinality(Uncounted) - 1
      BY <2>2, FS_RemoveElement DEF Counted
    <2>4. /\ stats'["enqueued"] = stats["enqueued"] + 1
          /\ stats'["processed"] = stats["processed"] /\ stats'["failed"] = stats["failed"]
      BY <2>1, CountAddsOne DEF Counters
    <2>5. Handling' = Handling
      BY <2>1 DEF Handling
    <2> DEFINE e == stats["enqueued"]  d == stats["processed"]  f == stats["failed"]
               n == Len(jobs)  u == Cardinality(Uncounted)  h == Cardinality(Handling)
    <2>6. /\ e \in Nat /\ d \in Nat /\ f \in Nat /\ n \in Nat /\ u \in Nat /\ h \in Nat
          /\ stats["enqueued"] = e /\ stats["processed"] = d /\ stats["failed"] = f
          /\ Len(jobs) = n /\ Cardinality(Uncounted) = u /\ Cardinality(Handling) = h
          /\ e + u = d + f + n + h
          /\ IsFiniteSet(Uncounted) /\ IsFiniteSet(Handling)
          /\ n = 0 <=> jobs = <<>>
          /\ u = 0 <=> Uncounted = {}
          /\ h = 0 <=> Handling = {}
      BY Numbers
    <2> HIDE DEF e, d, f, n, u, h
    <2>7. u - 1 \in Nat /\ (e + 1) + (u - 1) = d + f + n + h
      BY <2>2, <2>6
    <2> QED
      BY <2>1, <2>3, <2>4, <2>5, <2>6, <2>7, CountedBy
  <1> QED
    BY <1>1, <1>2, <1>3 DEF Producing

LEMMA WorkingCounted ==
  ASSUME PlaceInv, Counted, NEW w \in Workers, Working(w)
  PROVE  Counted'
  <1>0. TypeOK /\ Apart
    BY DEF PlaceInv, IInv
  <1> DEFINE e == stats["enqueued"]  d == stats["processed"]  f == stats["failed"]
             n == Len(jobs)  u == Cardinality(Uncounted)  h == Cardinality(Handling)
  <1>n. /\ e \in Nat /\ d \in Nat /\ f \in Nat /\ n \in Nat /\ u \in Nat /\ h \in Nat
        /\ stats["enqueued"] = e /\ stats["processed"] = d /\ stats["failed"] = f
        /\ Len(jobs) = n /\ Cardinality(Uncounted) = u /\ Cardinality(Handling) = h
        /\ e + u = d + f + n + h
        /\ IsFiniteSet(Uncounted) /\ IsFiniteSet(Handling)
        /\ n = 0 <=> jobs = <<>>
        /\ u = 0 <=> Uncounted = {}
        /\ h = 0 <=> Handling = {}
    BY <1>0, Numbers
  <1> HIDE DEF e, d, f, n, u, h
  <1>1. CASE Receive(w)
    <2>1. /\ work[w] = "receive" /\ jobs # <<>> /\ jobs' = Tail(jobs)
          /\ holds' = [holds EXCEPT ![w] = {Head(jobs)}]
          /\ UNCHANGED <<pc, stats>>
      BY <1>1 DEF Receive
    <2>2. PICK x : x = Head(jobs)
      OBVIOUS
    <2>3. x \in Buffered
      <3>1. jobs[1] = Head(jobs) /\ 1 \in DOMAIN jobs
        BY <1>0, <2>1 DEF TypeOK
      <3> QED
        BY <2>2, <3>1 DEF Buffered
    <2>4. x \notin Handling
      BY <1>0, <2>3 DEF Apart, Handling
    <2>5. Handling' = Handling \cup {x}
      <3>1. holds[w] = {} /\ \A v \in Workers : holds'[v] = IF v = w THEN {x} ELSE holds[v]
        BY <1>0, <2>1, <2>2 DEF Apart, TypeOK
      <3> QED
        BY <3>1 DEF Handling
    <2>6. /\ IsFiniteSet(Handling')
          /\ Cardinality(Handling') = Cardinality(Handling) + 1
      BY <2>4, <2>5, FS_AddElement DEF Counted
    <2>7. Len(jobs') = Len(jobs) - 1
      BY <1>0, <2>1 DEF TypeOK
    <2>8. Uncounted' = Uncounted
      BY <2>1 DEF Uncounted
    <2>9. n - 1 \in Nat /\ h + 1 \in Nat /\ e + u = d + f + (n - 1) + (h + 1)
      BY <1>n, <2>1
    <2>10. /\ stats'["enqueued"] = e /\ stats'["processed"] = d /\ stats'["failed"] = f
           /\ Cardinality(Uncounted') = u /\ IsFiniteSet(Uncounted')
           /\ Cardinality(Handling') = h + 1 /\ Len(jobs') = n - 1
      BY <1>n, <2>1, <2>6, <2>7, <2>8
    <2> QED
      BY <1>n, <2>6, <2>9, <2>10, CountedBy
  <1>2. ASSUME NEW outcome \in {"processed", "failed"}, HandlerReturns(w, outcome)
        PROVE  Counted'
    <2>1. /\ work[w] = "handle" /\ Count(outcome)
          /\ holds' = [holds EXCEPT ![w] = {}]
          /\ UNCHANGED <<jobs, pc>>
      BY <1>2 DEF HandlerReturns
    <2>2. PICK x \in Hints : holds[w] = {x}
      BY <1>0, <2>1 DEF Apart
    <2>3. x \in Handling /\ Handling' = Handling \ {x}
      <3>1. \A v \in Workers : v # w => x \notin holds[v]
        BY <1>0, <2>2 DEF Apart
      <3>2. \A v \in Workers : holds'[v] = IF v = w THEN {} ELSE holds[v]
        BY <1>0, <2>1 DEF TypeOK
      <3> QED
        BY <2>2, <3>1, <3>2 DEF Handling
    <2>4. /\ IsFiniteSet(Handling')
          /\ Cardinality(Handling') = Cardinality(Handling) - 1
      BY <2>3, FS_RemoveElement DEF Counted
    <2>5. Uncounted' = Uncounted
      BY <2>1 DEF Uncounted
    <2>6. h - 1 \in Nat /\ e + u = d + f + n + (h - 1) + 1
      BY <1>n, <2>3
    <2>7. CASE outcome = "processed"
      <3>1. /\ stats'["enqueued"] = e /\ stats'["processed"] = d + 1 /\ stats'["failed"] = f
        BY <1>0, <1>n, <2>1, <2>7, CountAddsOne DEF Counters
      <3>2. d + 1 \in Nat /\ e + u = (d + 1) + f + n + (h - 1)
        BY <1>n, <2>6
      <3> QED
        BY <1>n, <2>1, <2>4, <2>5, <2>6, <3>1, <3>2, CountedBy
    <2>8. CASE outcome = "failed"
      <3>1. /\ stats'["enqueued"] = e /\ stats'["processed"] = d /\ stats'["failed"] = f + 1
        BY <1>0, <1>n, <2>1, <2>8, CountAddsOne DEF Counters
      <3>2. f + 1 \in Nat /\ e + u = d + (f + 1) + n + (h - 1)
        BY <1>n, <2>6
      <3> QED
        BY <1>n, <2>1, <2>4, <2>5, <2>6, <3>1, <3>2, CountedBy
    <2> QED
      BY <2>7, <2>8
  <1>3. CASE Note(w) \/ WorkerExits(w)
    BY <1>3, CountStays DEF Note, WorkerExits, Uncounted
  <1> QED
    BY <1>1, <1>2, <1>3 DEF Working

LEMMA NextCounted == CountInv /\ [Next]_vars => CountInv'
  <1> SUFFICES ASSUME CountInv, [Next]_vars PROVE Counted'
    BY NextPlace DEF CountInv
  <1>0. PlaceInv /\ Counted /\ TypeOK
    BY DEF CountInv, PlaceInv, IInv
  <1>1. ASSUME NEW p \in Producers, Producing(p) PROVE Counted'
    BY <1>0, <1>1, ProducingCounted
  <1>2. ASSUME NEW w \in Workers, Working(w) PROVE Counted'
    BY <1>0, <1>2, WorkingCounted
  <1>3. CASE Start \/ Polling \/ ContextEnds \/ CallStop \/ Stopping \/ UNCHANGED vars
    <2>1. UNCHANGED <<jobs, holds, stats, pc>>
      BY <1>3 DEF Start, Polling, List, Tick, PollerExits, ContextEnds, CallStop, Stopping,
                  ClearFlag, CancelAndClose, StopReturns, vars, pollVars, workVars
    <2> QED
      BY <1>0, <2>1, CountStays DEF Uncounted
  <1> QED
    BY <1>1, <1>2, <1>3 DEF Next

\* The counters that /ops shows account for every hint, however many requests,
\* workers and passes there are: no race between a send and its count loses one.
THEOREM CountersBalance == Spec => []StatsBalance
  <1>1. CountInv => StatsBalance
    BY DEF CountInv, Counted, Uncounted, StatsBalance
  <1> QED
    BY <1>1, InitCounted, NextCounted, PTL DEF Spec
-----------------------------------------------------------------------------
(* Runtime. *)
\* Before Start nothing is buffered; Stop has waited for every goroutine.
Finished ==
    /\ life = "new" => jobs = <<>>
    /\ life = "stopped" => AllDone

QueueInv == PlaceInv /\ Finished

\* The closes that Run has deferred, in the order of the opens.
Prefix ==
    /\ defers \in Seq(ToSet(Resources)) /\ Len(defers) <= Len(Resources)
    /\ \A i \in DOMAIN defers : defers[i] = Resources[i]

\* The queue is open, and its close the latest, from Start until Stop returns.
Nested ==
    /\ life \notin {"new", "stopped"} => Len(defers) = 4
    /\ stage = "starting" => (life = "new" <=> Len(defers) # 4)
    /\ stage = "exited" => defers = <<>>

RInv == RuntimeTypeOK /\ Nested

LEMMA ResourceCount == Len(Resources) = 4
  BY DEF Resources

LEMMA FourResources ==
  /\ Resources \in Seq(ToSet(Resources))
  /\ Resources[1] = "db" /\ Resources[2] = "redis"
  /\ Resources[3] = "bot" /\ Resources[4] = "queue"
  /\ ToSet(Resources) = {"db", "redis", "bot", "queue"}
  BY DEF Resources, ToSet
-----------------------------------------------------------------------------
(* The queue in the process                                                *)

\* A step of the process is a step of the queue or none.
LEMMA StepOfQueue ==
  ASSUME [RuntimeNext]_<<vars, runtimeVars>>
  PROVE  [Next]_vars
  <1>1. CASE RunNext
    BY <1>1 DEF RunNext, Opens, OpenFails, Serve, BeginShutdown, EndShutdown, ApiReturns,
                Unwind, Next
  <1>2. CASE SignalArrives \/ \E r \in Requests : Arrive(r) \/ Commit(r) \/ Answer(r)
    BY <1>2 DEF SignalArrives, Arrive, Commit, Answer
  <1>3. CASE QueueRuns
    BY <1>3 DEF QueueRuns, Next
  <1> QED
    BY <1>1, <1>2, <1>3 DEF RuntimeNext

\* The queue inside the process behaves as the queue of module WorkQueue: what
\* is proved there of Submit, the workers and Stop holds for Run as well.
THEOREM ProcessRunsQueue == RuntimeSpec => Spec
  <1>1. RuntimeInit => Init
    BY DEF RuntimeInit
  <1>2. [RuntimeNext]_<<vars, runtimeVars>> => [Next]_vars
    BY StepOfQueue
  <1> QED
    BY <1>1, <1>2, PTL DEF RuntimeSpec, Spec

LEMMA FinishedStep ==
  ASSUME QueueInv, [Next]_vars
  PROVE  QueueInv'
  <1> SUFFICES Finished'
    BY NextPlace DEF QueueInv
  <1>0. TypeOK /\ NoReaders /\ Drained /\ Finished
    BY DEF QueueInv, PlaceInv, IInv
  <1>1. ASSUME NEW p \in Producers, Producing(p) PROVE Finished'
    <2>1. UNCHANGED <<life, poll, work>>
      BY <1>1 DEF Producing, Submit, Offer, Sent, workVars
    <2>2. jobs' = jobs \/ pc[p] = "offer"
      BY <1>1 DEF Producing, Submit, Offer, Sent
    <2>3. life = "new" => jobs' = jobs
      BY <1>0, <2>2 DEF NoReaders
    <2> QED
      BY <1>0, <2>1, <2>3 DEF Finished, AllDone
  <1>2. ASSUME NEW w \in Workers, Working(w) PROVE Finished'
    <2>1. work[w] \notin {"off", "done"} /\ UNCHANGED life
      BY <1>2 DEF Working, Receive, HandlerReturns, Note, WorkerExits
    <2>2. life \notin {"new", "stopped"}
      BY <1>0, <2>1 DEF Drained, Finished, AllDone
    <2> QED
      BY <2>1, <2>2 DEF Finished
  <1>3. CASE Start
    BY <1>3 DEF Start, Finished
  <1>4. CASE Polling
    <2>1. UNCHANGED <<life, jobs, work>> /\ poll # "done"
      BY <1>4 DEF Polling, List, Tick, PollerExits, InSelect, workVars
    <2> QED
      BY <1>0, <2>1 DEF Finished, AllDone
  <1>5. CASE ContextEnds \/ CallStop \/ Stopping
    <2>1. UNCHANGED <<jobs, poll, work>> /\ life' # "new"
      BY <1>5 DEF ContextEnds, CallStop, Stopping, ClearFlag, CancelAndClose, StopReturns,
                  pollVars, workVars
    <2>2. life' = "stopped" => AllDone
      BY <1>0, <1>5 DEF ContextEnds, CallStop, Stopping, ClearFlag, CancelAndClose,
                        StopReturns, Finished
    <2> QED
      BY <2>1, <2>2 DEF Finished, AllDone
  <1>6. CASE UNCHANGED vars
    BY <1>0, <1>6 DEF vars, pollVars, workVars, Finished, AllDone
  <1> QED
    BY <1>1, <1>2, <1>3, <1>4, <1>5, <1>6 DEF Next

LEMMA QueueStaysSound == Spec => []QueueInv
  <1>1. Init => QueueInv
    BY InitPlace DEF Init, QueueInv, Finished
  <1> QED
    BY <1>1, FinishedStep, PTL DEF Spec
-----------------------------------------------------------------------------
(* The deferred closes                                                     *)

\* The latest close is taken off the list.
LEMMA CloseLatest ==
  ASSUME Prefix, defers # <<>>
  PROVE  LET rest == RemoveAt(defers, LatestFirst) IN
         /\ rest \in Seq(ToSet(Resources)) /\ Len(rest) = Len(defers) - 1
         /\ \A i \in DOMAIN rest : rest[i] = Resources[i]
  <1> DEFINE n == Len(defers)
             front == SubSeq(defers, 1, n - 1)
             back == SubSeq(defers, n + 1, n)
  <1>1. n \in Nat \ {0} /\ defers \in Seq(ToSet(Resources))
    BY DEF Prefix
  <1>2. RemoveAt(defers, LatestFirst) = front \o back
    BY DEF RemoveAt, LatestFirst
  <1>3. /\ front \in Seq(ToSet(Resources)) /\ Len(front) = n - 1
        /\ \A i \in 1 .. (n - 1) : front[i] = defers[i]
    <2>1. \A i \in 1 .. (n - 1) : defers[i] \in ToSet(Resources)
      BY <1>1
    <2> HIDE DEF n
    <2>2. /\ SubSeq(defers, 1, n - 1) \in Seq(ToSet(Resources))
          /\ Len(SubSeq(defers, 1, n - 1)) = IF 1 <= n - 1 THEN n - 1 - 1 + 1 ELSE 0
          /\ \A i \in 1 .. (n - 1 - 1 + 1) :
                 SubSeq(defers, 1, n - 1)[i] = defers[1 + i - 1]
      BY <1>1, <2>1, SubSeqProperties
    <2> QED
      BY <1>1, <2>2
  <1>4. back = <<>>
    BY <1>1
  <1>5. front \o back = front
    BY <1>3, <1>4
  <1>6. \A i \in 1 .. (n - 1) : i \in DOMAIN defers
    BY <1>1
  <1>7. \A i \in DOMAIN front : front[i] = Resources[i]
    BY <1>3, <1>6 DEF Prefix
  <1> QED
    BY <1>2, <1>3, <1>5, <1>7

\* Opening the next resource.
LEMMA OpenNext ==
  ASSUME Prefix, Len(defers) < Len(Resources)
  PROVE  LET longer == Append(defers, Resources[Len(defers) + 1]) IN
         /\ longer \in Seq(ToSet(Resources)) /\ Len(longer) = Len(defers) + 1
         /\ \A i \in DOMAIN longer : longer[i] = Resources[i]
         /\ Last(longer) = "queue" <=> Len(longer) = 4
  <1> DEFINE n == Len(defers)  next == Resources[n + 1]  longer == Append(defers, next)
  <1>1. n \in 0 .. 3 /\ defers \in Seq(ToSet(Resources))
    <2>1. defers \in Seq(ToSet(Resources))
      BY DEF Prefix
    <2>2. n \in Nat /\ n < 4
      BY <2>1, ResourceCount
    <2> HIDE DEF n
    <2>3. n \in 0 .. 3
      BY <2>2
    <2> QED
      BY <2>1, <2>3
  <1>2. next \in ToSet(Resources) /\ (next = "queue" <=> n + 1 = 4)
    <2>1. n \in {0, 1, 2, 3}
      BY <1>1
    <2> HIDE DEF n
    <2> QED
      BY <2>1, FourResources
  <1>3. \A i \in 1 .. n : defers[i] = Resources[i]
    BY <1>1 DEF Prefix
  <1> HIDE DEF next
  <1>4. /\ longer \in Seq(ToSet(Resources)) /\ Len(longer) = n + 1
        /\ DOMAIN longer = 1 .. (n + 1) /\ longer[n + 1] = next
        /\ \A i \in 1 .. n : longer[i] = defers[i]
    BY <1>1, <1>2
  <1>5. Last(longer) = next
    BY <1>4 DEF Last
  <1>6. \A i \in 1 .. (n + 1) : longer[i] = Resources[i]
    BY <1>1, <1>3, <1>4 DEF next
  <1> HIDE DEF longer
  <1>7. QED
    BY <1>2, <1>4, <1>5, <1>6 DEF longer, next
-----------------------------------------------------------------------------
(* The order of the shutdown                                               *)

LEMMA InitRuntime == RuntimeInit => RInv
  <1> SUFFICES ASSUME RuntimeInit PROVE RInv
    OBVIOUS
  <1>1. defers = <<>> /\ Len(defers) = 0
    BY DEF RuntimeInit
  <1>2. RuntimeTypeOK
    <2>1. defers \in Seq(ToSet(Resources)) /\ DOMAIN defers = {}
      BY <1>1
    <2>2. Len(defers) <= Len(Resources)
      BY <1>1, ResourceCount
    <2>3. request \in [Requests -> {"none", "arrived", "committed", "answered"}]
      BY DEF RuntimeInit
    <2> QED
      BY <2>1, <2>2, <2>3 DEF RuntimeInit, RuntimeTypeOK
  <1>3. Nested
    BY <1>1 DEF RuntimeInit, Init, Nested
  <1> QED
    BY <1>2, <1>3 DEF RInv

LEMMA RunStep ==
  ASSUME RInv, QueueInv, RunNext
  PROVE  RInv'
  <1>0. RuntimeTypeOK /\ Nested /\ Prefix
    BY DEF RInv, RuntimeTypeOK, Prefix
  <1>1. CASE Opens
    <2>1. /\ stage = "starting" /\ Len(defers) < Len(Resources)
          /\ defers' = Append(defers, Resources[Len(defers) + 1])
          /\ IF Last(defers') = "queue" THEN Start ELSE UNCHANGED vars
          /\ UNCHANGED <<stage, signal, api, request>>
      BY <1>1 DEF Opens
    <2>2. /\ defers' \in Seq(ToSet(Resources)) /\ Len(defers') = Len(defers) + 1
          /\ \A i \in DOMAIN defers' : defers'[i] = Resources[i]
          /\ Last(defers') = "queue" <=> Len(defers') = 4
      BY <1>0, <2>1, OpenNext
    <2>3. Len(defers) \in 0 .. 3 /\ Len(defers') <= Len(Resources)
      <3>1. Len(defers) \in Nat /\ Len(Resources) = 4
        BY <1>0, ResourceCount DEF Prefix
      <3>2. Len(defers) < 4 /\ Len(defers') = Len(defers) + 1
        BY <2>1, <2>2, <3>1
      <3>3. PICK k \in Nat : k = Len(defers)
        BY <3>1
      <3>4. k \in 0 .. 3 /\ k + 1 <= 4
        BY <3>2, <3>3
      <3> QED
        BY <3>1, <3>2, <3>3, <3>4
    <2>4. life = "new"
      <3>1. Len(defers) # 4
        BY <2>3
      <3> QED
        BY <1>0, <2>1, <3>1 DEF Nested
    <2>5. RuntimeTypeOK'
      BY <1>0, <2>1, <2>2, <2>3 DEF RuntimeTypeOK
    <2>6. Nested'
      <3>1. CASE Len(defers') = 4
        BY <1>0, <2>1, <2>2, <3>1 DEF Nested, Start
      <3>2. CASE Len(defers') # 4
        BY <1>0, <2>1, <2>2, <2>4, <3>2 DEF Nested, vars
      <3> QED
        BY <3>1, <3>2
    <2> QED
      BY <2>5, <2>6 DEF RInv
  <1>2. CASE OpenFails \/ Serve \/ BeginShutdown \/ EndShutdown \/ ApiReturns
    <2>1. /\ UNCHANGED <<life, defers, signal, request>>
          /\ stage # "exited" /\ stage' \in {stage, "unwinding", "serving"}
          /\ stage' = stage \/ stage' # "starting"
          /\ api' \in {"off", "listening", "draining", "drained", "timedOut"}
      BY <1>0, <1>2 DEF OpenFails, Serve, BeginShutdown, EndShutdown, ApiReturns, vars,
                        RuntimeTypeOK
    <2>2. RuntimeTypeOK'
      BY <1>0, <2>1 DEF RuntimeTypeOK
    <2> QED
      BY <1>0, <2>1, <2>2 DEF RInv, Nested
  <1>3. CASE Unwind
    <2>1. stage = "unwinding" /\ UNCHANGED <<signal, api, request>>
      BY <1>3 DEF Unwind
    <2>2. CASE defers = <<>>
      <3>1. stage' = "exited" /\ life' = life /\ defers' = defers
        BY <1>3, <2>2 DEF Unwind, vars
      <3> QED
        BY <1>0, <2>1, <2>2, <3>1 DEF RInv, RuntimeTypeOK, Nested
    <2>3. CASE defers # <<>> /\ defers[LatestFirst] = "queue" /\ life = "serving"
      <3>1. stage' = stage /\ life' = "stopping" /\ defers' = defers
        BY <1>3, <2>3 DEF Unwind, CallStop
      <3> QED
        BY <1>0, <2>1, <2>3, <3>1 DEF RInv, RuntimeTypeOK, Nested
    <2>4. CASE defers # <<>> /\ ~(defers[LatestFirst] = "queue" /\ life = "serving")
      <3>1. /\ stage' = stage /\ life' = life /\ defers' = RemoveAt(defers, LatestFirst)
            /\ defers[LatestFirst] = "queue" => life = "stopped"
        BY <1>3, <2>4 DEF Unwind, vars
      <3>2. /\ defers' \in Seq(ToSet(Resources)) /\ Len(defers') = Len(defers) - 1
            /\ \A i \in DOMAIN defers' : defers'[i] = Resources[i]
        BY <1>0, <2>4, <3>1, CloseLatest
      <3>3. Len(defers) \in Nat \ {0} /\ Len(defers) <= 4
        BY <1>0, <2>4, ResourceCount DEF Prefix
      <3>4. life \in {"new", "stopped"}
        <4>1. CASE Len(defers) = 4
          <5>1. defers[LatestFirst] = "queue"
            BY <1>0, <4>1, FourResources DEF Prefix, LatestFirst
          <5> QED
            BY <3>1, <5>1
        <4>2. CASE Len(defers) # 4
          BY <1>0, <4>2 DEF Nested
        <4> QED
          BY <4>1, <4>2
      <3>5. RuntimeTypeOK'
        BY <1>0, <2>1, <3>1, <3>2, <3>3, ResourceCount DEF RuntimeTypeOK
      <3>6. Nested'
        BY <2>1, <3>1, <3>4 DEF Nested
      <3> QED
        BY <3>5, <3>6 DEF RInv
    <2> QED
      BY <2>2, <2>3, <2>4
  <1> QED
    BY <1>1, <1>2, <1>3 DEF RunNext

LEMMA RuntimeStep ==
  ASSUME RInv, QueueInv, [RuntimeNext]_<<vars, runtimeVars>>
  PROVE  RInv'
  <1>0. RuntimeTypeOK /\ Nested
    BY DEF RInv
  <1>1. CASE RunNext
    BY <1>1, RunStep
  <1>2. CASE SignalArrives
    BY <1>0, <1>2 DEF SignalArrives, RInv, RuntimeTypeOK, Nested, vars
  <1>3. ASSUME NEW r \in Requests, Arrive(r) \/ Commit(r) \/ Answer(r) PROVE RInv'
    <2>1. UNCHANGED <<life, stage, defers, signal, api>>
      BY <1>3 DEF Arrive, Commit, Answer, vars
    <2>2. request' \in [Requests -> {"none", "arrived", "committed", "answered"}]
      BY <1>0, <1>3 DEF Arrive, Commit, Answer, RuntimeTypeOK
    <2> QED
      BY <1>0, <2>1, <2>2 DEF RInv, RuntimeTypeOK, Nested
  <1>4. CASE QueueRuns
    <2>1. stage # "exited" /\ UNCHANGED <<stage, defers, signal, api, request>>
      BY <1>4 DEF QueueRuns, runtimeVars
    <2>2. life = "new" <=> life' = "new"
      BY <1>4 DEF QueueRuns, Producing, Submit, Offer, Sent, Polling, List, Tick, PollerExits,
                  Working, Receive, HandlerReturns, Note, WorkerExits, ContextEnds,
                  Stopping, ClearFlag, CancelAndClose, StopReturns
    <2>3. life = "stopped" => life' = "stopped"
      BY <1>4 DEF QueueRuns, Producing, Submit, Offer, Sent, Polling, List, Tick, PollerExits,
                  Working, Receive, HandlerReturns, Note, WorkerExits, ContextEnds,
                  Stopping, ClearFlag, CancelAndClose, StopReturns
    <2> QED
      BY <1>0, <2>1, <2>2, <2>3 DEF RInv, RuntimeTypeOK, Nested
  <1>5. CASE UNCHANGED <<vars, runtimeVars>>
    BY <1>0, <1>5 DEF vars, runtimeVars, RInv, RuntimeTypeOK, Nested
  <1> QED
    BY <1>1, <1>2, <1>3, <1>4, <1>5 DEF RuntimeNext

LEMMA RuntimeInvariance == RuntimeSpec => [](RInv /\ QueueInv)
  <1>1. RInv /\ QueueInv /\ [RuntimeNext]_<<vars, runtimeVars>> => RInv'
    BY RuntimeStep
  <1>2. RuntimeSpec => []QueueInv
    BY ProcessRunsQueue, QueueStaysSound, PTL
  <1> QED
    BY <1>1, <1>2, InitRuntime, PTL DEF RuntimeSpec

\* The type invariant of the process.
THEOREM RuntimeTypeCorrect == RuntimeSpec => []RuntimeTypeOK
  <1>1. RInv => RuntimeTypeOK
    BY DEF RInv
  <1> QED
    BY <1>1, RuntimeInvariance, PTL

\* Run closes in an order that serves the queue: while a goroutine of the queue
\* works the store, Redis and the bot are open, and the process ends with the
\* queue drained, however many requests and workers there are.
THEOREM ShutdownOrdered == RuntimeSpec => []ShutdownOrder
  <1>1. ASSUME RInv, QueueInv PROVE QueueHasItsResources
    <2>0. RuntimeTypeOK /\ Nested /\ NoPollerYet /\ Apart /\ Drained /\ Finished
      BY <1>1 DEF RInv, QueueInv, PlaceInv, IInv
    <2> SUFFICES ASSUME poll = "list" \/ \E w \in Workers : holds[w] # {}
                 PROVE  IsOpen("db") /\ IsOpen("redis") /\ IsOpen("bot")
      BY DEF QueueHasItsResources
    <2>1. life \notin {"new", "stopped"}
      <3>1. CASE poll = "list"
        BY <2>0, <3>1 DEF NoPollerYet, Finished, AllDone
      <3>2. CASE \E w \in Workers : holds[w] # {}
        <4>1. PICK w \in Workers : work[w] = "handle"
          BY <2>0, <3>2 DEF Apart
        <4> QED
          BY <2>0, <4>1 DEF Drained, Finished, AllDone
      <3> QED
        BY <3>1, <3>2
    <2>2. /\ defers \in Seq(ToSet(Resources)) /\ Len(defers) = 4
          /\ \A i \in DOMAIN defers : defers[i] = Resources[i]
      BY <2>0, <2>1 DEF Nested, RuntimeTypeOK
    <2>3. /\ {1, 2, 3} \subseteq DOMAIN defers
          /\ defers[1] = "db" /\ defers[2] = "redis" /\ defers[3] = "bot"
      BY <2>2, FourResources
    <2> QED
      BY <2>3 DEF IsOpen, ToSet
  <1>2. ASSUME RInv, QueueInv PROVE NothingCutOff
    <2>0. Nested /\ Apart /\ Drained /\ Finished
      BY <1>2 DEF RInv, QueueInv, PlaceInv, IInv
    <2> SUFFICES ASSUME stage = "exited" PROVE Buffered = {} /\ Handling = {}
      BY DEF NothingCutOff
    <2>1. life \in {"new", "stopped"}
      <3>1. Len(defers) = 0
        BY <2>0 DEF Nested
      <3> QED
        BY <2>0, <3>1 DEF Nested
    <2>2. jobs = <<>> /\ \A w \in Workers : work[w] \in {"off", "done"}
      <3>1. CASE life = "new"
        BY <2>0, <3>1 DEF Finished, Drained
      <3>2. CASE life = "stopped"
        BY <2>0, <3>2, QueueAssumption DEF Finished, Drained, AllDone
      <3> QED
        BY <2>1, <3>1, <3>2
    <2>3. \A w \in Workers : holds[w] = {}
      BY <2>0, <2>2 DEF Apart
    <2> QED
      BY <2>2, <2>3 DEF Buffered, Handling
  <1>3. RInv /\ QueueInv => ShutdownOrder
    BY <1>1, <1>2 DEF ShutdownOrder
  <1> QED
    BY <1>3, RuntimeInvariance, PTL
==============================================================================
