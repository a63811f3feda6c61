---------------------------- MODULE MessageCache ----------------------------
(***************************************************************************)
(* The legacy bot's cache of messages: a doubly linked list in order of    *)
(* use and a map from a message's id to its element, under one mutex, so   *)
(* that each call is one step.  The edits and deletions that are logged    *)
(* are those of the messages it still holds.                               *)
(***************************************************************************)
EXTENDS Integers, Sequences

CONSTANTS CacheKeys,   \* ids of messages
          CacheSize    \* MaxSize

ASSUME MessageCacheAssumption == CacheSize \in Nat

VARIABLES
    cached,   \* the map: the ids that have an element
    order,    \* the list, most recently used in front
    used      \* every id that was ever added or hit, most recent first

cacheVars == <<cached, order, used>>

Listed(seq) == {seq[i] : i \in DOMAIN seq}
\* The element that the map points to leaves the list.
Without(seq, m) ==
    LET place == CHOOSE i \in DOMAIN seq : seq[i] = m
    IN IF m \in Listed(seq)
       THEN SubSeq(seq, 1, place - 1) \o SubSeq(seq, place + 1, Len(seq)) ELSE seq
MoveToFront(seq, m) == <<m>> \o Without(seq, m)
Untouched(seq, m) == seq

CacheInit == cached = {} /\ order = <<>> /\ used = <<>>

\* What a list that has grown too long gives up: the element at its back leaves
\* the list and the map.
Evicted(seq) == IF Len(seq) > CacheSize THEN {seq[Len(seq)]} ELSE {}

\* GetMessage: a hit counts as a use.
Hit(seq, m) == MoveToFront(seq, m)

GetMessage(m) ==
    /\ m \in cached
    /\ order' = Hit(order, m)
    /\ used' = MoveToFront(used, m)
    /\ UNCHANGED cached

\* AddMessage: a message that is there moves to the front, whatever its new
\* content; a new one goes in front and may push out the oldest.
AddMessage(m) ==
    /\ used' = MoveToFront(used, m)
    /\ IF m \in cached
       THEN order' = MoveToFront(order, m) /\ UNCHANGED cached
       ELSE LET pushed == <<m>> \o order
            IN /\ order' = SubSeq(pushed, 1, IF Len(pushed) > CacheSize
                                             THEN Len(pushed) - 1 ELSE Len(pushed))
               /\ cached' = (cached \cup {m}) \ Evicted(pushed)

CacheNext == \E m \in CacheKeys : GetMessage(m) \/ AddMessage(m)

CacheSpec == CacheInit /\ [][CacheNext]_cacheVars
-----------------------------------------------------------------------------
(* The list and the map hold the same messages, each once and no more than *)
(* fit.                                                                    *)
CacheTypeOK == /\ Listed(order) = cached /\ cached \subseteq CacheKeys
               /\ Len(order) <= CacheSize
               /\ \A i, j \in DOMAIN order : order[i] = order[j] => i = j

(* The cache holds exactly the messages used last, in that order: a busy   *)
(* message is never pushed out before one that nobody has asked about      *)
(* since.                                                                  *)
KeepsMostRecent ==
    order = SubSeq(used, 1, IF Len(used) < CacheSize THEN Len(used) ELSE CacheSize)

CacheSound == CacheTypeOK /\ KeepsMostRecent
=============================================================================
