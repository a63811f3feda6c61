----------------------------- MODULE Escalation -----------------------------
(***************************************************************************)
(* Which level of a template a case gets: the rules normalizeLevels        *)
(* (internal/quack/templates.go) accepts levels by, and the scan of        *)
(* selectTemplateLevel (internal/quack/cases.go) over the accepted ones.   *)
(*                                                                         *)
(* A policy is the sequence of a template's levels in the order the store  *)
(* reads them, by position. Window 0 stands for no window. Names, actions  *)
(* and notification settings are left out: no rule depends on them.        *)
(***************************************************************************)
EXTENDS Naturals, Sequences, FiniteSets

Level == [position : Nat \ {0}, isDefault : BOOLEAN, enabled : BOOLEAN,
          trigger : Nat, window : Nat]
-----------------------------------------------------------------------------
(* normalizeLevels                                                         *)

AcceptedLevel(l) ==
    IF l.isDefault THEN l.trigger = 0 /\ l.window = 0 ELSE l.trigger > 0

\* The default level is counted whether it is enabled or not.
Accepted(policy) ==
    /\ \A i \in DOMAIN policy : AcceptedLevel(policy[i])
    /\ Cardinality({i \in DOMAIN policy : policy[i].isDefault}) = 1

\* What the store keeps for a template: levels under the unique index on
\* template and position.
Stored(policy) ==
    /\ policy \in Seq(Level)
    /\ \A i, j \in DOMAIN policy : policy[i].position = policy[j].position => i = j
-----------------------------------------------------------------------------
(* selectTemplateLevel                                                     *)

\* counts[w] is the number of matching cases within w, the one under way
\* included; the default level is not limited to a window.
Matched(l, counts) == counts[IF l.isDefault THEN 0 ELSE l.window]

\* The candidate i replaces the best level so far, j; 0 is no level.
EarlierOnTie(policy, i, j) == j = 0 \/ policy[i].trigger > policy[j].trigger
Better(policy, i, j) ==
    \/ j = 0
    \/ policy[i].trigger > policy[j].trigger
    \/ policy[i].trigger = policy[j].trigger /\ policy[i].position > policy[j].position

\* One turn of the loop; a level without a trigger ends it with an error.
Consider(policy, counts, seen, i) ==
    LET l == policy[i] IN
    CASE seen.invalid \/ ~l.enabled -> seen
      [] OTHER ->
           CASE l.isDefault -> [seen EXCEPT !.fallback = i]
             [] ~l.isDefault /\ l.trigger = 0 -> [seen EXCEPT !.invalid = TRUE]
             [] ~l.isDefault /\ l.trigger > 0 ->
                  IF Matched(l, counts) >= l.trigger /\ Better(policy, i, seen.best)
                  THEN [seen EXCEPT !.best = i] ELSE seen

Scan(policy, counts) ==
    LET scan[i \in 0 .. Len(policy)] ==
            IF i = 0 THEN [fallback |-> 0, best |-> 0, invalid |-> FALSE]
            ELSE Consider(policy, counts, scan[i - 1], i)
    IN  scan[Len(policy)]

\* The index of the level, or 0 when the case is refused.
Select(policy, counts) ==
    LET seen == Scan(policy, counts) IN
    IF seen.invalid \/ seen.fallback = 0 THEN 0
    ELSE IF seen.best # 0 THEN seen.best ELSE seen.fallback
-----------------------------------------------------------------------------
(* The same without the scan: the highest enabled escalation whose         *)
(* threshold is met, the later one of two with the same trigger, else the  *)
(* enabled default level.                                                  *)

EnabledAt(policy) == {i \in DOMAIN policy : policy[i].enabled}
DefaultAt(policy) == {i \in EnabledAt(policy) : policy[i].isDefault}
DueAt(policy, counts) ==
    {i \in EnabledAt(policy) \ DefaultAt(policy) :
        policy[i].trigger <= counts[policy[i].window]}

Highest(policy, due) ==
    CHOOSE i \in due : \A j \in due \ {i} :
        \/ policy[j].trigger < policy[i].trigger
        \/ policy[j].trigger = policy[i].trigger /\ policy[j].position < policy[i].position

DocumentedLevel(policy, counts) ==
    CASE DefaultAt(policy) = {} -> 0
      [] DefaultAt(policy) # {} /\ DueAt(policy, counts) # {} ->
             Highest(policy, DueAt(policy, counts))
      [] DefaultAt(policy) # {} /\ DueAt(policy, counts) = {} ->
             CHOOSE i \in DefaultAt(policy) : TRUE
=============================================================================
