------------------------------ MODULE HintBoard ------------------------------
(***************************************************************************)
(* What the work queue promises to those who submit hints, without its     *)
(* channel, its lock or its goroutines: a hint is taken or refused, a hint *)
(* that was taken is worked off exactly once, shutdown refuses every hint  *)
(* from its first moment, and is over when nothing taken is left.          *)
(***************************************************************************)
EXTENDS Naturals

CONSTANT Hints     \* submissions, told apart by the trace they carry

VARIABLES phase,   \* "new", "open", "closing" or "closed"
          held,    \* hints taken and not yet worked off
          settled  \* hints worked off or refused

boardVars == <<phase, held, settled>>

Init ==
    /\ phase = "new"
    /\ held = {}
    /\ settled = {}

Fresh == Hints \ (held \cup settled)

Open ==
    /\ phase = "new"
    /\ phase' = "open"
    /\ UNCHANGED <<held, settled>>

Take(h) ==
    /\ phase = "open"
    /\ h \in Fresh
    /\ held' = held \cup {h}
    /\ UNCHANGED <<phase, settled>>

Refuse(h) ==
    /\ h \in Fresh
    /\ settled' = settled \cup {h}
    /\ UNCHANGED <<phase, held>>

Finish(h) ==
    /\ h \in held
    /\ held' = held \ {h}
    /\ settled' = settled \cup {h}
    /\ UNCHANGED phase

Close ==
    /\ phase = "open"
    /\ phase' = "closing"
    /\ UNCHANGED <<held, settled>>

Closed ==
    /\ phase = "closing"
    /\ held = {}
    /\ phase' = "closed"
    /\ UNCHANGED <<held, settled>>

Next ==
    \/ Open \/ Close \/ Closed
    \/ \E h \in Hints : Take(h) \/ Refuse(h) \/ Finish(h)

Spec == Init /\ [][Next]_boardVars
=============================================================================
