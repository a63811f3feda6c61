--------------------------- MODULE MCCaseCreation ---------------------------
(* Instances of CaseCreation for TLC. *)
EXTENDS CaseCreation, TLC

CONSTANTS c1, c2, c3, g1, g2, t1, t2, u1, u2

MCGuildOf == (t1 :> g1) @@ (t2 :> g2)

Ask(g, t, u) == [guild |-> g, template |-> t, target |-> u, allowed |-> TRUE]

Denied(r) == [r EXCEPT !.allowed = FALSE]

\* Three cases for one member; a record, another member and another guild; two
\* cases and a template of another guild; two cases and a denied request.
MCInputs ==
    LET r == Ask(g1, t1, u1)
        Three(a, b, c) == (c1 :> a) @@ (c2 :> b) @@ (c3 :> c)
    IN  {Three(r, r, r), Three(r, Ask(g1, t1, u2), Ask(g2, t2, u1)),
         Three(r, r, Ask(g1, t2, u1)), Three(r, r, Denied(r))}

Default(n) == [position |-> n, isDefault |-> TRUE, enabled |-> TRUE, trigger |-> 0, window |-> 0]
Escalated(n, trigger, window) ==
    [position |-> n, isDefault |-> FALSE, enabled |-> TRUE, trigger |-> trigger, window |-> window]

\* A policy that escalates on every second case within a window and on the
\* third at all, one that escalates on the second case, one put out of use;
\* the template of the other guild is not edited.
Windowed ==
    [version |-> 1, usable |-> TRUE, levels |-> <<Default(1), Escalated(2, 2, 1), Escalated(3, 3, 0)>>]
Stricter == [version |-> 2, usable |-> TRUE, levels |-> <<Escalated(1, 2, 0), Default(2)>>]
Archived == [version |-> 2, usable |-> FALSE, levels |-> <<Default(1)>>]

MCTemplateRows == (t1 :> {Windowed, Stricter, Archived}) @@ (t2 :> {Windowed})
=============================================================================
