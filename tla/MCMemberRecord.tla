--------------------------- MODULE MCMemberRecord ---------------------------
(* Instances of MemberRecord for TLC. *)
EXTENDS MemberRecord

\* Every policy of up to three levels with triggers up to three.
MCLevels == [isDefault : BOOLEAN, enabled : BOOLEAN, trigger : 0 .. 3, window : Windows]

Placed(levels) ==
    [i \in DOMAIN levels |->
        [position |-> i, isDefault |-> levels[i].isDefault, enabled |-> levels[i].enabled,
         trigger |-> levels[i].trigger, window |-> levels[i].window]]

MCPolicies ==
    {p \in {Placed(s) : s \in UNION {[1 .. n -> {l \in MCLevels : AcceptedLevel(l)}] :
                                        n \in 1 .. 3}} : Accepted(p)}
=============================================================================
