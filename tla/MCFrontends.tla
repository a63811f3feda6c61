---------------------------- MODULE MCFrontends ----------------------------
(* An instance of Frontends.                                                 *)
EXTENDS Frontends, MCMemberRecord

\* Levels that leave their positions to the code, and a first level that asks
\* for the position of the second.
MCAskings == {<<0, 0>>, <<2, 0>>}

Command(name, body, type, nsfw) == [name |-> name, def |-> [body |-> body, type |-> type, nsfw |-> nsfw]]

\* Two releases: the second writes the defaults of the first command out, and
\* has a second command.
MCReleases ==
    {{Command(1, "a", 0, "unset")},
     {Command(1, "b", 0, "no"), Command(2, "a", 1, "unset")}}
=============================================================================
