---------------------------- MODULE MCEngineCrews ----------------------------
(* An instance of EngineCrews, so that one run looks at a single worker and at *)
(* two of them.                                                               *)
EXTENDS MCActionEngine, EngineCrews

MCCrews == {{w1}, {w1, w2}}
=============================================================================
