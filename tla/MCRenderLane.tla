---------------------------- MODULE MCRenderLane ----------------------------
(* A small instance of RenderLane: three requests of one key at different  *)
(* priorities and distances, one of which cannot be cancelled, and one of  *)
(* interaction that shares with nobody.                                    *)
EXTENDS RenderLane, TLC

CONSTANTS r1, r2, r3, r4, k1

MCKeyOf == r1 :> k1 @@ r2 :> k1 @@ r3 :> k1 @@ r4 :> NoKey
MCPriority == r1 :> 2 @@ r2 :> 1 @@ r3 :> 1 @@ r4 :> 0
MCDistance == r1 :> 0 @@ r2 :> 1 @@ r3 :> 0 @@ r4 :> 0
=============================================================================
