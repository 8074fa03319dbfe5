------------------------- MODULE MCShapeScheduler -------------------------
(* Two classes share one bucket, and two streams carry them. *)
EXTENDS ShapeScheduler, TLC

CONSTANTS s1, s2, audio, video, link

MCUnlimited == -1
MCBucketOf  == (audio :> link) @@ (video :> link)
MCPriority  == (audio :> 2) @@ (video :> 1)
MCWeight    == (audio :> 2) @@ (video :> 1)
MCRate      == (link :> 1)
MCBurst     == (link :> 1)

Symmetric == Permutations(Streams)
=============================================================================
