------------------------- MODULE MCIndexerProgress -------------------------
(***************************************************************************)
(* The Go plan of three document shards: three document units, then the    *)
(* three pairs of shards, with an assembly after each phase.               *)
(***************************************************************************)
EXTENDS IndexerProgress

MCBoundaries == {3, N}
=============================================================================
