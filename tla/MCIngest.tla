------------------------------ MODULE MCIngest ------------------------------
(***************************************************************************)
(* Small instances of Ingest: the constants are given in the cfg files.    *)
(***************************************************************************)
EXTENDS Ingest, TLC

Symmetry == Permutations(Workers) \cup Permutations(AnimeIds)
            \cup Permutations(EpisodeIds) \cup Permutations(Channels)
            \cup Permutations(Messages) \cup Permutations(Genres)
=============================================================================
