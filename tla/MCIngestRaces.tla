--------------------------- MODULE MCIngestRaces ---------------------------
(***************************************************************************)
(* A small instance of IngestRaces; the constants are given in the cfg.    *)
(***************************************************************************)
EXTENDS IngestRaces, TLC

Symmetry == Permutations(Workers) \cup Permutations(AnimeIds)
            \cup Permutations(Genres)
=============================================================================
