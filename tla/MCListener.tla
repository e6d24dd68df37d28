----------------------------- MODULE MCListener -----------------------------
(***************************************************************************)
(* Small instances of Listener: a text is a record, which a cfg cannot     *)
(* write.                                                                  *)
(***************************************************************************)
EXTENDS Listener, TLC

CONSTANTS t1, n1, n2

Video(n) == [kind |-> "episode", title |-> t1, numbers |-> {n}]

\* Videos, and a post with a picture that links to an episode.
Mixed == {Video(n1), Video(n2), [kind |-> "poster", title |-> t1, numbers |-> {n1}]}

\* A video, and a text that links to another episode and brings that video.
Misled == {Video(n2), [kind |-> "announcement", title |-> t1, numbers |-> {n1}]}

\* A video that is made one to be skipped.
Skipped == {Video(n1), [kind |-> "other", title |-> t1, numbers |-> {}]}

\* Where the copies are the messages they have an order.
Symmetry == Permutations(Handlers) \cup Permutations(AnimeIds) \cup Permutations(Rows)
            \cup IF SourceIsStorage THEN {} ELSE Permutations(Copies)
=============================================================================
