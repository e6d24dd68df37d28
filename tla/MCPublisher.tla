---------------------------- MODULE MCPublisher ----------------------------
(***************************************************************************)
(* Small instances of Publisher: sequences cannot be written in a cfg.     *)
(***************************************************************************)
EXTENDS Publisher, TLC

CONSTANTS c1, c2

Symmetry == Permutations(TriggerRuns)

One == <<c1>>

Two == <<c1, c2>>

\* Telegram takes every post but those of the oldest anime.
OldestRefused == {1} \X {c1}

=============================================================================
