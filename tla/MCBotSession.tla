---------------------------- MODULE MCBotSession ----------------------------
(***************************************************************************)
(* Small instances of BotSession.                                          *)
(***************************************************************************)
EXTENDS BotSession, TLC

Symmetry == Permutations(Bots) \cup Permutations(Handlers)
\* No call of the API fails.
ReliableSpec ==
    Init /\ [][Next /\ ~\E h \in Handlers :
                          TouchFails(h) \/ SetLanguageFails(h) \/ ToggleFails(h)]_vars
=============================================================================
