------------------------------ MODULE MCBrowse ------------------------------
(***************************************************************************)
(* A small instance of Browse.  Anime 1 has the episodes.                  *)
(***************************************************************************)
EXTENDS Browse, TLC

CONSTANTS q1, q2, g1

MCOwner == [e \in Episodes |-> 1]
MCMatches == (q1 :> Animes) @@ (q2 :> {1})
MCTagged == g1 :> {2}

Start(score, seasons, season, number, favorites, seen) ==
    [score |-> score, seasons |-> <<seasons, {}>>, season |-> season,
     number |-> number, favs |-> favorites, history |-> seen]

\* No seasons, one, two, one of two without episodes, some episodes without a
\* season; two copies of episode 1; animes that are equally popular.
MCStarts ==
    {Start(<<0, 0>>, {}, <<0, 0, 0>>, <<1, 2, 3>>, <<>>, <<>>),
     Start(<<0, 1>>, {1}, <<1, 1, 1>>, <<1, 2, 3>>, <<1>>, <<>>),
     Start(<<0, 1>>, {1, 2}, <<1, 1, 2>>, <<1, 2, 1>>, <<2, 1>>, <<2, 1>>),
     Start(<<0, 1>>, {1, 2}, <<1, 1, 0>>, <<1, 2, 3>>, <<>>, <<>>),
     Start(<<0, 1>>, {1}, <<1, 1, 0>>, <<1, 2, 3>>, <<>>, <<>>),
     Start(<<0, 1>>, {}, <<0, 0, 0>>, <<1, 1, 2>>, <<>>, <<>>)}
=============================================================================
