----------------------------- MODULE MCDeepLink -----------------------------
(***************************************************************************)
(* A small instance of DeepLink: an announcement with two episodes, and    *)
(* another one with a batch of two.                                        *)
(***************************************************************************)
EXTENDS DeepLink, TLC

CONSTANTS f1, f2, l1, l2, l3

MCAnnouncement == (f1 :> 7) @@ (f2 :> 8)
MCSeason == (f1 :> 1) @@ (f2 :> 0)
MCLinksOf == (f1 :> <<l1, l2>>) @@ (f2 :> <<l3>>)
MCLabel == (l1 :> 1) @@ (l2 :> 2) @@ (l3 :> Batch)
MCDelivers == (l1 :> {<<1, 1>>}) @@ (l2 :> {<<0, 2>>}) @@ (l3 :> {<<0, 1001>>, <<1, 1>>})
MCBehind == (l1 :> {<<1, 1>>, <<1, 2>>}) @@ (l2 :> {<<0, 2>>}) @@ (l3 :> {<<1, 1>>})

Watch == [kind |-> "watch", number |-> 0]
Button(kind, number) == [kind |-> kind, number |-> number]

\* One with a way on and the first episode, and one with a season whose number
\* is that of an episode.
MCMenus == {<<Watch, Button("episode", 1)>>, <<Button("season", 1), Button("episode", 2)>>}

\* The second page of a list: the first episode is not there.
SecondPage == {<<Button("episode", 2)>>}
=============================================================================
