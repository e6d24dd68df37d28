------------------------------ MODULE Catalog ------------------------------
(***************************************************************************)
(* What the ingest API promises: one catalogue entry per original title.   *)
(* An announcement or an episode post creates the entry of its title or is *)
(* merged into it in one step; an admin removes an entry.  An entry that   *)
(* two posts raced for is contested, and nothing more is promised of it.   *)
(* Module IngestRaces implements this specification.                       *)
(***************************************************************************)
CONSTANTS Titles, Details, AutoPublish, NULL, Contested

VARIABLE entry      \* per title: its listed entry, NULL without one

Init == entry = [t \in Titles |-> NULL]

\* A post without details leaves those of an earlier one; publishing is
\* never taken back.
Merged(old, d, auto) ==
    IF old = NULL
    THEN [details |-> d, published |-> auto]
    ELSE [details |-> IF d = NULL THEN old.details ELSE d,
          published |-> old.published \/ auto]

Post(t, d, auto) == /\ entry[t] # Contested
                    /\ entry' = [entry EXCEPT ![t] = Merged(@, d, auto)]

Remove(t) == /\ entry[t] \notin {NULL, Contested}
             /\ entry' = [entry EXCEPT ![t] = NULL]

Contest(t) == entry' = [entry EXCEPT ![t] = Contested]

Next == \E t \in Titles :
           \/ \E d \in Details \cup {NULL}, auto \in AutoPublish : Post(t, d, auto)
           \/ Remove(t)
           \/ Contest(t)

Spec == Init /\ [][Next]_entry
=============================================================================
