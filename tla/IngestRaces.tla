---------------------------- MODULE IngestRaces ----------------------------
(***************************************************************************)
(* What module Ingest promises when several announcements are imported at  *)
(* a time.  UpsertAnime reads the row of its title, and SetGenres the      *)
(* genres of its anime, and both write from what they have read: what they *)
(* promise holds unless another request has written in between.            *)
(*                                                                         *)
(* Two history variables record that; no step of Ingest reads them.        *)
(***************************************************************************)
EXTENDS Ingest

CONSTANT Contested   \* stands for the entry of a title that was raced for

ASSUME ContestedIsNoEntry ==
    /\ Contested # NULL
    /\ Contested \notin [details: Details \cup {NULL}, published: BOOLEAN]

VARIABLES
    overtaken,    \* the workers whose read another request has overtaken
    raced         \* the titles that an overtaken request has written

history == <<overtaken, raced>>

RInit == Init /\ overtaken = {} /\ raced = {}

\* The title was looked up and is still to be written.
Before == {"findStudio", "insertStudio", "writeAnime"}

Moved(w) == pc'[w] # pc[w]

\* The request of v writes the row of its title.
WritesTitle(v) == pc[v] = "writeAnime" /\ Moved(v) /\ animes' # animes

Overtakes(v, w) ==
    /\ v # w
    /\ \/ /\ pc[w] \in Before
          /\ WritesTitle(v) /\ req[v].title = req[w].title
       \/ /\ pc[w] = "commitGenres"
          /\ CommitGenres(v) /\ req[v].id = req[w].id

Track ==
    /\ overtaken' = {w \in Workers :
           /\ pc'[w] \in Before \cup {"commitGenres"}
           /\ w \in overtaken \/ \E v \in Workers : Overtakes(v, w)}
    /\ raced' = raced \cup {req[w].title : w \in {v \in overtaken : WritesTitle(v)}}

RNext == Next /\ Track

RSpec == RInit /\ [][RNext]_<<vars, history>>

-----------------------------------------------------------------------------
\* Announcements of one title, from whatever channel, merge into one live row
\* (the comment at ingest.go:55-58), however many requests run at a time,
\* unless one of them was overtaken: another one wrote the title after this one
\* had looked it up and before it wrote.
TitlesUniqueUnlessRaced ==
    \A i, j \in AnimeIds :
        /\ i # j
        /\ LiveAnime(i)
        /\ LiveAnime(j)
        /\ animes[i].title = animes[j].title
        => animes[i].title \in raced

\* "so it doesn't blank out richer metadata set by an earlier announcement
\* post" (ingest.go:118-120): a merged column that holds a value loses it, and a
\* published anime is withdrawn, only by a request that was overtaken.
Blanked(i) ==
    \/ animes[i].details # NULL /\ animes'[i].details = NULL
    \/ animes[i].poster # NULL /\ animes'[i].poster = NULL
    \/ animes[i].published /\ ~animes'[i].published

BlankedOnlyIfOvertaken ==
    [][\A i \in AnimeIds : AnimeExists(i) /\ Blanked(i) =>
          \E w \in overtaken :
              pc[w] = "writeAnime" /\ Moved(w) /\ req[w].id = i]_vars

\* The comment taken at its word, whatever the requests do at a time.
NothingBlanked == [][\A i \in AnimeIds : AnimeExists(i) => ~Blanked(i)]_vars

\* The genres of two announcements mix only if their SetGenres transactions
\* overlap (anime_repo.go:145-162): one that is not overtaken between its DELETE
\* and its commit leaves its own genres and no others, those of a mixture
\* included.
GenresMixOnlyIfOvertaken ==
    [][\A i \in AnimeIds : tags'[i] # tags[i] =>
          \E w \in Workers : /\ pc[w] = "commitGenres" /\ Moved(w)
                             /\ req[w].id = i
                             /\ w \in overtaken \/ tags'[i] = req[w].genres]_vars

\* What the catalogue promises of one title: module Catalog.
ListedEntry(t) ==
    IF t \in raced
    THEN Contested
    ELSE IF TitleMatches(t) = {}
    THEN NULL
    ELSE LET i == CHOOSE i \in TitleMatches(t) : TRUE
         IN  [details |-> animes[i].details, published |-> animes[i].published]

Abstract == INSTANCE Catalog WITH entry <- [t \in Titles |-> ListedEntry(t)]

\* The requests implement the catalogue of module Catalog, whose posts are one
\* step: a title that no overtaken request has written is one entry, changed by
\* merging and by removal only, whatever happens to the other titles.
RefinesCatalog == Abstract!Spec
=============================================================================
