------------------------------- MODULE Ingest -------------------------------
(***************************************************************************)
(* The write side of the core API: POST /api/v1/anime and                  *)
(* /api/v1/episodes (IngestService.UpsertAnime and UpsertEpisode), the     *)
(* two soft deletes, and the registration of source channels, over the     *)
(* Postgres tables animes, episodes, seasons, studios, genres,             *)
(* anime_genres and source_channels.                                       *)
(*                                                                         *)
(* A request is served by a worker (one goroutine of the HTTP server).     *)
(* The services open no transaction around their statements, so every SQL  *)
(* statement is one step and other requests run in between.  A request     *)
(* may be cut off after any statement: the 15 s timeout of the router, a   *)
(* client that hangs up, a failed statement or a crash of the process.     *)
(*                                                                         *)
(* Simplifications.  The columns that UpsertAnime merges with "the new     *)
(* value if there is one, else the stored one" (English and Japanese       *)
(* titles, synopses, year, duration, studio, kind, status) behave alike    *)
(* and are one column, details; the two poster columns are one column.     *)
(* Quality and language are part of the episode number, as both belong to  *)
(* the same unique index.  Studios and genres are rows of one table of     *)
(* names: both repositories run the same two statements.                   *)
(***************************************************************************)
EXTENDS Naturals, FiniteSets

CONSTANTS
    Workers,      \* concurrent requests the API serves
    AnimeIds,     \* bound on the rows of animes
    EpisodeIds,   \* bound on the rows of episodes
    Titles,       \* original titles, up to letter case
    Details,      \* values of the merged columns
    Posters,      \* (chat, message) pairs of stored posters
    Studios,      \* studio names
    Genres,       \* genre names
    Seasons,      \* season numbers; 0 means "no season info"
    Numbers,      \* (episode number, quality, language)
    Channels,     \* ids of source_channels rows
    Messages,     \* source_message_id values
    Storage,      \* message ids of the storage channel
    AutoPublish,  \* values AUTO_PUBLISH takes over the deployments
    NULL

ASSUME FiniteIds == IsFiniteSet(AnimeIds) /\ IsFiniteSet(EpisodeIds)
ASSUME SeasonsAreNumbers == Seasons \subseteq Nat
ASSUME AutoPublishIsFlag == AutoPublish \subseteq BOOLEAN
VARIABLES
    animes,       \* rows of animes; NULL where no row was created yet
    episodes,     \* rows of episodes; NULL where no row was created yet
    seasons,      \* rows of seasons: (anime, season number) pairs
    names,        \* names in studios and genres
    tags,         \* rows of anime_genres, as the set of genres of an anime
    channels,     \* per id of source_channels: "unused", "live" or "gone"
    pc, req       \* per worker: the next statement, the request and its locals

vars == <<animes, episodes, seasons, names, tags, channels, pc, req>>

-----------------------------------------------------------------------------
(* Rows and requests *)

AnimeRow ==
    [title: Titles, details: Details \cup {NULL}, poster: Posters \cup {NULL},
     count: Nat, published: BOOLEAN, deleted: BOOLEAN]

EpisodeRow ==
    [anime: AnimeIds, season: Seasons, number: Numbers, storage: Storage,
     channel: Channels \cup {NULL}, message: Messages, deleted: BOOLEAN]

\* UpsertAnimeInput, the row FindByTitle returned and the ids found so far.
AnimeRequest ==
    [title: Titles, channel: Channels, details: Details \cup {NULL},
     poster: Posters \cup {NULL}, auto: AutoPublish,
     studio: Studios \cup {NULL}, genres: SUBSET Genres,
     todo: SUBSET Genres, genre: Genres \cup {NULL}, cleared: SUBSET Genres,
     id: AnimeIds \cup {NULL}, existing: AnimeRow \cup {NULL}]

EpisodeRequest ==
    [anime: AnimeIds, season: Seasons, number: Numbers, storage: Storage,
     channel: Channels, message: Messages]

ASSUME NullIsNoValue ==
    /\ NULL \notin AnimeIds \cup Channels \cup Details \cup Posters
    /\ NULL \notin Studios \cup Genres
    /\ NULL \notin AnimeRow \cup EpisodeRow
    /\ NULL \notin AnimeRequest \cup EpisodeRequest
    /\ NULL \notin [details: Details \cup {NULL}, published: BOOLEAN]

AnimePCs == {"findTitle", "findStudio", "insertStudio", "writeAnime",
             "findGenre", "insertGenre", "clearGenres", "commitGenres"}
EpisodePCs == {"season", "insertEpisode", "refreshCount"}

TablesOK ==
    /\ animes \in [AnimeIds -> AnimeRow \cup {NULL}]
    /\ episodes \in [EpisodeIds -> EpisodeRow \cup {NULL}]
    /\ seasons \subseteq AnimeIds \X Seasons
    /\ names \subseteq Studios \cup Genres
    /\ tags \in [AnimeIds -> SUBSET Genres]
    /\ channels \in [Channels -> {"unused", "live", "gone"}]

RequestOK(label, r) ==
    /\ label = "idle" => r = NULL
    /\ label \in AnimePCs => r \in AnimeRequest
    /\ label \in {"findStudio", "insertStudio"} => r.studio # NULL
    /\ label = "insertGenre" => r.genre # NULL
    /\ label \in EpisodePCs => r \in EpisodeRequest

TypeOK ==
    /\ TablesOK
    /\ pc \in [Workers -> {"idle"} \cup AnimePCs \cup EpisodePCs]
    /\ req \in [Workers -> AnimeRequest \cup EpisodeRequest \cup {NULL}]
    /\ \A w \in Workers : RequestOK(pc[w], req[w])

Init ==
    /\ animes = [i \in AnimeIds |-> NULL]
    /\ episodes = [e \in EpisodeIds |-> NULL]
    /\ seasons = {}
    /\ names = {}
    /\ tags = [i \in AnimeIds |-> {}]
    /\ channels = [c \in Channels |-> "unused"]
    /\ pc = [w \in Workers |-> "idle"]
    /\ req = [w \in Workers |-> NULL]

AnimeExists(i) == animes[i] # NULL
EpisodeExists(e) == episodes[e] # NULL
LiveAnime(i) == AnimeExists(i) /\ ~animes[i].deleted
LiveEpisode(e) == EpisodeExists(e) /\ ~episodes[e].deleted

Goto(w, label) == pc' = [pc EXCEPT ![w] = label]

\* Fault: the worker is taken for busy although its request is gone.
FinishKeepsPC(w) == /\ UNCHANGED pc
                    /\ req' = [req EXCEPT ![w] = NULL]

\* The reply is sent, with an error or without one.
Finish(w) == /\ Goto(w, "idle")
             /\ req' = [req EXCEPT ![w] = NULL]

-----------------------------------------------------------------------------
(* UpsertAnime *)

StartUpsertAnime(w) ==
    /\ pc[w] = "idle"
    /\ \E t \in Titles, c \in Channels, d \in Details \cup {NULL},
          p \in Posters \cup {NULL}, a \in AutoPublish,
          s \in Studios \cup {NULL}, g \in SUBSET Genres :
          req' = [req EXCEPT ![w] =
                    [title |-> t, channel |-> c, details |-> d, poster |-> p,
                     auto |-> a, studio |-> s, genres |-> g, todo |-> g,
                     genre |-> NULL, cleared |-> {}, id |-> NULL,
                     existing |-> NULL]]
    /\ Goto(w, "findTitle")
    /\ UNCHANGED <<animes, episodes, seasons, names, tags, channels>>

\* Fault: only published rows are looked up.
TitleMatchesPublished(t) ==
    {i \in AnimeIds : /\ LiveAnime(i)
                      /\ animes[i].title = t
                      /\ animes[i].published}

\* SELECT ... WHERE lower(title_original) = lower($1) AND NOT is_deleted
\* LIMIT 1, without an ORDER BY.
TitleMatches(t) ==
    {i \in AnimeIds : LiveAnime(i) /\ animes[i].title = t}

FindByTitle(w) ==
    /\ pc[w] = "findTitle"
    /\ \/ /\ TitleMatches(req[w].title) = {}
          /\ UNCHANGED req
       \/ \E i \in TitleMatches(req[w].title) :
             req' = [req EXCEPT ![w].id = i, ![w].existing = animes[i]]
    /\ Goto(w, IF req[w].studio = NULL THEN "writeAnime" ELSE "findStudio")
    /\ UNCHANGED <<animes, episodes, seasons, names, tags, channels>>

\* FindOrCreateByName is a SELECT and, when it finds nothing, an INSERT into
\* a table whose name column is unique: the INSERT fails when another request
\* added the name in between.
InsertName(w, n) ==
    /\ n \notin names
    /\ names' = names \cup {n}

UniqueViolation(w, n) ==
    /\ n \in names
    /\ Finish(w)
    /\ UNCHANGED names

FindStudio(w) ==
    /\ pc[w] = "findStudio"
    /\ Goto(w, IF req[w].studio \in names THEN "writeAnime"
               ELSE "insertStudio")
    /\ UNCHANGED <<animes, episodes, seasons, names, tags, channels, req>>

InsertStudio(w) ==
    /\ pc[w] = "insertStudio"
    /\ \/ /\ InsertName(w, req[w].studio)
          /\ Goto(w, "writeAnime")
          /\ UNCHANGED req
       \/ UniqueViolation(w, req[w].studio)
    /\ UNCHANGED <<animes, episodes, seasons, tags, channels>>

\* Without genres the request only reads the row back.
AfterWrite(w, id) ==
    IF req[w].genres = {}
    THEN Finish(w)
    ELSE /\ Goto(w, "findGenre")
         /\ req' = [req EXCEPT ![w].id = id]

\* The INSERT names neither poster column, and the count is that of a fresh
\* domain.Anime.
CreateAnime(w) ==
    /\ pc[w] = "writeAnime"
    /\ req[w].existing = NULL
    /\ \/ /\ channels[req[w].channel] = "live"
          /\ \E i \in AnimeIds :
                /\ ~AnimeExists(i)
                /\ animes' = [animes EXCEPT ![i] =
                     [title |-> req[w].title, details |-> req[w].details,
                      poster |-> NULL, count |-> 0,
                      published |-> req[w].auto, deleted |-> FALSE]]
                /\ AfterWrite(w, i)
       \/ /\ channels[req[w].channel] # "live"   \* foreign key violation
          /\ Finish(w)
          /\ UNCHANGED animes
    /\ UNCHANGED <<episodes, seasons, names, tags, channels>>

\* Fault: the input overwrites.
Overwrite(new, old) == new

Merge(new, old) == IF new = NULL THEN old ELSE new

\* Fault: the whole row that was read is written back.
MergedRowWholeRow(r, now) ==
    [r.existing EXCEPT !.details = Merge(r.details, r.existing.details),
                       !.poster = Merge(r.poster, r.existing.poster),
                       !.count = 0,
                       !.published = r.existing.published \/ r.auto]

\* Fault: the published flag is taken from the input.
MergedRowInputFlag(r, now) ==
    [now EXCEPT !.details = Merge(r.details, r.existing.details),
                !.poster = Merge(r.poster, r.existing.poster),
                !.count = 0,
                !.published = r.auto]

\* The row FindByTitle read, merged with the input; the episode count is not
\* merged and is_deleted is not written.
MergedRow(r, now) ==
    [now EXCEPT !.details = Merge(r.details, r.existing.details),
                !.poster = Merge(r.poster, r.existing.poster),
                !.count = 0,
                !.published = r.existing.published \/ r.auto]

UpdateAnime(w) ==
    /\ pc[w] = "writeAnime"
    /\ req[w].existing # NULL
    /\ animes' = [animes EXCEPT ![req[w].id] = MergedRow(req[w], @)]
    /\ AfterWrite(w, req[w].id)
    /\ UNCHANGED <<episodes, seasons, names, tags, channels>>

\* The genres of the request are resolved one by one.
AfterGenre(r) == IF r.todo = {} THEN "clearGenres" ELSE "findGenre"

FindGenre(w) ==
    /\ pc[w] = "findGenre"
    /\ \E g \in req[w].todo :
          /\ req' = [req EXCEPT ![w].todo = @ \ {g}, ![w].genre = g]
          /\ Goto(w, IF g \in names THEN AfterGenre(req'[w])
                     ELSE "insertGenre")
    /\ UNCHANGED <<animes, episodes, seasons, names, tags, channels>>

InsertGenre(w) ==
    /\ pc[w] = "insertGenre"
    /\ \/ /\ InsertName(w, req[w].genre)
          /\ Goto(w, AfterGenre(req[w]))
          /\ UNCHANGED req
       \/ UniqueViolation(w, req[w].genre)
    /\ UNCHANGED <<animes, episodes, seasons, tags, channels>>

\* SetGenres runs its DELETE and its INSERTs in one READ COMMITTED
\* transaction: the DELETE takes the rows committed when it starts, and the
\* transaction's effect appears at its commit.  Of two such transactions one
\* waits for the other's rows; it skips those the other has deleted, and does
\* not see what the other has inserted in their place.
Skips(v, i, gone) ==
    IF pc[v] = "commitGenres" /\ req[v].id = i
    THEN [req[v] EXCEPT !.cleared = @ \ gone]
    ELSE req[v]

ClearGenres(w) ==
    /\ pc[w] = "clearGenres"
    /\ req' = [req EXCEPT ![w].cleared = tags[req[w].id]]
    /\ Goto(w, "commitGenres")
    /\ UNCHANGED <<animes, episodes, seasons, names, tags, channels>>

CommitGenres(w) ==
    /\ pc[w] = "commitGenres"
    /\ tags' = [tags EXCEPT ![req[w].id] =
                  (@ \ req[w].cleared) \cup req[w].genres]
    /\ req' = [v \in Workers |->
                  IF v = w THEN NULL ELSE Skips(v, req[w].id, req[w].cleared)]
    /\ Goto(w, "idle")
    /\ UNCHANGED <<animes, episodes, seasons, names, channels>>

-----------------------------------------------------------------------------
(* UpsertEpisode *)

StartUpsertEpisode(w) ==
    /\ pc[w] = "idle"
    /\ \E i \in AnimeIds, s \in Seasons, n \in Numbers, st \in Storage,
          c \in Channels, m \in Messages :
          /\ AnimeExists(i)
          /\ req' = [req EXCEPT ![w] =
                       [anime |-> i, season |-> s, number |-> n,
                        storage |-> st, channel |-> c, message |-> m]]
          /\ Goto(w, IF s = 0 THEN "insertEpisode" ELSE "season")
    /\ UNCHANGED <<animes, episodes, seasons, names, tags, channels>>

\* INSERT ... ON CONFLICT DO UPDATE: finds or creates in one statement.
FindOrCreateSeason(w) ==
    /\ pc[w] = "season"
    /\ seasons' = seasons \cup {<<req[w].anime, req[w].season>>}
    /\ Goto(w, "insertEpisode")
    /\ UNCHANGED <<animes, episodes, names, tags, channels, req>>

\* Fault: a partial unique index, over the rows that are not deleted.
SameContentLive(r) ==
    {e \in EpisodeIds :
        /\ LiveEpisode(e)
        /\ episodes[e].anime = r.anime
        /\ episodes[e].season = r.season
        /\ episodes[e].number = r.number}

\* The rows the request collides with in idx_episodes_dedup (deleted rows
\* included) and in idx_episodes_source_dedup.
SameContent(r) ==
    {e \in EpisodeIds :
        /\ EpisodeExists(e)
        /\ episodes[e].anime = r.anime
        /\ episodes[e].season = r.season
        /\ episodes[e].number = r.number}

SameSource(c, m) ==
    {e \in EpisodeIds : /\ EpisodeExists(e)
                        /\ episodes[e].channel = c
                        /\ episodes[e].message = m}

\* ON CONFLICT (content key) DO UPDATE sets the storage message and nothing
\* else; a collision of the source key alone, or a source channel that is
\* gone, is an error.
InsertEpisode(w) ==
    /\ pc[w] = "insertEpisode"
    /\ LET r == req[w] IN
       \/ \E e \in SameContent(r) :
             /\ episodes' = [episodes EXCEPT ![e].storage = r.storage]
             /\ Goto(w, "refreshCount")
             /\ UNCHANGED req
       \/ /\ SameContent(r) = {}
          /\ SameSource(r.channel, r.message) = {}
          /\ channels[r.channel] = "live"
          /\ \E e \in EpisodeIds :
                /\ ~EpisodeExists(e)
                /\ episodes' = [episodes EXCEPT ![e] =
                     [anime |-> r.anime, season |-> r.season,
                      number |-> r.number, storage |-> r.storage,
                      channel |-> r.channel, message |-> r.message,
                      deleted |-> FALSE]]
          /\ Goto(w, "refreshCount")
          /\ UNCHANGED req
       \/ /\ SameContent(r) = {}
          /\ \/ SameSource(r.channel, r.message) # {}
             \/ channels[r.channel] # "live"
          /\ Finish(w)
          /\ UNCHANGED episodes
    /\ UNCHANGED <<animes, seasons, names, tags, channels>>

LiveEpisodes(i) == {e \in EpisodeIds : LiveEpisode(e) /\ episodes[e].anime = i}

RefreshCount(w) ==
    /\ pc[w] = "refreshCount"
    /\ LET i == req[w].anime IN
       animes' = [animes EXCEPT ![i].count = Cardinality(LiveEpisodes(i))]
    /\ Finish(w)
    /\ UNCHANGED <<episodes, seasons, names, tags, channels>>

-----------------------------------------------------------------------------
(* Requests of a single statement, and requests that are cut off *)

\* UPDATE episodes SET is_deleted: the anime's count is not refreshed.
SoftDeleteBySource(c, m) ==
    /\ episodes' = [e \in EpisodeIds |->
                      IF e \in SameSource(c, m)
                      THEN [episodes[e] EXCEPT !.deleted = TRUE]
                      ELSE episodes[e]]
    /\ UNCHANGED <<animes, seasons, names, tags, channels, pc, req>>

\* Fault: DELETE FROM animes.
HardDeleteAnime(i) ==
    /\ AnimeExists(i)
    /\ animes' = [animes EXCEPT ![i] = NULL]
    /\ UNCHANGED <<episodes, seasons, names, tags, channels, pc, req>>

\* The episodes of the anime keep is_deleted = false.
SoftDeleteAnime(i) ==
    /\ AnimeExists(i)
    /\ animes' = [animes EXCEPT ![i].deleted = TRUE]
    /\ UNCHANGED <<episodes, seasons, names, tags, channels, pc, req>>

\* A channel registered again gets a new id.
CreateSourceChannel(c) ==
    /\ channels[c] = "unused"
    /\ channels' = [channels EXCEPT ![c] = "live"]
    /\ UNCHANGED <<animes, episodes, seasons, names, tags, pc, req>>

\* Fault: ON DELETE CASCADE.
DeleteSourceChannelCascade(c) ==
    /\ channels[c] = "live"
    /\ channels' = [channels EXCEPT ![c] = "gone"]
    /\ episodes' = [e \in EpisodeIds |->
                      IF EpisodeExists(e) /\ episodes[e].channel = c
                      THEN NULL
                      ELSE episodes[e]]
    /\ UNCHANGED <<animes, seasons, names, tags, pc, req>>

\* ON DELETE SET NULL unlinks the episodes of the channel.
DeleteSourceChannel(c) ==
    /\ channels[c] = "live"
    /\ channels' = [channels EXCEPT ![c] = "gone"]
    /\ episodes' = [e \in EpisodeIds |->
                      IF EpisodeExists(e) /\ episodes[e].channel = c
                      THEN [episodes[e] EXCEPT !.channel = NULL]
                      ELSE episodes[e]]
    /\ UNCHANGED <<animes, seasons, names, tags, pc, req>>

Abort(w) ==
    /\ pc[w] # "idle"
    /\ Finish(w)
    /\ UNCHANGED <<animes, episodes, seasons, names, tags, channels>>

-----------------------------------------------------------------------------
UpsertAnime(w) ==
    \/ StartUpsertAnime(w) \/ FindByTitle(w)
    \/ FindStudio(w) \/ InsertStudio(w)
    \/ CreateAnime(w) \/ UpdateAnime(w)
    \/ FindGenre(w) \/ InsertGenre(w) \/ ClearGenres(w) \/ CommitGenres(w)

UpsertEpisode(w) ==
    \/ StartUpsertEpisode(w) \/ FindOrCreateSeason(w)
    \/ InsertEpisode(w) \/ RefreshCount(w)

Next ==
    \/ \E w \in Workers : UpsertAnime(w) \/ UpsertEpisode(w) \/ Abort(w)
    \/ \E c \in Channels, m \in Messages : SoftDeleteBySource(c, m)
    \/ \E i \in AnimeIds : SoftDeleteAnime(i)
    \/ \E c \in Channels : CreateSourceChannel(c) \/ DeleteSourceChannel(c)

Spec == Init /\ [][Next]_vars

-----------------------------------------------------------------------------
(* Properties of every deployment *)

\* The rows a request found or was given stay in the tables, deleted or not,
\* until the request has used their ids: its later statements write to the
\* row it means, and an episode always belongs to an anime.
Refers(label, r) ==
    /\ label \in AnimePCs /\ r.existing # NULL
       => r.id \in AnimeIds /\ AnimeExists(r.id)
    /\ label \in {"findGenre", "insertGenre", "clearGenres", "commitGenres"}
       => r.id \in AnimeIds /\ AnimeExists(r.id)
    /\ label \in EpisodePCs => AnimeExists(r.anime)

RequestsReferToRows ==
    /\ \A w \in Workers : Refers(pc[w], req[w])
    /\ \A e \in EpisodeIds : EpisodeExists(e) => AnimeExists(episodes[e].anime)

\* No two rows stand for the same episode, and no two rows come from the same
\* message of the same source channel, deleted rows included: the two unique
\* indexes of episodes hold although the INSERT resolves a collision of only
\* one of them and the deletion of a channel rewrites the other.
EpisodeKeysUnique ==
    \A d, e \in EpisodeIds :
        /\ d # e
        /\ EpisodeExists(d)
        /\ EpisodeExists(e)
        => /\ \/ episodes[d].anime # episodes[e].anime
              \/ episodes[d].season # episodes[e].season
              \/ episodes[d].number # episodes[e].number
           /\ \/ episodes[d].channel = NULL
              \/ episodes[d].channel # episodes[e].channel
              \/ episodes[d].message # episodes[e].message

\* An episode id, which watch histories and the buttons of sent messages
\* refer to, stands for the same episode of the same message for ever; at
\* most its link to the source channel is cut.
SameEpisode(old, new) ==
    /\ new # NULL
    /\ new.anime = old.anime
    /\ new.season = old.season
    /\ new.number = old.number
    /\ new.message = old.message
    /\ new.channel \in {old.channel, NULL}

EpisodeIdentityStable ==
    [][\A e \in EpisodeIds :
          EpisodeExists(e) => SameEpisode(episodes[e], episodes'[e])]_vars

\* What was deleted stays deleted, whatever requests that read the row
\* before the deletion write afterwards.
DeletesStick ==
    [][/\ \A i \in AnimeIds :
             AnimeExists(i) /\ animes[i].deleted
             => animes'[i] # NULL /\ animes'[i].deleted
       /\ \A e \in EpisodeIds :
             EpisodeExists(e) /\ episodes[e].deleted
             => episodes'[e] # NULL /\ episodes'[e].deleted]_vars

-----------------------------------------------------------------------------
(* What holds unless requests overlap: module IngestRaces *)

\* Announcements of one title, from whatever channel, merge into one live row:
\* "so the same anime scraped from several channels merges into one catalog
\* entry instead of duplicating" (ingest.go:55-58).
TitlesUnique ==
    \A i, j \in AnimeIds :
        /\ i # j
        /\ LiveAnime(i)
        /\ LiveAnime(j)
        => animes[i].title # animes[j].title
=============================================================================
