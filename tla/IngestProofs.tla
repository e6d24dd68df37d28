---------------------------- MODULE IngestProofs ----------------------------
(***************************************************************************)
(* Proofs about modules Ingest and, from SameMetadata on, IngestRaces, for *)
(* all values of their constants and any number of overlapping requests.   *)
(***************************************************************************)
EXTENDS IngestRaces, FiniteSetTheorems, TLAPS

-----------------------------------------------------------------------------
(* The number of live episodes is a number: EpisodeIds is finite. *)
LEMMA LiveEpisodesFinite ==
    ASSUME NEW i
    PROVE  Cardinality(LiveEpisodes(i)) \in Nat
<1>1. LiveEpisodes(i) \subseteq EpisodeIds
  BY DEF LiveEpisodes
<1>2. IsFiniteSet(LiveEpisodes(i))
  BY <1>1, FS_Subset, FiniteIds
<1> QED
  BY <1>2, FS_CardinalityType

(* Merging a request into a row of animes gives a row of animes. *)
LEMMA MergedRowIsRow ==
    ASSUME NEW r \in AnimeRequest, NEW now \in AnimeRow, r.existing # NULL
    PROVE  MergedRow(r, now) \in AnimeRow
  BY DEF AnimeRequest, AnimeRow, MergedRow, Merge

(* The tables are well typed, and the requests in progress refer to rows. *)
IInv == TypeOK /\ RequestsReferToRows

LEMMA InitIInv == Init => IInv
<1> SUFFICES ASSUME Init PROVE IInv
  OBVIOUS
<1>1. TypeOK
  BY DEF Init, TypeOK, TablesOK, RequestOK, AnimePCs, EpisodePCs
<1>2. RequestsReferToRows
  BY DEF Init, RequestsReferToRows, Refers, AnimePCs, EpisodePCs, EpisodeExists
<1> QED
  BY <1>1, <1>2 DEF IInv

(* No row of animes goes away. *)
RowsKept == \A i \in AnimeIds : AnimeExists(i) => AnimeExists(i)'

EpisodesRefer ==
    \A e \in EpisodeIds : EpisodeExists(e) => AnimeExists(episodes[e].anime)

(* Only worker w moves. *)
Moves(w) == /\ pc' = [pc EXCEPT ![w] = pc'[w]]
            /\ req' = [req EXCEPT ![w] = req'[w]]

(* A step of one worker preserves the invariant if it preserves what the   *)
(* invariant says of the tables and establishes it for that worker.        *)
LEMMA WorkerStep ==
    ASSUME IInv, NEW w \in Workers, Moves(w),
           pc'[w] \in {"idle"} \cup AnimePCs \cup EpisodePCs,
           RequestOK(pc[w], req[w])', Refers(pc[w], req[w])',
           TablesOK', RowsKept, EpisodesRefer'
    PROVE  IInv'
<1>1. \A v \in Workers : v # w => pc'[v] = pc[v] /\ req'[v] = req[v]
  BY DEF Moves, IInv, TypeOK
<1>2. TypeOK'
  <2>1. req'[w] \in AnimeRequest \cup EpisodeRequest \cup {NULL}
    BY DEF RequestOK
  <2>2. \A v \in Workers : RequestOK(pc[v], req[v])'
    BY <1>1 DEF RequestOK, IInv, TypeOK
  <2> QED
    BY <2>1, <2>2 DEF Moves, IInv, TypeOK
<1>3. ASSUME NEW v \in Workers, v # w PROVE Refers(pc[v], req[v])'
  <2>1. RequestOK(pc[v], req[v]) /\ Refers(pc[v], req[v])
    BY DEF IInv, TypeOK, RequestsReferToRows
  <2> QED
    BY <1>1, <1>3, <2>1 DEF RequestOK, Refers, RowsKept, EpisodeRequest, AnimeExists
<1> QED
  BY <1>2, <1>3 DEF IInv, RequestsReferToRows, EpisodesRefer

(* The invariant of one worker. *)
LEMMA WorkerIInv ==
    ASSUME IInv, NEW w \in Workers
    PROVE  RequestOK(pc[w], req[w]) /\ Refers(pc[w], req[w])
  BY DEF IInv, TypeOK, RequestsReferToRows

(* A request that is answered, or cut off, writes nothing. *)
LEMMA FinishIInv ==
    ASSUME IInv, NEW w \in Workers, Finish(w),
           TablesOK', RowsKept, EpisodesRefer'
    PROVE  IInv'
<1>1. Moves(w) /\ pc'[w] = "idle" /\ req'[w] = NULL
  BY DEF Finish, Goto, Moves, IInv, TypeOK
<1>2. RequestOK(pc[w], req[w])' /\ Refers(pc[w], req[w])'
  BY <1>1 DEF RequestOK, Refers, AnimePCs, EpisodePCs
<1> QED
  BY <1>1, <1>2, WorkerStep

(* A step that leaves the tables alone. *)
LEMMA NoWrite ==
    ASSUME IInv, UNCHANGED <<animes, episodes, seasons, names, tags, channels>>
    PROVE  TablesOK' /\ RowsKept /\ EpisodesRefer'
  BY DEF IInv, TypeOK, TablesOK, RowsKept, EpisodesRefer, RequestsReferToRows,
         AnimeExists, EpisodeExists

(* A step that writes studios, genres, anime_genres or seasons. *)
LEMMA NoRowWrite ==
    ASSUME IInv, UNCHANGED <<animes, episodes, channels>>,
           seasons' \subseteq AnimeIds \X Seasons,
           names' \subseteq Studios \cup Genres,
           tags' \in [AnimeIds -> SUBSET Genres]
    PROVE  TablesOK' /\ RowsKept /\ EpisodesRefer'
  BY DEF IInv, TypeOK, TablesOK, RowsKept, EpisodesRefer, RequestsReferToRows,
         AnimeExists, EpisodeExists

(* A step that replaces one row of animes. *)
LEMMA AnimeWrite ==
    ASSUME IInv, NEW i \in AnimeIds, NEW row \in AnimeRow,
           animes' = [animes EXCEPT ![i] = row],
           UNCHANGED <<episodes, seasons, names, tags, channels>>
    PROVE  TablesOK' /\ RowsKept /\ EpisodesRefer' /\ AnimeExists(i)'
<1>1. row # NULL
  BY NullIsNoValue
<1> QED
  BY <1>1 DEF IInv, TypeOK, TablesOK, RowsKept, EpisodesRefer, RequestsReferToRows,
              AnimeExists, EpisodeExists, EpisodeRow

(* A step that replaces one row of episodes. *)
LEMMA EpisodeWrite ==
    ASSUME IInv, NEW e \in EpisodeIds, NEW row \in EpisodeRow, AnimeExists(row.anime),
           episodes' = [episodes EXCEPT ![e] = row],
           UNCHANGED <<animes, seasons, names, tags, channels>>
    PROVE  TablesOK' /\ RowsKept /\ EpisodesRefer'
  BY DEF IInv, TypeOK, TablesOK, RowsKept, EpisodesRefer, RequestsReferToRows,
         AnimeExists, EpisodeExists

(* A worker that goes on with UpsertAnime. *)
LEMMA AnimeRequestIInv ==
    ASSUME IInv, NEW w \in Workers, Moves(w), TablesOK', RowsKept, EpisodesRefer',
           pc'[w] \in AnimePCs, req'[w] \in AnimeRequest,
           pc'[w] \in {"findStudio", "insertStudio"} => req'[w].studio # NULL,
           pc'[w] = "insertGenre" => req'[w].genre # NULL,
           \/ req'[w].id \in AnimeIds /\ AnimeExists(req[w].id)'
           \/ /\ req'[w].existing = NULL
              /\ pc'[w] \in {"findTitle", "findStudio", "insertStudio", "writeAnime"}
    PROVE  IInv'
<1>1. RequestOK(pc[w], req[w])' /\ Refers(pc[w], req[w])'
  BY DEF RequestOK, Refers, AnimePCs, EpisodePCs
<1> QED
  BY <1>1, WorkerStep

(* After the row of the anime was written, the request goes on to the       *)
(* genres of that row or is answered.                                       *)
LEMMA AfterWriteIInv ==
    ASSUME IInv, NEW w \in Workers, NEW i \in AnimeIds, AfterWrite(w, i),
           req[w] \in AnimeRequest, AnimeExists(i)',
           TablesOK', RowsKept, EpisodesRefer'
    PROVE  IInv'
<1>1. CASE Finish(w)
  BY <1>1, FinishIInv
<1>2. CASE Goto(w, "findGenre") /\ req' = [req EXCEPT ![w].id = i]
  <2>1. /\ Moves(w)
        /\ pc'[w] = "findGenre"
        /\ req'[w] = [req[w] EXCEPT !.id = i]
    BY <1>2 DEF Goto, Moves, IInv, TypeOK
  <2>2. req'[w] \in AnimeRequest /\ req'[w].id = i
    BY <2>1 DEF AnimeRequest
  <2>3. AnimeExists(req[w].id)'
    BY <2>2
  <2> QED
    BY <2>1, <2>2, <2>3, AnimeRequestIInv DEF AnimePCs
<1> QED
  BY <1>1, <1>2 DEF AfterWrite

-----------------------------------------------------------------------------
(* UpsertAnime preserves the invariant. *)
LEMMA UpsertAnimeIInv ==
    ASSUME IInv, NEW w \in Workers, UpsertAnime(w)
    PROVE  IInv'
<1>0. /\ RequestOK(pc[w], req[w]) /\ Refers(pc[w], req[w])
      /\ TablesOK
      /\ pc \in [Workers -> {"idle"} \cup AnimePCs \cup EpisodePCs]
      /\ req \in [Workers -> AnimeRequest \cup EpisodeRequest \cup {NULL}]
  BY WorkerIInv DEF IInv, TypeOK
<1>1. CASE StartUpsertAnime(w)
  <2>1. Moves(w) /\ pc'[w] = "findTitle"
    BY <1>0, <1>1 DEF StartUpsertAnime, Goto, Moves
  <2>2. req'[w] \in AnimeRequest /\ req'[w].existing = NULL
    BY <1>0, <1>1, AutoPublishIsFlag DEF StartUpsertAnime, AnimeRequest
  <2> QED
    BY <1>1, <2>1, <2>2, NoWrite, AnimeRequestIInv DEF StartUpsertAnime, AnimePCs
<1>2. CASE FindByTitle(w)
  <2>1. req[w] \in AnimeRequest
    BY <1>0, <1>2 DEF FindByTitle, RequestOK, AnimePCs
  <2>2. /\ Moves(w)
        /\ pc'[w] \in {"writeAnime", "findStudio"}
        /\ pc'[w] = "findStudio" => req[w].studio # NULL
    BY <1>0, <1>2 DEF FindByTitle, Goto, Moves
  <2>3. TablesOK' /\ RowsKept /\ EpisodesRefer'
    BY <1>2, NoWrite DEF FindByTitle
  <2>4. CASE UNCHANGED req
    <3>1. \/ req[w].existing = NULL
          \/ req[w].id \in AnimeIds /\ AnimeExists(req[w].id)
      BY <1>0, <1>2 DEF FindByTitle, Refers, AnimePCs
    <3>2. \/ req'[w].existing = NULL
          \/ req'[w].id \in AnimeIds /\ AnimeExists(req[w].id)'
      BY <2>3, <2>4, <3>1 DEF RowsKept, AnimeExists
    <3> QED
      BY <2>1, <2>2, <2>3, <2>4, <3>2, AnimeRequestIInv DEF AnimePCs
  <2>5. ASSUME NEW i \in TitleMatches(req[w].title),
               req' = [req EXCEPT ![w].id = i, ![w].existing = animes[i]]
        PROVE  IInv'
    <3>1. i \in AnimeIds /\ animes[i] \in AnimeRow /\ AnimeExists(i)
      BY <1>0 DEF TitleMatches, LiveAnime, AnimeExists, TablesOK
    <3>2. req'[w] \in AnimeRequest /\ req'[w].id = i /\ req'[w].studio = req[w].studio
      BY <1>0, <2>1, <2>5, <3>1 DEF AnimeRequest
    <3>3. AnimeExists(req[w].id)'
      BY <2>3, <3>1, <3>2 DEF RowsKept, AnimeExists
    <3> QED
      BY <2>2, <2>3, <3>1, <3>2, <3>3, AnimeRequestIInv DEF AnimePCs
  <2> QED
    BY <1>2, <2>4, <2>5 DEF FindByTitle
<1>3. CASE FindStudio(w)
  <2>1. req[w] \in AnimeRequest /\ req[w].studio # NULL
    BY <1>0, <1>3 DEF FindStudio, RequestOK, AnimePCs
  <2>2. /\ Moves(w)
        /\ pc'[w] \in {"writeAnime", "insertStudio"}
        /\ UNCHANGED req
    BY <1>0, <1>3 DEF FindStudio, Goto, Moves
  <2>3. TablesOK' /\ RowsKept /\ EpisodesRefer'
    BY <1>3, NoWrite DEF FindStudio
  <2>4. \/ req'[w].existing = NULL
        \/ req'[w].id \in AnimeIds /\ AnimeExists(req[w].id)'
    BY <1>0, <1>3, <2>2, <2>3 DEF FindStudio, Refers, AnimePCs, RowsKept, AnimeExists
  <2> QED
    BY <2>1, <2>2, <2>3, <2>4, AnimeRequestIInv DEF AnimePCs
<1>4. CASE InsertStudio(w)
  <2>1. req[w] \in AnimeRequest /\ req[w].studio \in Studios
    BY <1>0, <1>4 DEF InsertStudio, RequestOK, AnimePCs, AnimeRequest
  <2>2. TablesOK' /\ RowsKept /\ EpisodesRefer'
    BY <1>0, <1>4, <2>1, NoRowWrite
       DEF InsertStudio, InsertName, UniqueViolation, TablesOK
  <2>3. CASE Finish(w)
    BY <2>2, <2>3, FinishIInv
  <2>4. CASE Goto(w, "writeAnime") /\ UNCHANGED req
    <3>1. Moves(w) /\ pc'[w] = "writeAnime"
      BY <1>0, <2>4 DEF Goto, Moves
    <3>2. \/ req'[w].existing = NULL
          \/ req'[w].id \in AnimeIds /\ AnimeExists(req[w].id)'
      BY <1>0, <1>4, <2>2, <2>4
         DEF InsertStudio, Refers, AnimePCs, RowsKept, AnimeExists
    <3> QED
      BY <2>1, <2>2, <2>4, <3>1, <3>2, AnimeRequestIInv DEF AnimePCs
  <2> QED
    BY <1>4, <2>3, <2>4 DEF InsertStudio, UniqueViolation
<1>5. CASE CreateAnime(w)
  <2>1. req[w] \in AnimeRequest
    BY <1>0, <1>5 DEF CreateAnime, RequestOK, AnimePCs
  <2>2. CASE Finish(w) /\ UNCHANGED animes
    BY <1>5, <2>2, FinishIInv, NoWrite DEF CreateAnime
  <2>3. ASSUME NEW i \in AnimeIds,
               animes' = [animes EXCEPT ![i] =
                     [title |-> req[w].title, details |-> req[w].details,
                      poster |-> NULL, count |-> 0,
                      published |-> req[w].auto, deleted |-> FALSE]],
               AfterWrite(w, i)
        PROVE  IInv'
    <3>1. [title |-> req[w].title, details |-> req[w].details,
           poster |-> NULL, count |-> 0,
           published |-> req[w].auto, deleted |-> FALSE] \in AnimeRow
      BY <2>1, AutoPublishIsFlag DEF AnimeRequest, AnimeRow
    <3>2. TablesOK' /\ RowsKept /\ EpisodesRefer' /\ AnimeExists(i)'
      BY <1>5, <2>3, <3>1, AnimeWrite DEF CreateAnime
    <3> QED
      BY <2>1, <2>3, <3>2, AfterWriteIInv
  <2> QED
    BY <1>5, <2>2, <2>3 DEF CreateAnime
<1>6. CASE UpdateAnime(w)
  <2>1. req[w] \in AnimeRequest
    BY <1>0, <1>6 DEF UpdateAnime, RequestOK, AnimePCs
  <2>2. PICK i \in AnimeIds : i = req[w].id /\ AnimeExists(i)
    BY <1>0, <1>6 DEF UpdateAnime, Refers, AnimePCs
  <2>3. PICK row : row = MergedRow(req[w], animes[i])
    OBVIOUS
  <2>4. row \in AnimeRow
    BY <1>0, <1>6, <2>1, <2>2, <2>3, MergedRowIsRow
       DEF UpdateAnime, AnimeExists, TablesOK
  <2>5. animes' = [animes EXCEPT ![i] = row] /\ AfterWrite(w, i)
    BY <1>6, <2>2, <2>3 DEF UpdateAnime
  <2>6. TablesOK' /\ RowsKept /\ EpisodesRefer' /\ AnimeExists(i)'
    BY <1>6, <2>4, <2>5, AnimeWrite DEF UpdateAnime
  <2> QED
    BY <2>1, <2>5, <2>6, AfterWriteIInv
<1>7. CASE FindGenre(w)
  <2>1. req[w] \in AnimeRequest /\ req[w].id \in AnimeIds /\ AnimeExists(req[w].id)
    BY <1>0, <1>7 DEF FindGenre, RequestOK, Refers, AnimePCs
  <2>2. TablesOK' /\ RowsKept /\ EpisodesRefer'
    BY <1>7, NoWrite DEF FindGenre
  <2>3. PICK g \in req[w].todo :
           /\ req' = [req EXCEPT ![w].todo = @ \ {g}, ![w].genre = g]
           /\ Goto(w, IF g \in names THEN AfterGenre(req'[w]) ELSE "insertGenre")
    BY <1>7 DEF FindGenre
  <2>4. Moves(w) /\ pc'[w] \in {"insertGenre", "clearGenres", "findGenre"}
    <3>1. pc'[w] \in {"insertGenre", "clearGenres", "findGenre"}
      BY <1>0, <2>3 DEF Goto, AfterGenre
    <3>2. Moves(w)
      BY <1>0, <2>3 DEF Goto, Moves
    <3> QED
      BY <3>1, <3>2
  <2>5. g \in Genres /\ g # NULL
    BY <2>1, <2>3, NullIsNoValue DEF AnimeRequest
  <2>6. req'[w] \in AnimeRequest /\ req'[w].genre # NULL /\ req'[w].id = req[w].id
    <3>1. req'[w] = [req[w] EXCEPT !.todo = req[w].todo \ {g}, !.genre = g]
      BY <1>0, <2>3
    <3>2. req[w].todo \ {g} \in SUBSET Genres
      BY <2>1 DEF AnimeRequest
    <3> QED
      BY <2>1, <2>5, <3>1, <3>2 DEF AnimeRequest
  <2>7. AnimeExists(req[w].id)'
    BY <2>1, <2>2, <2>6 DEF RowsKept, AnimeExists
  <2> QED
    BY <2>1, <2>2, <2>4, <2>6, <2>7, AnimeRequestIInv DEF AnimePCs
<1>8. CASE InsertGenre(w)
  <2>1. /\ req[w] \in AnimeRequest
        /\ req[w].genre \in Genres
        /\ req[w].id \in AnimeIds
        /\ AnimeExists(req[w].id)
    BY <1>0, <1>8 DEF InsertGenre, RequestOK, Refers, AnimePCs, AnimeRequest
  <2>2. TablesOK' /\ RowsKept /\ EpisodesRefer'
    BY <1>0, <1>8, <2>1, NoRowWrite
       DEF InsertGenre, InsertName, UniqueViolation, TablesOK
  <2>3. CASE Finish(w)
    BY <2>2, <2>3, FinishIInv
  <2>4. CASE Goto(w, AfterGenre(req[w])) /\ UNCHANGED req
    <3>1. Moves(w) /\ pc'[w] \in {"clearGenres", "findGenre"}
      BY <1>0, <2>4 DEF Goto, AfterGenre, Moves
    <3>2. AnimeExists(req[w].id)'
      BY <2>1, <2>2, <2>4 DEF RowsKept, AnimeExists
    <3> QED
      BY <2>1, <2>2, <2>4, <3>1, <3>2, AnimeRequestIInv DEF AnimePCs
  <2> QED
    BY <1>8, <2>3, <2>4 DEF InsertGenre, UniqueViolation
<1>9. CASE ClearGenres(w)
  <2>1. /\ req[w] \in AnimeRequest
        /\ req[w].id \in AnimeIds
        /\ AnimeExists(req[w].id)
        /\ tags[req[w].id] \in SUBSET Genres
    BY <1>0, <1>9 DEF ClearGenres, RequestOK, Refers, AnimePCs, TablesOK
  <2>2. TablesOK' /\ RowsKept /\ EpisodesRefer'
    BY <1>9, NoWrite DEF ClearGenres
  <2>3. Moves(w) /\ pc'[w] = "commitGenres"
    BY <1>0, <1>9 DEF ClearGenres, Goto, Moves
  <2>4. req'[w] \in AnimeRequest /\ req'[w].id = req[w].id
    BY <1>0, <1>9, <2>1 DEF ClearGenres, AnimeRequest
  <2>5. AnimeExists(req[w].id)'
    BY <2>1, <2>2, <2>4 DEF RowsKept, AnimeExists
  <2> QED
    BY <2>1, <2>2, <2>3, <2>4, <2>5, AnimeRequestIInv DEF AnimePCs
<1>10. CASE CommitGenres(w)
  <2>1. req[w] \in AnimeRequest /\ req[w].id \in AnimeIds
    BY <1>0, <1>10 DEF CommitGenres, RequestOK, Refers, AnimePCs
  <2>2. tags' \in [AnimeIds -> SUBSET Genres]
    BY <1>0, <1>10, <2>1 DEF CommitGenres, AnimeRequest, TablesOK
  <2>3. TablesOK' /\ RowsKept /\ EpisodesRefer'
    BY <1>0, <1>10, <2>2, NoRowWrite DEF CommitGenres, TablesOK
  <2>4. /\ pc' = [pc EXCEPT ![w] = "idle"]
        /\ \A v \in Workers :
              req'[v] = IF v = w THEN NULL ELSE Skips(v, req[w].id, req[w].cleared)
        /\ req' = [v \in Workers |-> req'[v]]
    BY <1>10 DEF CommitGenres, Goto
  <2> HIDE <1>10
  <2>5. ASSUME NEW v \in Workers
        PROVE  /\ req'[v] \in AnimeRequest \cup EpisodeRequest \cup {NULL}
               /\ RequestOK(pc'[v], req'[v]) /\ Refers(pc[v], req[v])'
    <3>1. RequestOK(pc[v], req[v]) /\ Refers(pc[v], req[v])
      BY WorkerIInv
    <3>2. CASE v = w
      BY <1>0, <2>4, <3>2 DEF RequestOK, Refers, AnimePCs, EpisodePCs
    <3>3. CASE v # w /\ req'[v] = req[v]
      BY <1>0, <2>3, <2>4, <3>1, <3>3
         DEF RequestOK, Refers, RowsKept, EpisodeRequest, AnimeExists
    <3>4. CASE v # w /\ req'[v] # req[v]
      <4>1. /\ pc[v] = "commitGenres" /\ pc'[v] = pc[v]
            /\ req'[v] = [req[v] EXCEPT !.cleared = @ \ req[w].cleared]
        BY <1>0, <2>4, <3>4 DEF Skips
      <4>2. req[v] \in AnimeRequest /\ req[v].id \in AnimeIds /\ AnimeExists(req[v].id)
        BY <3>1, <4>1 DEF RequestOK, Refers, AnimePCs
      <4>3. req'[v] \in AnimeRequest /\ req'[v].id = req[v].id
        BY <4>1, <4>2 DEF AnimeRequest
      <4>4. AnimeExists(req[v].id)'
        BY <2>3, <4>2, <4>3 DEF RowsKept, AnimeExists
      <4> QED
        BY <4>1, <4>2, <4>3, <4>4 DEF RequestOK, Refers, AnimePCs, EpisodePCs
    <3> QED
      BY <3>2, <3>3, <3>4
  <2>6. TypeOK'
    BY <1>0, <2>3, <2>4, <2>5 DEF TypeOK
  <2>7. RequestsReferToRows'
    BY <2>3, <2>5 DEF RequestsReferToRows, EpisodesRefer
  <2> QED
    BY <2>6, <2>7 DEF IInv
<1> QED
  BY <1>1, <1>2, <1>3, <1>4, <1>5, <1>6, <1>7, <1>8, <1>9, <1>10 DEF UpsertAnime

-----------------------------------------------------------------------------
(* UpsertEpisode preserves the invariant. *)

(* A worker that goes on with UpsertEpisode. *)
LEMMA EpisodeRequestIInv ==
    ASSUME IInv, NEW w \in Workers, Moves(w), TablesOK', RowsKept, EpisodesRefer',
           pc'[w] \in EpisodePCs, req'[w] \in EpisodeRequest,
           AnimeExists(req'[w].anime)
    PROVE  IInv'
<1>1. RequestOK(pc[w], req[w])'
  BY DEF RequestOK, AnimePCs, EpisodePCs
<1>2. Refers(pc[w], req[w])'
  BY DEF Refers, AnimePCs, EpisodePCs, EpisodeRequest, RowsKept, AnimeExists
<1> QED
  BY <1>1, <1>2, WorkerStep

LEMMA UpsertEpisodeIInv ==
    ASSUME IInv, NEW w \in Workers, UpsertEpisode(w)
    PROVE  IInv'
<1>0. /\ RequestOK(pc[w], req[w]) /\ Refers(pc[w], req[w])
      /\ TablesOK
      /\ pc \in [Workers -> {"idle"} \cup AnimePCs \cup EpisodePCs]
      /\ req \in [Workers -> AnimeRequest \cup EpisodeRequest \cup {NULL}]
  BY WorkerIInv DEF IInv, TypeOK
<1>1. CASE StartUpsertEpisode(w)
  <2>1. Moves(w) /\ pc'[w] \in {"insertEpisode", "season"}
    BY <1>0, <1>1 DEF StartUpsertEpisode, Goto, Moves
  <2>2. req'[w] \in EpisodeRequest /\ AnimeExists(req'[w].anime)
    BY <1>0, <1>1 DEF StartUpsertEpisode, EpisodeRequest
  <2> QED
    BY <1>1, <2>1, <2>2, NoWrite, EpisodeRequestIInv
       DEF StartUpsertEpisode, EpisodePCs
<1>2. CASE FindOrCreateSeason(w)
  <2>1. req[w] \in EpisodeRequest /\ AnimeExists(req[w].anime)
    BY <1>0, <1>2 DEF FindOrCreateSeason, RequestOK, Refers, EpisodePCs
  <2>2. seasons' \subseteq AnimeIds \X Seasons
    BY <1>0, <1>2, <2>1 DEF FindOrCreateSeason, EpisodeRequest, TablesOK
  <2>3. TablesOK' /\ RowsKept /\ EpisodesRefer'
    BY <1>0, <1>2, <2>2, NoRowWrite DEF FindOrCreateSeason, TablesOK
  <2>4. Moves(w) /\ pc'[w] = "insertEpisode" /\ UNCHANGED req
    BY <1>0, <1>2 DEF FindOrCreateSeason, Goto, Moves
  <2> QED
    BY <2>1, <2>3, <2>4, EpisodeRequestIInv DEF EpisodePCs
<1>3. CASE InsertEpisode(w)
  <2>1. req[w] \in EpisodeRequest /\ AnimeExists(req[w].anime)
    BY <1>0, <1>3 DEF InsertEpisode, RequestOK, Refers, EpisodePCs
  <2>2. CASE Finish(w) /\ UNCHANGED episodes
    BY <1>3, <2>2, FinishIInv, NoWrite DEF InsertEpisode
  <2>3. ASSUME NEW e \in EpisodeIds, NEW row \in EpisodeRow, AnimeExists(row.anime),
               episodes' = [episodes EXCEPT ![e] = row],
               Goto(w, "refreshCount"), UNCHANGED req
        PROVE  IInv'
    <3>1. Moves(w) /\ pc'[w] = "refreshCount"
      BY <1>0, <2>3 DEF Goto, Moves
    <3>2. TablesOK' /\ RowsKept /\ EpisodesRefer'
      BY <1>3, <2>3, EpisodeWrite DEF InsertEpisode
    <3> QED
      BY <2>1, <2>3, <3>1, <3>2, EpisodeRequestIInv DEF EpisodePCs
  <2>4. ASSUME NEW e \in SameContent(req[w]),
               episodes' = [episodes EXCEPT ![e].storage = req[w].storage],
               Goto(w, "refreshCount"), UNCHANGED req
        PROVE  IInv'
    <3>1. /\ e \in EpisodeIds
          /\ episodes[e] \in EpisodeRow
          /\ AnimeExists(episodes[e].anime)
      BY <1>0 DEF SameContent, EpisodeExists, TablesOK, IInv, RequestsReferToRows
    <3>2. PICK row : row = [episodes[e] EXCEPT !.storage = req[w].storage]
      OBVIOUS
    <3>3. row \in EpisodeRow /\ row.anime = episodes[e].anime
      BY <2>1, <3>1, <3>2 DEF EpisodeRow, EpisodeRequest
    <3>4. episodes' = [episodes EXCEPT ![e] = row] /\ AnimeExists(row.anime)
      BY <2>4, <3>1, <3>2, <3>3
    <3> QED
      BY <2>3, <2>4, <3>1, <3>3, <3>4
  <2>5. ASSUME NEW e \in EpisodeIds,
               episodes' = [episodes EXCEPT ![e] =
                 [anime |-> req[w].anime, season |-> req[w].season,
                  number |-> req[w].number, storage |-> req[w].storage,
                  channel |-> req[w].channel, message |-> req[w].message,
                  deleted |-> FALSE]],
               Goto(w, "refreshCount"), UNCHANGED req
        PROVE  IInv'
    <3>1. PICK row : row =
            [anime |-> req[w].anime, season |-> req[w].season,
             number |-> req[w].number, storage |-> req[w].storage,
             channel |-> req[w].channel, message |-> req[w].message,
             deleted |-> FALSE]
      OBVIOUS
    <3>2. row \in EpisodeRow /\ AnimeExists(row.anime)
      BY <2>1, <3>1 DEF EpisodeRow, EpisodeRequest
    <3> QED
      BY <2>3, <2>5, <3>1, <3>2
  <2> QED
    BY <1>3, <2>2, <2>4, <2>5 DEF InsertEpisode
<1>4. CASE RefreshCount(w)
  <2>1. PICK i \in AnimeIds : i = req[w].anime /\ AnimeExists(i)
    BY <1>0, <1>4 DEF RefreshCount, RequestOK, Refers, EpisodePCs, EpisodeRequest
  <2>2. PICK n \in Nat : n = Cardinality(LiveEpisodes(i))
    BY LiveEpisodesFinite
  <2>3. PICK row : row = [animes[i] EXCEPT !.count = n]
    OBVIOUS
  <2>4. row \in AnimeRow
    BY <1>0, <2>1, <2>3 DEF AnimeExists, TablesOK, AnimeRow
  <2>5. animes' = [animes EXCEPT ![i] = row]
    BY <1>4, <2>1, <2>2, <2>3 DEF RefreshCount
  <2>6. TablesOK' /\ RowsKept /\ EpisodesRefer'
    BY <1>4, <2>4, <2>5, AnimeWrite DEF RefreshCount
  <2> QED
    BY <1>4, <2>6, FinishIInv DEF RefreshCount
<1> QED
  BY <1>1, <1>2, <1>3, <1>4 DEF UpsertEpisode

-----------------------------------------------------------------------------
(* The other requests *)

(* A step that moves no worker and only flags rows. *)
LEMMA TableStep ==
    ASSUME IInv, UNCHANGED <<pc, req>>, TablesOK', RowsKept, EpisodesRefer'
    PROVE  IInv'
<1>1. TypeOK'
  BY DEF IInv, TypeOK, RequestOK
<1>2. ASSUME NEW w \in Workers PROVE Refers(pc[w], req[w])'
  <2>1. RequestOK(pc[w], req[w]) /\ Refers(pc[w], req[w])
    BY DEF IInv, TypeOK, RequestsReferToRows
  <2> QED
    BY <2>1 DEF RequestOK, Refers, RowsKept, EpisodeRequest, AnimeExists
<1> QED
  BY <1>1, <1>2 DEF IInv, RequestsReferToRows, EpisodesRefer

LEMMA SoftDeleteBySourceIInv ==
    ASSUME IInv, NEW c \in Channels, NEW m \in Messages, SoftDeleteBySource(c, m)
    PROVE  IInv'
<1>1. ASSUME NEW e \in EpisodeIds
      PROVE  /\ episodes'[e] \in EpisodeRow \cup {NULL}
             /\ EpisodeExists(e)' =>
                   EpisodeExists(e) /\ episodes'[e].anime = episodes[e].anime
  BY NullIsNoValue, ZenonT(30)
     DEF SoftDeleteBySource, SameSource, EpisodeExists, EpisodeRow, IInv, TypeOK, TablesOK
<1>2. TablesOK' /\ RowsKept /\ EpisodesRefer'
  BY <1>1 DEF SoftDeleteBySource, IInv, TypeOK, TablesOK, RowsKept, EpisodesRefer,
              RequestsReferToRows, AnimeExists, EpisodeExists
<1> QED
  BY <1>2, TableStep DEF SoftDeleteBySource

LEMMA DeleteSourceChannelIInv ==
    ASSUME IInv, NEW c \in Channels, DeleteSourceChannel(c)
    PROVE  IInv'
<1>1. ASSUME NEW e \in EpisodeIds
      PROVE  /\ episodes'[e] \in EpisodeRow \cup {NULL}
             /\ EpisodeExists(e)' =>
                   EpisodeExists(e) /\ episodes'[e].anime = episodes[e].anime
  BY NullIsNoValue DEF DeleteSourceChannel, EpisodeExists, EpisodeRow, IInv, TypeOK,
                       TablesOK
<1>2. TablesOK' /\ RowsKept /\ EpisodesRefer'
  BY <1>1 DEF DeleteSourceChannel, IInv, TypeOK, TablesOK, RowsKept, EpisodesRefer,
              RequestsReferToRows, AnimeExists, EpisodeExists
<1> QED
  BY <1>2, TableStep DEF DeleteSourceChannel

LEMMA NextIInv == IInv /\ [Next]_vars => IInv'
<1> SUFFICES ASSUME IInv, [Next]_vars PROVE IInv'
  OBVIOUS
<1>1. CASE \E w \in Workers : UpsertAnime(w)
  BY <1>1, UpsertAnimeIInv
<1>2. CASE \E w \in Workers : UpsertEpisode(w)
  BY <1>2, UpsertEpisodeIInv
<1>3. CASE \E w \in Workers : Abort(w)
  BY <1>3, NoWrite, FinishIInv DEF Abort
<1>4. CASE \E c \in Channels, m \in Messages : SoftDeleteBySource(c, m)
  BY <1>4, SoftDeleteBySourceIInv
<1>5. CASE \E i \in AnimeIds : SoftDeleteAnime(i)
  <2>1. PICK i \in AnimeIds : SoftDeleteAnime(i)
    BY <1>5
  <2>2. PICK row : row = [animes[i] EXCEPT !.deleted = TRUE]
    OBVIOUS
  <2>3. row \in AnimeRow /\ animes' = [animes EXCEPT ![i] = row]
    BY <2>1, <2>2 DEF SoftDeleteAnime, AnimeExists, AnimeRow, IInv, TypeOK, TablesOK
  <2> QED
    BY <2>1, <2>3, AnimeWrite, TableStep DEF SoftDeleteAnime
<1>6. CASE \E c \in Channels : CreateSourceChannel(c)
  <2>1. TablesOK' /\ RowsKept /\ EpisodesRefer'
    BY <1>6 DEF CreateSourceChannel, IInv, TypeOK, TablesOK, RowsKept, EpisodesRefer,
                RequestsReferToRows, AnimeExists, EpisodeExists
  <2> QED
    BY <1>6, <2>1, TableStep DEF CreateSourceChannel
<1>7. CASE \E c \in Channels : DeleteSourceChannel(c)
  BY <1>7, DeleteSourceChannelIInv
<1>8. CASE UNCHANGED vars
  BY <1>8, NoWrite, TableStep DEF vars
<1> QED
  BY <1>1, <1>2, <1>3, <1>4, <1>5, <1>6, <1>7, <1>8 DEF Next

(* The tables and the requests are well typed in every reachable state, and *)
(* every id that a request or an episode holds is the id of a row.          *)
THEOREM RowsNeverVanish == Spec => [](TypeOK /\ RequestsReferToRows)
<1>1. IInv => TypeOK /\ RequestsReferToRows
  BY DEF IInv
<1> QED
  BY <1>1, InitIInv, NextIInv, PTL DEF Spec

(* The variables of Ingest have their types, whatever requests overlap.     *)
THEOREM IngestTypeCorrect == Spec => []TypeOK
<1>1. IInv => TypeOK
  BY DEF IInv
<1> QED
  BY <1>1, InitIInv, NextIInv, PTL DEF Spec

-----------------------------------------------------------------------------
(* The two keys of episodes *)

(* Rows d and e collide in neither unique index. *)
Apart(d, e) ==
    /\ \/ episodes[d].anime # episodes[e].anime
       \/ episodes[d].season # episodes[e].season
       \/ episodes[d].number # episodes[e].number
    /\ \/ episodes[d].channel = NULL
       \/ episodes[d].channel # episodes[e].channel
       \/ episodes[d].message # episodes[e].message

(* A step that keeps the keys of the rows, or unlinks them from a channel. *)
KeysKept ==
    \A e \in EpisodeIds :
        /\ EpisodeExists(e)' => EpisodeExists(e)
        /\ EpisodeExists(e) => SameEpisode(episodes[e], episodes'[e])

LEMMA KeysKeptUnique ==
    ASSUME EpisodeKeysUnique, KeysKept
    PROVE  EpisodeKeysUnique'
<1> SUFFICES ASSUME NEW d \in EpisodeIds, NEW e \in EpisodeIds, d # e,
                    EpisodeExists(d)', EpisodeExists(e)'
             PROVE  Apart(d, e)'
  BY DEF EpisodeKeysUnique, Apart
<1>1. /\ EpisodeExists(d) /\ SameEpisode(episodes[d], episodes'[d])
      /\ EpisodeExists(e) /\ SameEpisode(episodes[e], episodes'[e])
  BY DEF KeysKept
<1>2. Apart(d, e)
  BY <1>1 DEF EpisodeKeysUnique, Apart
<1> QED
  BY <1>1, <1>2 DEF Apart, SameEpisode

LEMMA EpisodesUnchanged ==
    ASSUME UNCHANGED episodes
    PROVE  KeysKept
  BY DEF KeysKept, SameEpisode, EpisodeExists

(* What the INSERT does to the rows. *)
LEMMA InsertEpisodeRows ==
    ASSUME IInv, NEW w \in Workers, InsertEpisode(w)
    PROVE  \/ KeysKept
           \/ /\ SameContent(req[w]) = {}
              /\ SameSource(req[w].channel, req[w].message) = {}
              /\ \E e \in EpisodeIds :
                    /\ ~EpisodeExists(e)
                    /\ episodes' = [episodes EXCEPT ![e] =
                         [anime |-> req[w].anime, season |-> req[w].season,
                          number |-> req[w].number, storage |-> req[w].storage,
                          channel |-> req[w].channel, message |-> req[w].message,
                          deleted |-> FALSE]]
<1>1. CASE \E e \in SameContent(req[w]) :
              episodes' = [episodes EXCEPT ![e].storage = req[w].storage]
  <2>1. PICK e \in SameContent(req[w]) :
              episodes' = [episodes EXCEPT ![e].storage = req[w].storage]
    BY <1>1
  <2>2. e \in EpisodeIds /\ EpisodeExists(e) /\ episodes[e] \in EpisodeRow
    BY <2>1 DEF SameContent, EpisodeExists, IInv, TypeOK, TablesOK
  <2>3. req[w].storage \in Storage
    <3>1. req[w] \in EpisodeRequest
      BY WorkerIInv DEF InsertEpisode, RequestOK, EpisodePCs
    <3> QED
      BY <3>1 DEF EpisodeRequest
  <2>4. PICK row : row = [episodes[e] EXCEPT !.storage = req[w].storage]
    OBVIOUS
  <2>5. row \in EpisodeRow /\ SameEpisode(episodes[e], row)
    <3>1. row \in EpisodeRow
      BY <2>2, <2>3, <2>4 DEF EpisodeRow
    <3>2. /\ row.anime = episodes[e].anime
          /\ row.season = episodes[e].season
          /\ row.number = episodes[e].number
          /\ row.message = episodes[e].message
          /\ row.channel = episodes[e].channel
      BY <2>2, <2>4 DEF EpisodeRow
    <3> QED
      BY <3>1, <3>2, NullIsNoValue DEF SameEpisode
  <2>6. episodes' = [episodes EXCEPT ![e] = row]
    BY <2>1, <2>4
  <2>7. \A d \in EpisodeIds : d # e => episodes'[d] = episodes[d]
    BY <2>6 DEF IInv, TypeOK, TablesOK
  <2>8. episodes'[e] = row
    BY <2>2, <2>6 DEF IInv, TypeOK, TablesOK
  <2>9. KeysKept
    BY <2>2, <2>5, <2>7, <2>8 DEF KeysKept, SameEpisode, EpisodeExists
  <2> QED
    BY <2>9
<1>2. CASE UNCHANGED episodes
  BY <1>2, EpisodesUnchanged
<1> QED
  BY <1>1, <1>2 DEF InsertEpisode

LEMMA SoftDeleteBySourceKeepsKeys ==
    ASSUME IInv, NEW c \in Channels, NEW m \in Messages, SoftDeleteBySource(c, m)
    PROVE  KeysKept
  BY NullIsNoValue, ZenonT(30)
     DEF SoftDeleteBySource, SameSource, KeysKept, SameEpisode, EpisodeExists,
         EpisodeRow, IInv, TypeOK, TablesOK

LEMMA DeleteSourceChannelKeepsKeys ==
    ASSUME IInv, NEW c \in Channels, DeleteSourceChannel(c)
    PROVE  KeysKept
  BY NullIsNoValue DEF DeleteSourceChannel, KeysKept, SameEpisode, EpisodeExists, EpisodeRow, IInv,
         TypeOK, TablesOK

(* Every step but an INSERT of a new row keeps the keys. *)
LEMMA NextEpisodes ==
    ASSUME IInv, [Next]_vars
    PROVE  KeysKept \/ \E w \in Workers : InsertEpisode(w)
<1>1. CASE UNCHANGED episodes
  BY <1>1, EpisodesUnchanged
<1>2. CASE \E c \in Channels, m \in Messages : SoftDeleteBySource(c, m)
  BY <1>2, SoftDeleteBySourceKeepsKeys
<1>3. CASE \E c \in Channels : DeleteSourceChannel(c)
  BY <1>3, DeleteSourceChannelKeepsKeys
<1>4. CASE \E w \in Workers : UpsertAnime(w)
  <2>1. UNCHANGED episodes
    BY <1>4 DEF UpsertAnime, StartUpsertAnime, FindByTitle, FindStudio, InsertStudio,
                CreateAnime, UpdateAnime, FindGenre, InsertGenre, ClearGenres,
                CommitGenres
  <2> QED
    BY <2>1, EpisodesUnchanged
<1>5. CASE \E w \in Workers : UpsertEpisode(w)
  BY <1>1, <1>5 DEF UpsertEpisode, StartUpsertEpisode, FindOrCreateSeason, RefreshCount
<1> QED
  BY <1>1, <1>2, <1>3, <1>4, <1>5
     DEF Next, Abort, SoftDeleteAnime, CreateSourceChannel, vars

LEMMA NextKeysUnique == IInv /\ EpisodeKeysUnique /\ [Next]_vars => EpisodeKeysUnique'
<1> SUFFICES ASSUME IInv, EpisodeKeysUnique, [Next]_vars
             PROVE  EpisodeKeysUnique'
  OBVIOUS
<1>1. CASE KeysKept
  BY <1>1, KeysKeptUnique
<1>2. ASSUME NEW w \in Workers, InsertEpisode(w), ~KeysKept
      PROVE  EpisodeKeysUnique'
  <2>1. PICK f \in EpisodeIds :
           /\ ~EpisodeExists(f)
           /\ episodes' = [episodes EXCEPT ![f] =
                [anime |-> req[w].anime, season |-> req[w].season,
                 number |-> req[w].number, storage |-> req[w].storage,
                 channel |-> req[w].channel, message |-> req[w].message,
                 deleted |-> FALSE]]
    BY <1>2, InsertEpisodeRows
  <2>2. \A e \in EpisodeIds : EpisodeExists(e) =>
           /\ e # f
           /\ episodes'[e] = episodes[e]
           /\ \/ episodes[e].anime # req[w].anime
              \/ episodes[e].season # req[w].season
              \/ episodes[e].number # req[w].number
           /\ \/ episodes[e].channel # req[w].channel
              \/ episodes[e].message # req[w].message
    BY <1>2, <2>1, InsertEpisodeRows DEF SameContent, SameSource, IInv, TypeOK, TablesOK
  <2>3. /\ episodes'[f].anime = req[w].anime
        /\ episodes'[f].season = req[w].season
        /\ episodes'[f].number = req[w].number
        /\ episodes'[f].channel = req[w].channel
        /\ episodes'[f].message = req[w].message
    BY <2>1 DEF IInv, TypeOK, TablesOK
  <2>4. \A e \in EpisodeIds : e # f => (EpisodeExists(e)' <=> EpisodeExists(e))
    BY <2>1 DEF EpisodeExists, IInv, TypeOK, TablesOK
  <2> SUFFICES ASSUME NEW d \in EpisodeIds, NEW e \in EpisodeIds, d # e,
                      EpisodeExists(d)', EpisodeExists(e)'
               PROVE  Apart(d, e)'
    BY DEF EpisodeKeysUnique, Apart
  <2>5. CASE d # f /\ e # f
    <3>1. EpisodeExists(d) /\ EpisodeExists(e)
      BY <2>4, <2>5
    <3>2. Apart(d, e)
      BY <3>1 DEF EpisodeKeysUnique, Apart
    <3> QED
      BY <2>2, <3>1, <3>2 DEF Apart
  <2>6. CASE d = f
    <3>1. EpisodeExists(e)
      BY <2>4, <2>6
    <3> QED
      BY <2>2, <2>3, <2>6, <3>1 DEF Apart
  <2>7. CASE e = f
    <3>1. EpisodeExists(d)
      BY <2>4, <2>7
    <3> QED
      BY <2>2, <2>3, <2>7, <3>1 DEF Apart
  <2> QED
    BY <2>5, <2>6, <2>7
<1> QED
  BY <1>1, <1>2, NextEpisodes

(* However many requests run at a time, whatever is deleted meanwhile and   *)
(* wherever a request is cut off, no two rows of episodes share a key.      *)
THEOREM EpisodesNeverDuplicated == Spec => []EpisodeKeysUnique
<1>1. Init => EpisodeKeysUnique
  BY DEF Init, EpisodeKeysUnique, EpisodeExists
<1> QED
  BY <1>1, InitIInv, NextIInv, NextKeysUnique, PTL DEF Spec

(* An episode id means the same episode for ever. *)
LEMMA NextIdentity ==
    ASSUME IInv, [Next]_vars, NEW e \in EpisodeIds, EpisodeExists(e)
    PROVE  SameEpisode(episodes[e], episodes'[e])
<1>1. CASE KeysKept
  BY <1>1 DEF KeysKept
<1>2. CASE ~KeysKept
  <2>1. PICK w \in Workers : InsertEpisode(w)
    BY <1>2, NextEpisodes
  <2>2. PICK f \in EpisodeIds :
           ~EpisodeExists(f) /\ \E row : episodes' = [episodes EXCEPT ![f] = row]
    BY <1>2, <2>1, InsertEpisodeRows
  <2>3. episodes'[e] = episodes[e]
    BY <2>2 DEF IInv, TypeOK, TablesOK
  <2> QED
    BY <2>3 DEF SameEpisode, EpisodeExists
<1> QED
  BY <1>1, <1>2

THEOREM EpisodeIdsStable == Spec => EpisodeIdentityStable
<1>1. IInv /\ [Next]_vars =>
         [\A e \in EpisodeIds :
            EpisodeExists(e) => SameEpisode(episodes[e], episodes'[e])]_vars
  BY NextIdentity
<1> QED
  BY <1>1, InitIInv, NextIInv, PTL DEF Spec, EpisodeIdentityStable

-----------------------------------------------------------------------------
(* Deletions are final *)

LEMMA AnimeDeletionsStick ==
    ASSUME IInv, [Next]_vars, NEW i \in AnimeIds, AnimeExists(i), animes[i].deleted
    PROVE  animes'[i] # NULL /\ animes'[i].deleted
<1>1. animes[i] \in AnimeRow
  BY DEF IInv, TypeOK, TablesOK, AnimeExists
<1>2. CASE UNCHANGED animes
  BY <1>2 DEF AnimeExists
<1>3. ASSUME NEW w \in Workers, UpsertAnime(w), animes' # animes
      PROVE  animes'[i] # NULL /\ animes'[i].deleted
  <2>1. CASE CreateAnime(w)
    <3>1. \E j \in AnimeIds : /\ ~AnimeExists(j)
                             /\ \E row : animes' = [animes EXCEPT ![j] = row]
      BY <1>3, <2>1 DEF CreateAnime
    <3>2. animes'[i] = animes[i]
      BY <3>1 DEF IInv, TypeOK, TablesOK
    <3> QED
      BY <3>2 DEF AnimeExists
  <2>2. CASE UpdateAnime(w)
    <3>1. animes'[i] = animes[i] \/ animes'[i] = MergedRow(req[w], animes[i])
      BY <2>2 DEF UpdateAnime, IInv, TypeOK, TablesOK
    <3>2. MergedRow(req[w], animes[i]).deleted
      BY <1>1 DEF MergedRow, AnimeRow
    <3>3. MergedRow(req[w], animes[i]) # NULL
      <4>1. req[w] \in AnimeRequest /\ req[w].existing # NULL
        BY <2>2, WorkerIInv DEF UpdateAnime, RequestOK, AnimePCs
      <4> QED
        BY <1>1, <4>1, MergedRowIsRow, NullIsNoValue
    <3> QED
      BY <3>1, <3>2, <3>3 DEF AnimeExists
  <2> QED
    BY <1>3, <2>1, <2>2
       DEF UpsertAnime, StartUpsertAnime, FindByTitle, FindStudio, InsertStudio,
           FindGenre, InsertGenre, ClearGenres, CommitGenres
<1>4. ASSUME NEW w \in Workers, UpsertEpisode(w), animes' # animes
      PROVE  animes'[i] # NULL /\ animes'[i].deleted
  <2>1. RefreshCount(w)
    BY <1>4 DEF UpsertEpisode, StartUpsertEpisode, FindOrCreateSeason, InsertEpisode
  <2>2. PICK n \in Nat : n = Cardinality(LiveEpisodes(req[w].anime))
    BY LiveEpisodesFinite
  <2>3. animes'[i] \in {animes[i], [animes[i] EXCEPT !.count = n]}
    BY <2>1, <2>2 DEF RefreshCount, IInv, TypeOK, TablesOK
  <2> QED
    BY <1>1, <2>2, <2>3, NullIsNoValue DEF AnimeRow
<1>5. ASSUME NEW j \in AnimeIds, SoftDeleteAnime(j)
      PROVE  animes'[i] # NULL /\ animes'[i].deleted
  <2>1. PICK row : row = [animes[i] EXCEPT !.deleted = TRUE]
    OBVIOUS
  <2>2. row \in AnimeRow /\ row.deleted
    BY <1>1, <2>1 DEF AnimeRow
  <2>3. animes'[i] \in {animes[i], row}
    BY <1>5, <2>1 DEF SoftDeleteAnime, IInv, TypeOK, TablesOK
  <2> QED
    BY <2>2, <2>3, NullIsNoValue DEF AnimeExists
<1> QED
  BY <1>2, <1>3, <1>4, <1>5
     DEF Next, Abort, SoftDeleteBySource, CreateSourceChannel, DeleteSourceChannel, vars

LEMMA EpisodeDeletionsStick ==
    ASSUME IInv, [Next]_vars, NEW e \in EpisodeIds, EpisodeExists(e),
           episodes[e].deleted
    PROVE  episodes'[e] # NULL /\ episodes'[e].deleted
<1>1. episodes[e] \in EpisodeRow
  BY DEF IInv, TypeOK, TablesOK, EpisodeExists
<1>2. episodes'[e] # NULL
  BY NextIdentity DEF SameEpisode
<1>3. CASE UNCHANGED episodes
  BY <1>2, <1>3
<1>4. ASSUME NEW c \in Channels, NEW m \in Messages, SoftDeleteBySource(c, m)
      PROVE  episodes'[e].deleted
  BY <1>1, <1>4 DEF SoftDeleteBySource, EpisodeRow
<1>5. ASSUME NEW c \in Channels, DeleteSourceChannel(c)
      PROVE  episodes'[e].deleted
  BY <1>1, <1>5 DEF DeleteSourceChannel, EpisodeRow
<1>6. ASSUME NEW w \in Workers, InsertEpisode(w)
      PROVE  episodes'[e].deleted
  <2>1. ASSUME NEW f \in SameContent(req[w]),
               episodes' = [episodes EXCEPT ![f].storage = req[w].storage]
        PROVE  episodes'[e].deleted
    BY <1>1, <2>1 DEF EpisodeRow, IInv, TypeOK, TablesOK
  <2>2. ASSUME NEW f \in EpisodeIds, NEW row, ~EpisodeExists(f),
               episodes' = [episodes EXCEPT ![f] = row]
        PROVE  episodes'[e].deleted
    BY <2>2 DEF IInv, TypeOK, TablesOK
  <2> QED
    BY <1>3, <1>6, <2>1, <2>2 DEF InsertEpisode
<1>7. CASE \E w \in Workers : UpsertAnime(w)
  BY <1>3, <1>7
     DEF UpsertAnime, StartUpsertAnime, FindByTitle, FindStudio, InsertStudio,
         CreateAnime, UpdateAnime, FindGenre, InsertGenre, ClearGenres, CommitGenres
<1>8. CASE \E w \in Workers : UpsertEpisode(w)
  BY <1>3, <1>2, <1>6, <1>8
     DEF UpsertEpisode, StartUpsertEpisode, FindOrCreateSeason, RefreshCount
<1> QED
  BY <1>2, <1>3, <1>4, <1>5, <1>7, <1>8
     DEF Next, Abort, SoftDeleteAnime, CreateSourceChannel, vars

(* A deletion survives every request that read the row before it. *)
THEOREM DeletionsAreFinal == Spec => DeletesStick
<1>1. IInv /\ [Next]_vars =>
         [/\ \A i \in AnimeIds :
                AnimeExists(i) /\ animes[i].deleted
                => animes'[i] # NULL /\ animes'[i].deleted
          /\ \A e \in EpisodeIds :
                EpisodeExists(e) /\ episodes[e].deleted
                => episodes'[e] # NULL /\ episodes'[e].deleted]_vars
  BY AnimeDeletionsStick, EpisodeDeletionsStick
<1> QED
  BY <1>1, InitIInv, NextIInv, PTL DEF Spec, DeletesStick

-----------------------------------------------------------------------------
(* Overlapping requests (module IngestRaces).  Until it is overtaken, what a *)
(* request learnt from FindByTitle is still true when it writes: that is the *)
(* invariant SInv.                                                           *)

SameMetadata(old, new) ==
    /\ new.details = old.details
    /\ new.poster = old.poster
    /\ new.published = old.published

(* The row the request has found is one of its title; titles never change. *)
TitleFound(r) == r.existing # NULL => animes[r.id].title = r.title

(* What the request has found is what there is. *)
Knows(r) == IF r.existing = NULL
            THEN TitleMatches(r.title) = {}
            ELSE SameMetadata(r.existing, animes[r.id])

Found(w) == /\ pc[w] = "findTitle" => req[w].existing = NULL
            /\ pc[w] \in Before => TitleFound(req[w])
            /\ pc[w] \in Before => w \in overtaken \/ Knows(req[w])

SInv == \A w \in Workers : Found(w)

(* A step of IngestRaces, and what it is to Ingest. *)
RStep == [RNext]_<<vars, history>>

LEMMA RStepIsStep ==
    ASSUME RStep
    PROVE  [Next]_vars /\ (Track \/ UNCHANGED <<vars, history>>)
  BY DEF RStep, RNext, vars, history

(* A step that neither creates nor merges: at most it deletes or recounts. *)
AnimesKept ==
    \A i \in AnimeIds :
        /\ AnimeExists(i)' <=> AnimeExists(i)
        /\ AnimeExists(i) =>
              /\ animes'[i].title = animes[i].title
              /\ animes[i].deleted => animes'[i].deleted
              /\ SameMetadata(animes[i], animes'[i])

(* It deletes no anime. *)
DeletedKept == \A i \in AnimeIds : AnimeExists(i) => animes'[i].deleted = animes[i].deleted

LEMMA AnimesUnchanged ==
    ASSUME UNCHANGED animes
    PROVE  AnimesKept /\ DeletedKept
  BY DEF AnimesKept, DeletedKept, SameMetadata, AnimeExists

LEMMA RefreshCountKept ==
    ASSUME IInv, NEW w \in Workers, RefreshCount(w)
    PROVE  AnimesKept /\ DeletedKept
<1>1. PICK n \in Nat : n = Cardinality(LiveEpisodes(req[w].anime))
  BY LiveEpisodesFinite
<1>2. ASSUME NEW i \in AnimeIds
      PROVE  animes'[i] \in {animes[i], [animes[i] EXCEPT !.count = n]}
  BY <1>1 DEF RefreshCount, IInv, TypeOK, TablesOK
<1>3. AnimeExists(req[w].anime)
  BY WorkerIInv DEF Refers, RefreshCount, EpisodePCs
<1>4. ASSUME NEW i \in AnimeIds, ~AnimeExists(i)
      PROVE  animes'[i] = animes[i]
  BY <1>3, <1>4 DEF RefreshCount, AnimeExists, IInv, TypeOK, TablesOK
<1>5. ASSUME NEW i \in AnimeIds, AnimeExists(i)
      PROVE  /\ AnimeExists(i)'
             /\ animes'[i].title = animes[i].title
             /\ animes'[i].deleted = animes[i].deleted
             /\ SameMetadata(animes[i], animes'[i])
  <2>1. PICK row : row = [animes[i] EXCEPT !.count = n]
    OBVIOUS
  <2>2. animes[i] \in AnimeRow
    BY <1>5 DEF AnimeExists, IInv, TypeOK, TablesOK
  <2>3. /\ row \in AnimeRow /\ row.title = animes[i].title
        /\ row.deleted = animes[i].deleted /\ SameMetadata(animes[i], row)
    BY <1>1, <2>1, <2>2 DEF AnimeRow, SameMetadata
  <2> QED
    BY <1>2, <1>5, <2>1, <2>3, NullIsNoValue DEF AnimeExists, SameMetadata
<1> QED
  BY <1>4, <1>5 DEF AnimesKept, DeletedKept, AnimeExists

LEMMA SoftDeleteAnimeKept ==
    ASSUME IInv, NEW j \in AnimeIds, SoftDeleteAnime(j)
    PROVE  AnimesKept
<1>1. PICK row : row = [animes[j] EXCEPT !.deleted = TRUE]
  OBVIOUS
<1>2. animes[j] \in AnimeRow /\ AnimeExists(j)
  BY DEF SoftDeleteAnime, AnimeExists, IInv, TypeOK, TablesOK
<1>3. /\ row \in AnimeRow /\ row.title = animes[j].title
      /\ row.deleted /\ SameMetadata(animes[j], row)
  BY <1>1, <1>2 DEF AnimeRow, SameMetadata
<1>4. animes' = [animes EXCEPT ![j] = row]
  BY <1>1 DEF SoftDeleteAnime
<1>5. animes'[j] = row /\ \A i \in AnimeIds : i # j => animes'[i] = animes[i]
  BY <1>4 DEF IInv, TypeOK, TablesOK
<1> QED
  BY <1>2, <1>3, <1>5, NullIsNoValue DEF AnimesKept, AnimeExists, SameMetadata

(* Every step but a write of UpsertAnime. *)
LEMMA NextAnimes ==
    ASSUME IInv, [Next]_vars
    PROVE  \/ AnimesKept /\ (DeletedKept \/ \E i \in AnimeIds : SoftDeleteAnime(i))
           \/ \E w \in Workers : CreateAnime(w) \/ UpdateAnime(w)
<1>1. CASE UNCHANGED animes
  BY <1>1, AnimesUnchanged
<1>2. CASE \E w \in Workers : UpsertAnime(w)
  BY <1>1, <1>2
     DEF UpsertAnime, StartUpsertAnime, FindByTitle, FindStudio, InsertStudio,
         FindGenre, InsertGenre, ClearGenres, CommitGenres
<1>3. CASE \E w \in Workers : UpsertEpisode(w)
  BY <1>1, <1>3, RefreshCountKept
     DEF UpsertEpisode, StartUpsertEpisode, FindOrCreateSeason, InsertEpisode
<1>4. CASE \E i \in AnimeIds : SoftDeleteAnime(i)
  BY <1>4, SoftDeleteAnimeKept
<1> QED
  BY <1>1, <1>2, <1>3, <1>4
     DEF Next, Abort, SoftDeleteBySource, CreateSourceChannel, DeleteSourceChannel, vars

(* The two writes of UpsertAnime. *)
LEMMA CreateAnimeRow ==
    ASSUME IInv, NEW w \in Workers, CreateAnime(w), animes' # animes
    PROVE  /\ pc[w] = "writeAnime" /\ req[w].existing = NULL
           /\ \E i \in AnimeIds, row \in AnimeRow :
                 /\ ~AnimeExists(i)
                 /\ row.title = req[w].title
                 /\ row.details = req[w].details /\ row.published = req[w].auto
                 /\ ~row.deleted
                 /\ animes'[i] = row
                 /\ \A j \in AnimeIds : j # i => animes'[j] = animes[j]
<1>1. req[w] \in AnimeRequest
  BY WorkerIInv DEF CreateAnime, RequestOK, AnimePCs
<1>2. PICK row : row = [title |-> req[w].title, details |-> req[w].details,
                        poster |-> NULL, count |-> 0,
                        published |-> req[w].auto, deleted |-> FALSE]
  OBVIOUS
<1>3. row \in AnimeRow /\ row.title = req[w].title
  BY <1>1, <1>2, AutoPublishIsFlag DEF AnimeRow, AnimeRequest
<1>4. PICK i \in AnimeIds :
         ~AnimeExists(i) /\ animes' = [animes EXCEPT ![i] = row]
  BY <1>2 DEF CreateAnime
<1>5. animes'[i] = row /\ \A j \in AnimeIds : j # i => animes'[j] = animes[j]
  BY <1>4 DEF IInv, TypeOK, TablesOK
<1> QED
  BY <1>2, <1>3, <1>4, <1>5 DEF CreateAnime

LEMMA UpdateAnimeRow ==
    ASSUME IInv, NEW w \in Workers, UpdateAnime(w)
    PROVE  /\ pc[w] = "writeAnime" /\ req[w].existing # NULL
           /\ req[w] \in AnimeRequest
           /\ \E i \in AnimeIds, row \in AnimeRow :
                 /\ AnimeExists(i)
                 /\ i = req[w].id
                 /\ row = MergedRow(req[w], animes[i])
                 /\ animes'[i] = row
                 /\ \A j \in AnimeIds : j # i => animes'[j] = animes[j]
<1>1. /\ req[w] \in AnimeRequest /\ req[w].existing # NULL
      /\ req[w].id \in AnimeIds /\ AnimeExists(req[w].id)
  BY WorkerIInv DEF UpdateAnime, RequestOK, Refers, AnimePCs
<1>2. PICK i \in AnimeIds : i = req[w].id
  BY <1>1
<1>3. animes[i] \in AnimeRow
  BY <1>1, <1>2 DEF AnimeExists, IInv, TypeOK, TablesOK
<1>4. PICK row \in AnimeRow : row = MergedRow(req[w], animes[i])
  BY <1>1, <1>3, MergedRowIsRow
<1>5. animes' = [animes EXCEPT ![i] = row]
  BY <1>2, <1>4 DEF UpdateAnime
<1>6. animes'[i] = row /\ \A j \in AnimeIds : j # i => animes'[j] = animes[j]
  BY <1>5 DEF IInv, TypeOK, TablesOK
<1> QED
  BY <1>1, <1>2, <1>4, <1>6 DEF UpdateAnime

-----------------------------------------------------------------------------
(* A step of worker v leaves the other workers where they are. *)
LEMMA OthersStay ==
    ASSUME IInv, NEW v \in Workers, NEW w \in Workers, w # v,
           UpsertAnime(v) \/ UpsertEpisode(v) \/ Abort(v)
    PROVE  /\ pc'[w] = pc[w]
           /\ \/ req'[w] = req[w]
              \/ CommitGenres(v) /\ pc[w] = "commitGenres" /\ req[v].id = req[w].id
<1>1. CASE CommitGenres(v)
  BY <1>1 DEF CommitGenres, Skips, Goto, IInv, TypeOK
<1>3. CASE UpsertAnime(v) /\ ~CommitGenres(v)
  BY <1>3
     DEF UpsertAnime, StartUpsertAnime, FindByTitle, FindStudio, InsertStudio,
         CreateAnime, UpdateAnime, AfterWrite, AfterGenre, FindGenre, InsertGenre,
         UniqueViolation, ClearGenres, Finish, Goto, IInv, TypeOK
<1>2. CASE UpsertEpisode(v) \/ Abort(v)
  BY <1>2
     DEF UpsertEpisode, StartUpsertEpisode, FindOrCreateSeason, InsertEpisode,
         RefreshCount, Abort, Finish, Goto, IInv, TypeOK
<1> QED
  BY <1>1, <1>2, <1>3

LEMMA SomeoneMoves ==
    ASSUME [Next]_vars
    PROVE  \/ \E v \in Workers : UpsertAnime(v) \/ UpsertEpisode(v) \/ Abort(v)
           \/ UNCHANGED <<pc, req, tags>>
  BY DEF Next, SoftDeleteBySource, SoftDeleteAnime, CreateSourceChannel,
         DeleteSourceChannel, vars

(* Who has not moved is not forgotten to have been overtaken. *)
LEMMA OvertakenKept ==
    ASSUME RStep, NEW w \in Workers, w \in overtaken,
           pc'[w] \in Before \cup {"commitGenres"}
    PROVE  w \in overtaken'
  BY RStepIsStep DEF Track, history

-----------------------------------------------------------------------------
(* What FindByTitle found stays true *)

(* The rows of other titles change, or none. *)
LEMMA OtherRowsFound ==
    ASSUME IInv, NEW w \in Workers, pc[w] \in Before, TitleFound(req[w]), Knows(req[w]),
           NEW k \in AnimeIds, animes'[k] # NULL,
           AnimeExists(k) => animes[k].title # req[w].title,
           animes'[k].title # req[w].title,
           \A j \in AnimeIds : j # k => animes'[j] = animes[j],
           req'[w] = req[w]
    PROVE  TitleFound(req[w])' /\ Knows(req[w])'
<1>1. CASE req[w].existing = NULL
  <2>1. TitleMatches(req[w].title) = {}
    BY <1>1 DEF Knows
  <2>2. TitleMatches(req[w].title)' = {}
    BY <2>1 DEF TitleMatches, LiveAnime, AnimeExists
  <2> QED
    BY <1>1, <2>2 DEF Knows, TitleFound
<1>2. CASE req[w].existing # NULL
  <2>1. req[w].id \in AnimeIds /\ AnimeExists(req[w].id)
    BY <1>2, WorkerIInv DEF Refers, AnimePCs, Before
  <2>2. animes'[req[w].id] = animes[req[w].id]
    BY <1>2, <2>1 DEF TitleFound
  <2> QED
    BY <1>2, <2>2 DEF Knows, TitleFound
<1> QED
  BY <1>1, <1>2

(* Titles stay what they are. *)
LEMMA TitleKept ==
    ASSUME IInv, NEW w \in Workers, pc[w] \in Before, TitleFound(req[w]), req'[w] = req[w],
           \A i \in AnimeIds : AnimeExists(i) => animes'[i].title = animes[i].title
    PROVE  TitleFound(req[w])'
<1>1. req[w].existing # NULL => req[w].id \in AnimeIds /\ AnimeExists(req[w].id)
  BY WorkerIInv DEF Refers, AnimePCs, Before
<1> QED
  BY <1>1 DEF TitleFound

(* Worker w does not move, or on to the studio of its request. *)
LEMMA FoundKept ==
    ASSUME IInv, RStep, NEW w \in Workers, AnimesKept, Found(w),
           pc'[w] \in Before \cup {"findTitle"} => req'[w] = req[w],
           pc'[w] \in Before => pc[w] \in Before,
           pc'[w] = "findTitle" => pc[w] = "findTitle"
    PROVE  Found(w)'
<1> SUFFICES ASSUME pc'[w] \in Before
             PROVE  TitleFound(req[w])' /\ (w \in overtaken' \/ Knows(req[w])')
  BY DEF Found
<1>1. TitleFound(req[w])'
  BY TitleKept DEF Found, AnimesKept
<1>2. CASE w \in overtaken
  BY <1>1, <1>2, OvertakenKept
<1>3. CASE w \notin overtaken /\ req[w].existing = NULL
  <2>1. TitleMatches(req[w].title) = {}
    BY <1>3 DEF Found, Knows
  <2>2. TitleMatches(req[w].title)' = {}
    BY <2>1 DEF TitleMatches, LiveAnime, AnimesKept
  <2> QED
    BY <1>1, <1>3, <2>2 DEF Knows
<1>4. CASE w \notin overtaken /\ req[w].existing # NULL
  <2>1. SameMetadata(req[w].existing, animes[req[w].id])
    BY <1>4 DEF Found, Knows
  <2>2. req[w].id \in AnimeIds /\ AnimeExists(req[w].id)
    BY <1>4, WorkerIInv DEF Refers, AnimePCs, Before
  <2>3. SameMetadata(animes[req[w].id], animes'[req[w].id])
    BY <2>2 DEF AnimesKept
  <2> QED
    BY <1>1, <1>4, <2>1, <2>3 DEF Knows, SameMetadata
<1> QED
  BY <1>2, <1>3, <1>4

(* Worker w looks the title up. *)
LEMMA FindByTitleFound ==
    ASSUME IInv, NEW w \in Workers, FindByTitle(w), Found(w)
    PROVE  Found(w)'
<1>1. req[w] \in AnimeRequest /\ animes' = animes
  BY WorkerIInv DEF FindByTitle, RequestOK, AnimePCs
<1>2. CASE TitleMatches(req[w].title) = {} /\ req' = req
  <2>1. TitleMatches(req[w].title)' = {}
    BY <1>1, <1>2 DEF TitleMatches, LiveAnime, AnimeExists
  <2>2. req[w].existing = NULL
    BY DEF Found, FindByTitle
  <2>3. pc'[w] # "findTitle"
    BY DEF FindByTitle, Goto, IInv, TypeOK
  <2> QED
    BY <1>2, <2>1, <2>2, <2>3 DEF Found, Knows, TitleFound
<1>3. ASSUME NEW i \in TitleMatches(req[w].title),
             req' = [req EXCEPT ![w].id = i, ![w].existing = animes[i]]
      PROVE  Found(w)'
  <2>1. i \in AnimeIds /\ animes[i] # NULL /\ animes[i].title = req[w].title
    BY DEF TitleMatches, LiveAnime, AnimeExists
  <2>2. req'[w].id = i /\ req'[w].existing = animes[i] /\ req'[w].title = req[w].title
    BY <1>1, <1>3 DEF IInv, TypeOK, AnimeRequest
  <2>3. pc'[w] # "findTitle"
    BY DEF FindByTitle, Goto, IInv, TypeOK
  <2> QED
    BY <1>1, <2>1, <2>2, <2>3 DEF Found, Knows, SameMetadata, TitleFound
<1> QED
  BY <1>2, <1>3 DEF FindByTitle

(* Worker w moves. *)
LEMMA MoverFound ==
    ASSUME IInv, RStep, NEW w \in Workers, Found(w),
           UpsertAnime(w) \/ UpsertEpisode(w) \/ Abort(w)
    PROVE  Found(w)'
<1>1. CASE FindByTitle(w)
  BY <1>1, FindByTitleFound
<1>2. CASE StartUpsertAnime(w)
  <2>1. /\ pc'[w] = "findTitle"
        /\ req'[w].existing = NULL
    BY <1>2 DEF StartUpsertAnime, Goto, IInv, TypeOK
  <2> QED
    BY <2>1 DEF Found, Before
<1>3. CASE FindStudio(w)
  <2>1. AnimesKept
    BY <1>3, AnimesUnchanged DEF FindStudio
  <2>2. /\ req'[w] = req[w] /\ pc[w] \in Before
        /\ pc'[w] # "findTitle"
    BY <1>3 DEF FindStudio, Goto, Before, IInv, TypeOK
  <2> QED
    BY <2>1, <2>2, FoundKept
<1>4. CASE InsertStudio(w)
  <2>1. AnimesKept
    BY <1>4, AnimesUnchanged DEF InsertStudio
  <2>2. \/ /\ req'[w] = req[w] /\ pc[w] \in Before
           /\ pc'[w] # "findTitle"
        \/ pc'[w] = "idle"
    BY <1>4 DEF InsertStudio, UniqueViolation, Finish, Goto, Before, IInv, TypeOK
  <2> QED
    BY <2>1, <2>2, FoundKept DEF Found, Before
<1>5. ASSUME pc'[w] \notin Before \cup {"findTitle"}
      PROVE  Found(w)'
  BY <1>5 DEF Found
<1>6. CASE UpsertAnime(w)
  BY <1>1, <1>2, <1>3, <1>4, <1>5, <1>6
     DEF UpsertAnime, CreateAnime, UpdateAnime, AfterWrite, AfterGenre, FindGenre,
         InsertGenre, UniqueViolation, ClearGenres, CommitGenres, Finish, Goto,
         Before, IInv, TypeOK
<1>7. CASE UpsertEpisode(w) \/ Abort(w)
  BY <1>5, <1>7
     DEF UpsertEpisode, StartUpsertEpisode, FindOrCreateSeason, InsertEpisode,
         RefreshCount, Abort, Finish, Goto, Before, IInv, TypeOK
<1> QED
  BY <1>6, <1>7

(* A write of UpsertAnime, as the one of a row of the title of its request. *)
LEMMA WriteOfTitle ==
    ASSUME IInv, SInv, NEW v \in Workers, CreateAnime(v) \/ UpdateAnime(v),
           animes' # animes
    PROVE  /\ WritesTitle(v)
           /\ \A i \in AnimeIds : AnimeExists(i) => animes'[i].title = animes[i].title
           /\ \E k \in AnimeIds :
                 /\ animes'[k] # NULL
                 /\ AnimeExists(k) => animes[k].title = req[v].title
                 /\ animes'[k].title = req[v].title
                 /\ \A j \in AnimeIds : j # k => animes'[j] = animes[j]
<1>1. WritesTitle(v)
  <2>2. pc[v] = "writeAnime" /\ pc'[v] # pc[v]
    BY DEF CreateAnime, UpdateAnime, AfterWrite, Finish, Goto, IInv, TypeOK
  <2> QED
    BY <2>2 DEF WritesTitle, Moved
<1>2. CASE CreateAnime(v)
  <2>1. PICK k \in AnimeIds, row \in AnimeRow :
           /\ ~AnimeExists(k)
           /\ row.title = req[v].title
           /\ animes'[k] = row
           /\ \A j \in AnimeIds : j # k => animes'[j] = animes[j]
    BY <1>2, CreateAnimeRow
  <2>2. row # NULL
    BY NullIsNoValue
  <2> QED
    BY <1>1, <2>1, <2>2
<1>3. CASE UpdateAnime(v)
  <2>1. PICK k \in AnimeIds, row \in AnimeRow :
           /\ AnimeExists(k)
           /\ k = req[v].id
           /\ row = MergedRow(req[v], animes[k])
           /\ animes'[k] = row
           /\ \A j \in AnimeIds : j # k => animes'[j] = animes[j]
    BY <1>3, UpdateAnimeRow
  <2>2. animes[k] \in AnimeRow /\ row # NULL
    BY <2>1, NullIsNoValue DEF AnimeExists, IInv, TypeOK, TablesOK
  <2>3. row.title = animes[k].title
    BY <2>1, <2>2 DEF MergedRow, AnimeRow
  <2>4. animes[k].title = req[v].title
    <3>1. pc[v] \in Before /\ req[v].existing # NULL
      BY <1>3 DEF UpdateAnime, Before
    <3> QED
      BY <2>1, <3>1 DEF SInv, Found, TitleFound
  <2> QED
    BY <1>1, <2>1, <2>2, <2>3, <2>4
<1> QED
  BY <1>2, <1>3

(* Another worker writes a title. *)
LEMMA BystanderFound ==
    ASSUME IInv, SInv, RStep, NEW v \in Workers, NEW w \in Workers, w # v,
           CreateAnime(v) \/ UpdateAnime(v), animes' # animes
    PROVE  Found(w)'
<1>1. pc'[w] = pc[w] /\ (pc[w] # "commitGenres" => req'[w] = req[w]) /\ Found(w)
  BY OthersStay DEF UpsertAnime, SInv
<1> SUFFICES ASSUME pc[w] \in Before, req'[w] = req[w]
             PROVE  TitleFound(req[w])' /\ (w \in overtaken' \/ Knows(req[w])')
  BY <1>1 DEF Found, Before
<1>2. WritesTitle(v)
  BY WriteOfTitle
<1>3. TitleFound(req[w])'
  BY <1>1, WriteOfTitle, TitleKept DEF Found
<1>4. CASE w \in overtaken
  BY <1>1, <1>3, <1>4, OvertakenKept
<1>5. CASE req[v].title = req[w].title
  <2>1. Overtakes(v, w)
    BY <1>2, <1>5 DEF Overtakes
  <2>2. Track
    BY <1>2, RStepIsStep DEF WritesTitle, Moved, vars
  <2> QED
    BY <1>1, <1>3, <2>1, <2>2 DEF Track
<1>6. CASE w \notin overtaken /\ req[v].title # req[w].title
  <2>1. PICK k \in AnimeIds :
           /\ animes'[k] # NULL
           /\ AnimeExists(k) => animes[k].title = req[v].title
           /\ animes'[k].title = req[v].title
           /\ \A j \in AnimeIds : j # k => animes'[j] = animes[j]
    BY WriteOfTitle
  <2>2. TitleFound(req[w]) /\ Knows(req[w])
    BY <1>1, <1>6 DEF Found
  <2> QED
    BY <1>1, <1>6, <2>1, <2>2, OtherRowsFound
<1> QED
  BY <1>4, <1>5, <1>6

LEMMA NextFound ==
    ASSUME IInv, SInv, RStep
    PROVE  SInv'
<1> SUFFICES ASSUME NEW w \in Workers PROVE Found(w)'
  BY DEF SInv
<1>1. [Next]_vars /\ Found(w)
  BY RStepIsStep DEF SInv
<1>2. CASE UpsertAnime(w) \/ UpsertEpisode(w) \/ Abort(w)
  BY <1>1, <1>2, MoverFound
<1>3. CASE ~(UpsertAnime(w) \/ UpsertEpisode(w) \/ Abort(w))
  <2>1. pc'[w] = pc[w] /\ (pc[w] # "commitGenres" => req'[w] = req[w])
    BY <1>1, <1>3, SomeoneMoves, OthersStay
  <2>2. CASE AnimesKept
    BY <1>1, <2>1, <2>2, FoundKept DEF Before
  <2>3. CASE ~AnimesKept
    <3>1. PICK v \in Workers : CreateAnime(v) \/ UpdateAnime(v)
      BY <1>1, <2>3, NextAnimes
    <3>2. v # w
      BY <1>3, <3>1 DEF UpsertAnime
    <3> QED
      BY <2>3, <3>1, <3>2, AnimesUnchanged, BystanderFound
  <2> QED
    BY <2>2, <2>3
<1> QED
  BY <1>2, <1>3

LEMMA InitFound == RInit => IInv /\ SInv /\ TitlesUniqueUnlessRaced
<1>1. RInit => Init
  BY DEF RInit
<1> QED
  BY <1>1, InitIInv
     DEF Init, SInv, Found, Before, TitlesUniqueUnlessRaced, LiveAnime, AnimeExists

-----------------------------------------------------------------------------
(* Who writes a title without having been overtaken knows what there is. *)
LEMMA RacedKept ==
    ASSUME RStep
    PROVE  raced \subseteq raced'
  BY RStepIsStep DEF Track, history

LEMMA WriterKnows ==
    ASSUME SInv, RStep, NEW w \in Workers, WritesTitle(w)
    PROVE  req[w].title \in raced' \/ Knows(req[w])
<1>1. Track
  BY RStepIsStep DEF WritesTitle, Moved, vars
<1>2. w \in overtaken => req[w].title \in raced'
  BY <1>1 DEF Track
<1>3. w \in overtaken \/ Knows(req[w])
  BY DEF SInv, Found, WritesTitle, Before
<1> QED
  BY <1>2, <1>3

LEMMA NextTitlesUnique ==
    ASSUME IInv, SInv, TitlesUniqueUnlessRaced, RStep
    PROVE  TitlesUniqueUnlessRaced'
<1> SUFFICES ASSUME NEW i \in AnimeIds, NEW j \in AnimeIds, i # j,
                    LiveAnime(i)', LiveAnime(j)', animes'[i].title = animes'[j].title
             PROVE  animes'[i].title \in raced'
  BY DEF TitlesUniqueUnlessRaced
<1>0. [Next]_vars /\ raced \subseteq raced'
  BY RStepIsStep, RacedKept
<1>1. CASE AnimesKept
  BY <1>0, <1>1 DEF AnimesKept, TitlesUniqueUnlessRaced, LiveAnime
<1>2. ASSUME NEW w \in Workers, CreateAnime(w), animes' # animes
      PROVE  animes'[i].title \in raced'
  <2>1. PICK k \in AnimeIds, row \in AnimeRow :
           /\ ~AnimeExists(k)
           /\ row.title = req[w].title
           /\ animes'[k] = row
           /\ \A l \in AnimeIds : l # k => animes'[l] = animes[l]
    BY <1>2, CreateAnimeRow
  <2>2. req[w].title \in raced' \/ TitleMatches(req[w].title) = {}
    BY <1>2, WriteOfTitle, WriterKnows, CreateAnimeRow DEF Knows
  <2>3. \A l \in AnimeIds :
           LiveAnime(l) /\ animes[l].title = req[w].title => req[w].title \in raced'
    BY <2>2 DEF TitleMatches
  <2> QED
    BY <1>0, <2>1, <2>3 DEF TitlesUniqueUnlessRaced, LiveAnime, AnimeExists
<1>3. ASSUME NEW w \in Workers, UpdateAnime(w)
      PROVE  animes'[i].title \in raced'
  <2>1. PICK k \in AnimeIds, row \in AnimeRow :
           /\ AnimeExists(k)
           /\ row = MergedRow(req[w], animes[k])
           /\ animes'[k] = row
           /\ \A l \in AnimeIds : l # k => animes'[l] = animes[l]
    BY <1>3, UpdateAnimeRow
  <2>2. animes[k] \in AnimeRow
    BY <2>1 DEF AnimeExists, IInv, TypeOK, TablesOK
  <2>3. row.title = animes[k].title /\ row.deleted = animes[k].deleted
    BY <2>1, <2>2 DEF MergedRow, AnimeRow
  <2> QED
    BY <1>0, <2>1, <2>3 DEF TitlesUniqueUnlessRaced, LiveAnime, AnimeExists
<1> QED
  BY <1>0, <1>1, <1>2, <1>3, NextAnimes, AnimesUnchanged

LEMMA NextRInv ==
    IInv /\ SInv /\ TitlesUniqueUnlessRaced /\ [RNext]_<<vars, history>>
       => (IInv /\ SInv /\ TitlesUniqueUnlessRaced)'
<1> SUFFICES ASSUME IInv, SInv, TitlesUniqueUnlessRaced, RStep
             PROVE  (IInv /\ SInv /\ TitlesUniqueUnlessRaced)'
  BY DEF RStep
<1> QED
  BY RStepIsStep, NextIInv, NextFound, NextTitlesUnique

(* However many announcements are imported at a time, two live rows share a *)
(* title only if a request wrote it that another one had overtaken since    *)
(* FindByTitle (ingest.go:60).                                              *)
THEOREM TitlesNeverDuplicatedUnraced == RSpec => []TitlesUniqueUnlessRaced
<1>1. IInv /\ SInv /\ TitlesUniqueUnlessRaced => TitlesUniqueUnlessRaced
  OBVIOUS
<1> QED
  BY InitFound, NextRInv, PTL DEF RSpec

LEMMA NextMerge ==
    ASSUME IInv, SInv, RStep, NEW i \in AnimeIds, AnimeExists(i), Blanked(i)
    PROVE  \E w \in overtaken : pc[w] = "writeAnime" /\ Moved(w) /\ req[w].id = i
<1>0. [Next]_vars
  BY RStepIsStep
<1>1. ~AnimesKept /\ animes' # animes
  BY AnimesUnchanged DEF AnimesKept, SameMetadata, Blanked
<1>2. ASSUME NEW w \in Workers, CreateAnime(w)
      PROVE  FALSE
  <2>1. animes'[i] = animes[i]
    BY <1>1, <1>2, CreateAnimeRow
  <2> QED
    BY <2>1 DEF Blanked
<1>3. PICK w \in Workers : UpdateAnime(w)
  BY <1>0, <1>1, <1>2, NextAnimes
<1>4. PICK k \in AnimeIds, row \in AnimeRow :
         /\ AnimeExists(k)
         /\ k = req[w].id
         /\ row = MergedRow(req[w], animes[k])
         /\ animes'[k] = row
         /\ \A l \in AnimeIds : l # k => animes'[l] = animes[l]
  BY <1>3, UpdateAnimeRow
<1>5. i = k
  BY <1>4 DEF Blanked
<1>6. pc[w] = "writeAnime" /\ Moved(w) /\ req[w].existing # NULL
  BY <1>1, <1>3, WriteOfTitle DEF WritesTitle, UpdateAnime
<1>7. ASSUME w \notin overtaken PROVE FALSE
  <2>1. SameMetadata(req[w].existing, animes[k])
    BY <1>4, <1>6, <1>7 DEF SInv, Found, Knows, Before
  <2>2. animes[k] \in AnimeRow /\ req[w] \in AnimeRequest
    BY <1>3, <1>4, UpdateAnimeRow DEF AnimeExists, IInv, TypeOK, TablesOK
  <2>3. /\ row.details = Merge(req[w].details, req[w].existing.details)
        /\ row.poster = Merge(req[w].poster, req[w].existing.poster)
        /\ row.published = (req[w].existing.published \/ req[w].auto)
    BY <1>4, <2>2 DEF MergedRow, AnimeRow
  <2> QED
    BY <1>4, <1>5, <2>1, <2>3 DEF Merge, SameMetadata, Blanked
<1> QED
  BY <1>4, <1>5, <1>6, <1>7

(* However many announcements are imported at a time, one blanks out what an *)
(* earlier one stored only if another one overtook it.                       *)
THEOREM MetadataNeverBlankedUnraced == RSpec => BlankedOnlyIfOvertaken
<1>1. IInv /\ SInv /\ TitlesUniqueUnlessRaced /\ [RNext]_<<vars, history>> =>
         [\A i \in AnimeIds : AnimeExists(i) /\ Blanked(i) =>
             \E w \in overtaken :
                pc[w] = "writeAnime" /\ Moved(w) /\ req[w].id = i]_vars
  BY NextMerge DEF RStep
<1> QED
  BY <1>1, InitFound, NextRInv, PTL DEF RSpec, BlankedOnlyIfOvertaken

-----------------------------------------------------------------------------
(* The genres                                                               *)

(* Until it is overtaken, SetGenres deletes the genres there are. *)
Clears(w) ==
    pc[w] = "commitGenres" => w \in overtaken \/ req[w].cleared = tags[req[w].id]

ClearsAll == \A w \in Workers : Clears(w)

(* Only the commit of SetGenres changes the genres of an anime. *)
LEMMA GenresWritten ==
    ASSUME IInv, [Next]_vars, tags' # tags
    PROVE  \E v \in Workers :
              /\ CommitGenres(v)
              /\ req[v] \in AnimeRequest /\ req[v].id \in AnimeIds
              /\ \A i \in AnimeIds :
                    tags'[i] = IF i = req[v].id
                               THEN (tags[i] \ req[v].cleared) \cup req[v].genres
                               ELSE tags[i]
<1>1. PICK v \in Workers : CommitGenres(v)
  BY DEF Next, UpsertAnime, StartUpsertAnime, FindByTitle, FindStudio, InsertStudio,
         CreateAnime, UpdateAnime, FindGenre, InsertGenre, ClearGenres, UpsertEpisode,
         StartUpsertEpisode, FindOrCreateSeason, InsertEpisode, RefreshCount, Abort,
         SoftDeleteBySource, SoftDeleteAnime, CreateSourceChannel, DeleteSourceChannel, vars
<1>2. req[v] \in AnimeRequest /\ req[v].id \in AnimeIds
  BY <1>1, WorkerIInv DEF CommitGenres, RequestOK, Refers, AnimePCs
<1>3. ASSUME NEW i \in AnimeIds
      PROVE  tags'[i] = IF i = req[v].id
                        THEN (tags[i] \ req[v].cleared) \cup req[v].genres
                        ELSE tags[i]
  BY <1>1, <1>2 DEF CommitGenres, IInv, TypeOK, TablesOK
<1> QED
  BY <1>1, <1>2, <1>3

LEMMA MoverClears ==
    ASSUME IInv, NEW w \in Workers, UpsertAnime(w) \/ UpsertEpisode(w) \/ Abort(w)
    PROVE  Clears(w)'
<1>1. CASE ClearGenres(w)
  <2>1. req[w] \in AnimeRequest
    BY <1>1, WorkerIInv DEF ClearGenres, RequestOK, AnimePCs
  <2>2. /\ req'[w].cleared = tags[req[w].id] /\ req'[w].id = req[w].id
        /\ tags' = tags
    BY <1>1, <2>1 DEF ClearGenres, AnimeRequest, IInv, TypeOK
  <2> QED
    BY <2>2 DEF Clears
<1>2. ASSUME ~ClearGenres(w) PROVE pc'[w] # "commitGenres"
  <2>1. CASE UpsertAnime(w)
    BY <1>2, <2>1
       DEF UpsertAnime, StartUpsertAnime, FindByTitle, FindStudio, InsertStudio,
           CreateAnime, UpdateAnime, AfterWrite, AfterGenre, FindGenre, InsertGenre,
           UniqueViolation, CommitGenres, Finish, Goto, IInv, TypeOK
  <2>2. CASE UpsertEpisode(w) \/ Abort(w)
    BY <2>2
       DEF UpsertEpisode, StartUpsertEpisode, FindOrCreateSeason, InsertEpisode,
           RefreshCount, Abort, Finish, Goto, IInv, TypeOK
  <2> QED
    BY <2>1, <2>2
<1> QED
  BY <1>1, <1>2 DEF Clears

LEMMA NextClearsAll ==
    ASSUME IInv, ClearsAll, RStep
    PROVE  ClearsAll'
<1> SUFFICES ASSUME NEW w \in Workers PROVE Clears(w)'
  BY DEF ClearsAll
<1>1. [Next]_vars /\ Clears(w)
  BY RStepIsStep DEF ClearsAll
<1>2. CASE UpsertAnime(w) \/ UpsertEpisode(w) \/ Abort(w)
  BY <1>2, MoverClears
<1>3. CASE \E v \in Workers : v # w /\ CommitGenres(v) /\ req[v].id = req[w].id
  <2> SUFFICES ASSUME pc'[w] = "commitGenres" PROVE w \in overtaken'
    BY DEF Clears
  <2>1. PICK v \in Workers : v # w /\ CommitGenres(v) /\ req[v].id = req[w].id
    BY <1>3
  <2>2. pc[w] = "commitGenres" /\ pc'[v] # pc[v]
    BY <2>1 DEF CommitGenres, Goto, IInv, TypeOK
  <2>3. Overtakes(v, w)
    BY <2>1, <2>2 DEF Overtakes
  <2>4. Track
    BY <2>2, RStepIsStep DEF vars
  <2> QED
    BY <2>3, <2>4 DEF Track
<1>4. CASE /\ ~(UpsertAnime(w) \/ UpsertEpisode(w) \/ Abort(w))
           /\ ~\E v \in Workers : v # w /\ CommitGenres(v) /\ req[v].id = req[w].id
  <2>1. pc'[w] = pc[w] /\ req'[w] = req[w]
    BY <1>1, <1>4, SomeoneMoves, OthersStay
  <2> SUFFICES ASSUME pc[w] = "commitGenres"
               PROVE  w \in overtaken' \/ req[w].cleared = tags'[req[w].id]
    BY <2>1 DEF Clears
  <2>2. CASE w \in overtaken
    BY <2>1, <2>2, OvertakenKept
  <2>3. CASE tags' = tags /\ w \notin overtaken
    BY <1>1, <2>3 DEF Clears
  <2>4. CASE tags' # tags /\ w \notin overtaken
    <3>1. PICK v \in Workers :
             /\ CommitGenres(v)
             /\ \A i \in AnimeIds : i # req[v].id => tags'[i] = tags[i]
      BY <1>1, <2>4, GenresWritten
    <3>2. v # w
      BY <1>4, <3>1 DEF UpsertAnime
    <3>3. req[w].id \in AnimeIds
      BY WorkerIInv DEF Refers, AnimePCs
    <3> QED
      BY <1>1, <1>4, <2>4, <3>1, <3>2, <3>3 DEF Clears
  <2> QED
    BY <2>2, <2>3, <2>4
<1> QED
  BY <1>2, <1>3, <1>4

LEMMA NextGenres ==
    ASSUME IInv, ClearsAll, RStep, NEW i \in AnimeIds, tags'[i] # tags[i]
    PROVE  \E w \in Workers : /\ pc[w] = "commitGenres" /\ Moved(w)
                              /\ req[w].id = i
                              /\ w \in overtaken \/ tags'[i] = req[w].genres
<1>0. [Next]_vars
  BY RStepIsStep
<1>1. PICK w \in Workers :
         /\ CommitGenres(w)
         /\ tags'[i] = IF i = req[w].id
                       THEN (tags[i] \ req[w].cleared) \cup req[w].genres
                       ELSE tags[i]
  BY <1>0, GenresWritten
<1>2. i = req[w].id /\ pc[w] = "commitGenres" /\ Moved(w)
  BY <1>1 DEF Moved, CommitGenres, Goto, IInv, TypeOK
<1>3. w \in overtaken \/ req[w].cleared = tags[i]
  BY <1>2 DEF ClearsAll, Clears
<1>4. w \in overtaken \/ tags'[i] = req[w].genres
  BY <1>1, <1>2, <1>3
<1> QED
  BY <1>2, <1>4

(* However many SetGenres transactions run at a time, one that no other has *)
(* overtaken leaves the genres of its announcement and nothing of earlier   *)
(* ones.                                                                    *)
THEOREM GenresNeverMixedUnraced == RSpec => GenresMixOnlyIfOvertaken
<1>1. RInit => IInv /\ ClearsAll
  BY InitIInv DEF RInit, Init, ClearsAll, Clears
<1>2. IInv /\ ClearsAll /\ [RNext]_<<vars, history>> => (IInv /\ ClearsAll)'
  BY NextIInv, NextClearsAll, RStepIsStep DEF RStep
<1>3. IInv /\ ClearsAll /\ [RNext]_<<vars, history>> =>
         [\A i \in AnimeIds : tags'[i] # tags[i] =>
             \E w \in Workers : /\ pc[w] = "commitGenres" /\ Moved(w)
                                /\ req[w].id = i
                                /\ w \in overtaken \/ tags'[i] = req[w].genres]_vars
  BY NextGenres DEF RStep
<1> QED
  BY <1>1, <1>2, <1>3, PTL DEF RSpec, GenresMixOnlyIfOvertaken

-----------------------------------------------------------------------------
(* The table implements the catalogue                                       *)

(* ListedEntry, of any table of animes. *)
Matches(table, t) ==
    {i \in AnimeIds : /\ table[i] # NULL
                      /\ ~table[i].deleted
                      /\ table[i].title = t}

Listing(row) == [details |-> row.details, published |-> row.published]

Listed(table, t) ==
    IF Matches(table, t) = {}
    THEN NULL
    ELSE LET i == CHOOSE i \in Matches(table, t) : TRUE
         IN  [details |-> table[i].details, published |-> table[i].published]

Entry(table, r, t) == IF t \in r THEN Contested ELSE Listed(table, t)

Entries(table, r) == [t \in Titles |-> Entry(table, r, t)]

LEMMA EntriesListed ==
    /\ [t \in Titles |-> ListedEntry(t)] = Entries(animes, raced)
    /\ [t \in Titles |-> ListedEntry(t)]' = Entries(animes', raced')
<1>1. \A t : ListedEntry(t) = Entry(animes, raced, t)
  BY DEF ListedEntry, Entry, Listed, TitleMatches, Matches, LiveAnime, AnimeExists
<1>2. \A t : ListedEntry(t)' = Entry(animes', raced', t)
  BY DEF ListedEntry, Entry, Listed, TitleMatches, Matches, LiveAnime, AnimeExists
<1> QED
  BY <1>1, <1>2 DEF Entries

LEMMA ListedOne ==
    ASSUME NEW table, NEW t, NEW i, Matches(table, t) = {i}
    PROVE  Listed(table, t) = Listing(table[i])
  BY DEF Listed, Listing

LEMMA ListedSame ==
    ASSUME NEW old, NEW new, NEW t, Matches(new, t) = Matches(old, t),
           \A i \in Matches(old, t) : Listing(new[i]) = Listing(old[i])
    PROVE  Listed(new, t) = Listed(old, t)
<1>1. CASE Matches(old, t) = {}
  BY <1>1 DEF Listed
<1>2. CASE Matches(old, t) # {}
  <2>1. PICK i \in Matches(old, t) : i = CHOOSE j \in Matches(old, t) : TRUE
    BY <1>2
  <2>2. Listed(old, t) = Listing(old[i]) /\ Listed(new, t) = Listing(new[i])
    BY <1>2, <2>1 DEF Listed, Listing
  <2> QED
    BY <2>1, <2>2
<1> QED
  BY <1>1, <1>2

(* A table in which one row changes, and whether its title was raced for. *)
LEMMA OneEntryChanges ==
    ASSUME NEW old, NEW new, NEW i \in AnimeIds, NEW title \in Titles,
           \A j \in AnimeIds : j # i => new[j] = old[j],
           old[i] # NULL /\ ~old[i].deleted => old[i].title = title,
           new[i] # NULL /\ ~new[i].deleted => new[i].title = title,
           NEW r, NEW q, \A t : t # title => (t \in q <=> t \in r),
           NEW changed, Entry(new, q, title) = changed
    PROVE  Entries(new, q) = [Entries(old, r) EXCEPT ![title] = changed]
<1>1. ASSUME NEW t \in Titles, t # title
      PROVE  Entry(new, q, t) = Entry(old, r, t)
  <2>1. \A j \in AnimeIds : j \in Matches(new, t) <=> j \in Matches(old, t)
    BY <1>1 DEF Matches
  <2>2. Matches(new, t) = Matches(old, t)
    BY <2>1 DEF Matches
  <2>3. \A j \in Matches(old, t) : j # i /\ j \in AnimeIds
    BY <1>1 DEF Matches
  <2>4. \A j \in Matches(old, t) : Listing(new[j]) = Listing(old[j])
    BY <2>3
  <2>5. Listed(new, t) = Listed(old, t)
    BY <2>2, <2>4, ListedSame
  <2> QED
    BY <1>1, <2>5 DEF Entry
<1> QED
  BY <1>1 DEF Entries

LEMMA OnlyMatch ==
    ASSUME TitlesUniqueUnlessRaced, NEW i \in AnimeIds, LiveAnime(i),
           animes[i].title \notin raced
    PROVE  Matches(animes, animes[i].title) = {i}
  BY DEF TitlesUniqueUnlessRaced, Matches, LiveAnime, AnimeExists

LEMMA ListingIsEntry ==
    ASSUME NEW row \in AnimeRow
    PROVE  Listing(row) \notin {NULL, Contested}
<1>1. Listing(row) \in [details: Details \cup {NULL}, published: BOOLEAN]
  BY DEF Listing, AnimeRow
<1> QED
  BY <1>1, NullIsNoValue, ContestedIsNoEntry

(* Steps that leave every entry as it is. *)
LEMMA KeptEntries ==
    ASSUME AnimesKept, DeletedKept, raced' = raced
    PROVE  UNCHANGED [t \in Titles |-> ListedEntry(t)]
<1>1. ASSUME NEW t \in Titles
      PROVE  Entry(animes', raced', t) = Entry(animes, raced, t)
  <2>1. \A i \in AnimeIds : i \in Matches(animes', t) <=> i \in Matches(animes, t)
    BY DEF AnimesKept, DeletedKept, Matches, AnimeExists
  <2>2. Matches(animes', t) = Matches(animes, t)
    BY <2>1 DEF Matches
  <2>3. \A i \in Matches(animes, t) : Listing(animes'[i]) = Listing(animes[i])
    BY DEF AnimesKept, Matches, AnimeExists, SameMetadata, Listing
  <2>4. Listed(animes', t) = Listed(animes, t)
    BY <2>2, <2>3, ListedSame
  <2> QED
    BY <2>4 DEF Entry
<1> QED
  BY <1>1, EntriesListed DEF Entries

(* A title that is contested after the step. *)
LEMMA ContestedEntry ==
    ASSUME NEW i \in AnimeIds, NEW title \in Titles, title \in raced',
           \A j \in AnimeIds : j # i => animes'[j] = animes[j],
           LiveAnime(i) => animes[i].title = title,
           animes'[i] # NULL /\ ~animes'[i].deleted => animes'[i].title = title,
           \A t : t # title => (t \in raced' <=> t \in raced)
    PROVE  Abstract!Next
<1> DEFINE e == [t \in Titles |-> ListedEntry(t)]
<1>1. Entry(animes', raced', title) = Contested
  BY DEF Entry
<1>2. animes[i] # NULL /\ ~animes[i].deleted => animes[i].title = title
  BY DEF LiveAnime, AnimeExists
<1>3. PICK old, new, r, q : old = animes /\ new = animes' /\ r = raced /\ q = raced'
  OBVIOUS
<1>4. Entries(new, q) = [Entries(old, r) EXCEPT ![title] = Contested]
  BY <1>1, <1>2, <1>3, OneEntryChanges
<1>5. e' = [e EXCEPT ![title] = Contested]
  BY <1>3, <1>4, EntriesListed
<1> QED
  BY <1>5 DEF Abstract!Next, Abstract!Contest

(* The soft deletion of a listed anime removes its entry. *)
LEMMA SoftDeleteAnimeEntry ==
    ASSUME IInv, TitlesUniqueUnlessRaced, NEW i \in AnimeIds, SoftDeleteAnime(i),
           LiveAnime(i), raced' = raced
    PROVE  Abstract!Next
<1> DEFINE e == [t \in Titles |-> ListedEntry(t)]
           title == animes[i].title
<1>1. animes[i] \in AnimeRow /\ title \in Titles
  BY DEF LiveAnime, AnimeExists, IInv, TypeOK, TablesOK, AnimeRow
<1>2. PICK row : row = [animes[i] EXCEPT !.deleted = TRUE]
  OBVIOUS
<1>3. row.deleted
  BY <1>1, <1>2 DEF AnimeRow
<1>4. animes'[i] = row /\ \A j \in AnimeIds : j # i => animes'[j] = animes[j]
  BY <1>2 DEF SoftDeleteAnime, IInv, TypeOK, TablesOK
<1>5. CASE title \in raced
  BY <1>1, <1>3, <1>4, <1>5, ContestedEntry
<1>6. CASE title \notin raced
  <2>1. Matches(animes, title) = {i}
    BY <1>6, OnlyMatch
  <2>2. Matches(animes', title) = {}
    BY <1>3, <1>4, <2>1 DEF Matches
  <2>3. Entry(animes', raced', title) = NULL
    BY <1>6, <2>2 DEF Entry, Listed
  <2>4. Entries(animes', raced') = [Entries(animes, raced) EXCEPT ![title] = NULL]
    <3>1. PICK old, new : old = animes /\ new = animes'
      OBVIOUS
    <3>2. Entries(new, raced') = [Entries(old, raced) EXCEPT ![title] = NULL]
      BY <1>1, <1>3, <1>4, <2>3, <3>1, OneEntryChanges
    <3> QED
      BY <3>1, <3>2
  <2>5. Listed(animes, title) \notin {NULL, Contested}
    BY <1>1, <2>1, ListedOne, ListingIsEntry
  <2>6. e[title] \notin {NULL, Contested} /\ e' = [e EXCEPT ![title] = NULL]
    BY <1>1, <1>6, <2>4, <2>5, EntriesListed DEF Entries, Entry
  <2> QED
    BY <1>1, <2>6 DEF Abstract!Next, Abstract!Remove
<1> QED
  BY <1>5, <1>6

(* The INSERT of UpsertAnime posts a title that has no entry. *)
LEMMA CreateAnimeEntry ==
    ASSUME IInv, NEW w \in Workers, CreateAnime(w), animes' # animes, Knows(req[w]),
           raced' = raced, req[w].title \notin raced
    PROVE  Abstract!Next
<1> DEFINE e == [t \in Titles |-> ListedEntry(t)]
<1>1. req[w] \in AnimeRequest
  BY WorkerIInv DEF CreateAnime, RequestOK, AnimePCs
<1>2. PICK title \in Titles, d \in Details \cup {NULL}, auto \in AutoPublish :
         title = req[w].title /\ d = req[w].details /\ auto = req[w].auto
  BY <1>1 DEF AnimeRequest
<1>3. PICK i \in AnimeIds, row \in AnimeRow :
         /\ ~AnimeExists(i)
         /\ row.title = title
         /\ row.details = d /\ row.published = auto
         /\ ~row.deleted
         /\ animes'[i] = row
         /\ \A j \in AnimeIds : j # i => animes'[j] = animes[j]
  BY <1>2, CreateAnimeRow
<1>4. Matches(animes, title) = {}
  <2>1. TitleMatches(req[w].title) = {}
    BY CreateAnimeRow DEF Knows
  <2> QED
    BY <1>2, <2>1 DEF TitleMatches, Matches, LiveAnime, AnimeExists
<1>5. Matches(animes', title) = {i}
  BY <1>3, <1>4, NullIsNoValue DEF Matches
<1>6. Entry(animes, raced, title) = NULL
  BY <1>2, <1>4 DEF Entry, Listed
<1>7. Entry(animes', raced', title) = [details |-> d, published |-> auto]
  BY <1>2, <1>3, <1>5, ListedOne DEF Entry, Listing
<1>8. Entries(animes', raced')
         = [Entries(animes, raced) EXCEPT ![title] = [details |-> d, published |-> auto]]
  BY <1>3, <1>7, OneEntryChanges DEF AnimeExists
<1>9. e[title] = NULL /\ e' = [e EXCEPT ![title] = [details |-> d, published |-> auto]]
  BY <1>6, <1>8, EntriesListed DEF Entries
<1>10. Abstract!Post(title, d, auto)
  BY <1>9, ContestedIsNoEntry DEF Abstract!Post, Abstract!Merged
<1> QED
  BY <1>10 DEF Abstract!Next

(* The UPDATE of UpsertAnime merges the post into the entry of its title,   *)
(* or writes to a row that was deleted since.                               *)
LEMMA UpdateAnimeEntry ==
    ASSUME IInv, TitlesUniqueUnlessRaced, NEW w \in Workers, UpdateAnime(w),
           Knows(req[w]), TitleFound(req[w]), raced' = raced, req[w].title \notin raced
    PROVE  Abstract!Next \/ UNCHANGED [t \in Titles |-> ListedEntry(t)]
<1> DEFINE e == [t \in Titles |-> ListedEntry(t)]
<1>1. req[w] \in AnimeRequest
  BY UpdateAnimeRow
<1>2. PICK i \in AnimeIds, row \in AnimeRow :
         /\ AnimeExists(i)
         /\ i = req[w].id
         /\ row = MergedRow(req[w], animes[i])
         /\ animes'[i] = row
         /\ \A j \in AnimeIds : j # i => animes'[j] = animes[j]
  BY UpdateAnimeRow
<1>3. PICK old : old = animes[i]
  OBVIOUS
<1>4. old \in AnimeRow /\ old # NULL
  BY <1>2, <1>3 DEF AnimeExists, IInv, TypeOK, TablesOK
<1>5. SameMetadata(req[w].existing, old)
  BY <1>2, <1>3, UpdateAnimeRow DEF Knows
<1>6. PICK title \in Titles, d \in Details \cup {NULL}, auto \in AutoPublish :
         title = old.title /\ d = req[w].details /\ auto = req[w].auto
  BY <1>1, <1>4 DEF AnimeRequest, AnimeRow
<1>7. /\ row.title = title
      /\ row.deleted = old.deleted
      /\ row.details = Merge(d, old.details)
      /\ row.published = (old.published \/ auto)
  BY <1>1, <1>2, <1>3, <1>4, <1>5, <1>6 DEF MergedRow, AnimeRow, SameMetadata
<1>0. title = req[w].title /\ title \notin raced
  BY <1>2, <1>3, <1>6, UpdateAnimeRow DEF TitleFound
<1>8. CASE old.deleted
  <2>1. ASSUME NEW t \in Titles
        PROVE  Entry(animes', raced', t) = Entry(animes, raced, t)
    <3>1. \A j \in AnimeIds : j \in Matches(animes', t) <=> j \in Matches(animes, t)
      BY <1>2, <1>3, <1>7, <1>8 DEF Matches
    <3>2. Matches(animes', t) = Matches(animes, t)
      BY <3>1 DEF Matches
    <3>3. \A j \in Matches(animes, t) : Listing(animes'[j]) = Listing(animes[j])
      BY <1>2, <1>3, <1>8 DEF Matches
    <3>4. Listed(animes', t) = Listed(animes, t)
      BY <3>2, <3>3, ListedSame
    <3> QED
      BY <3>4 DEF Entry
  <2> QED
    BY <2>1, EntriesListed DEF Entries
<1>9. CASE ~old.deleted
  <2>0. PICK new : new = [details |-> Merge(d, old.details),
                         published |-> (old.published \/ auto)]
    OBVIOUS
  <2>1. Matches(animes, title) = {i}
    BY <1>0, <1>2, <1>3, <1>6, <1>9, OnlyMatch DEF LiveAnime
  <2>2. \A j \in AnimeIds : j \in Matches(animes', title) <=> j = i
    BY <1>2, <1>4, <1>7, <1>9, <2>1, NullIsNoValue DEF Matches
  <2>3. Matches(animes', title) = {i}
    BY <2>2 DEF Matches
  <2>4. Entry(animes, raced, title) = Listing(old)
    BY <1>0, <1>3, <2>1, ListedOne DEF Entry
  <2>5. Entry(animes', raced', title) = new
    <3>1. PICK after : after = animes'
      OBVIOUS
    <3>2. Listed(after, title) = Listing(after[i])
      BY <2>3, <3>1, ListedOne
    <3>3. Listing(after[i]) = new
      BY <1>2, <1>7, <2>0, <3>1 DEF Listing
    <3> QED
      BY <1>0, <3>1, <3>2, <3>3 DEF Entry
  <2>6. Entries(animes', raced') = [Entries(animes, raced) EXCEPT ![title] = new]
    <3>1. animes[i].title = title /\ animes'[i].title = title
      BY <1>2, <1>3, <1>6, <1>7
    <3>2. \A j \in AnimeIds : j # i => animes'[j] = animes[j]
      BY <1>2
    <3>3. PICK before, after : before = animes /\ after = animes'
      OBVIOUS
    <3>4. Entry(after, raced', title) = new
      BY <2>5, <3>3
    <3>5. /\ \A j \in AnimeIds : j # i => after[j] = before[j]
          /\ before[i] # NULL /\ ~before[i].deleted => before[i].title = title
          /\ after[i] # NULL /\ ~after[i].deleted => after[i].title = title
      BY <3>1, <3>2, <3>3
    <3>6. PICK r : r = raced /\ r = raced'
      OBVIOUS
    <3>7. Entries(after, r) = [Entries(before, r) EXCEPT ![title] = new]
      BY <3>4, <3>5, <3>6, OneEntryChanges
    <3> QED
      BY <3>3, <3>6, <3>7
  <2>7. e[title] = Listing(old) /\ e' = [e EXCEPT ![title] = new]
    BY <2>4, <2>6, EntriesListed DEF Entries
  <2>8. Abstract!Merged(Listing(old), d, auto) = new
    BY <1>4, <2>0, ListingIsEntry DEF Abstract!Merged, Listing, Merge
  <2>9. Abstract!Post(title, d, auto)
    BY <1>4, <2>7, <2>8, ListingIsEntry DEF Abstract!Post
  <2> QED
    BY <2>9 DEF Abstract!Next
<1> QED
  BY <1>8, <1>9

(* Who writes a title: it is contested after the step, or raced is the same. *)
LEMMA WriteRaces ==
    ASSUME IInv, RStep, overtaken \subseteq Workers, NEW w \in Workers, WritesTitle(w)
    PROVE  /\ CreateAnime(w) \/ UpdateAnime(w)
           /\ raced' \subseteq raced \cup {req[w].title} /\ raced \subseteq raced'
<1>1. [Next]_vars /\ Track
  BY RStepIsStep DEF WritesTitle, Moved, vars
<1>2. UpsertAnime(w) \/ UpsertEpisode(w) \/ Abort(w)
  BY <1>1, SomeoneMoves, OthersStay DEF WritesTitle, Moved
<1>3. CreateAnime(w) \/ UpdateAnime(w)
  BY <1>2 DEF WritesTitle, UpsertAnime, UpsertEpisode, Abort, StartUpsertAnime,
         FindByTitle, FindStudio, InsertStudio, FindGenre, InsertGenre, ClearGenres,
         CommitGenres, StartUpsertEpisode, FindOrCreateSeason, InsertEpisode, RefreshCount
<1>4. \A v \in Workers : WritesTitle(v) => v = w
  BY <1>2, OthersStay DEF WritesTitle, Moved
<1>5. raced' \subseteq raced \cup {req[w].title}
  <2>1. \A v \in overtaken : WritesTitle(v) => v = w
    BY <1>4
  <2>2. raced' = raced \cup {req[v].title : v \in {v \in overtaken : WritesTitle(v)}}
    BY <1>1 DEF Track
  <2> QED
    BY <2>1, <2>2
<1> QED
  BY <1>3, <1>5, RacedKept

LEMMA NoWriteNoRace ==
    ASSUME RStep, \A w \in Workers : ~WritesTitle(w), overtaken \subseteq Workers
    PROVE  raced' = raced
  BY RStepIsStep DEF Track, history

LEMMA WriteEntry ==
    ASSUME IInv, SInv, TitlesUniqueUnlessRaced, RStep, overtaken \subseteq Workers,
           NEW w \in Workers, WritesTitle(w)
    PROVE  Abstract!Next \/ UNCHANGED [t \in Titles |-> ListedEntry(t)]
<1>1. /\ CreateAnime(w) \/ UpdateAnime(w)
      /\ animes' # animes
      /\ raced' \subseteq raced \cup {req[w].title} /\ raced \subseteq raced'
  BY WriteRaces DEF WritesTitle
<1>2. req[w].title \in Titles
  BY <1>1, WorkerIInv DEF CreateAnime, UpdateAnime, RequestOK, AnimePCs, AnimeRequest
<1>3. CASE req[w].title \in raced'
  <2>1. PICK k \in AnimeIds :
           /\ animes'[k] # NULL
           /\ AnimeExists(k) => animes[k].title = req[w].title
           /\ animes'[k].title = req[w].title
           /\ \A j \in AnimeIds : j # k => animes'[j] = animes[j]
    BY <1>1, WriteOfTitle
  <2> QED
    BY <1>1, <1>2, <1>3, <2>1, ContestedEntry DEF LiveAnime
<1>4. CASE req[w].title \notin raced'
  <2>1. raced' = raced /\ req[w].title \notin raced
    BY <1>1, <1>4
  <2>2. Knows(req[w])
    BY <1>4, WriterKnows
  <2>3. TitleFound(req[w])
    BY DEF SInv, Found, WritesTitle, Before
  <2> QED
    BY <1>1, <2>1, <2>2, <2>3, CreateAnimeEntry, UpdateAnimeEntry
<1> QED
  BY <1>3, <1>4

LEMMA NextEntries ==
    ASSUME IInv, SInv, TitlesUniqueUnlessRaced, RStep, overtaken \subseteq Workers
    PROVE  Abstract!Next \/ UNCHANGED [t \in Titles |-> ListedEntry(t)]
<1>1. [Next]_vars
  BY RStepIsStep
<1>2. CASE \E w \in Workers : WritesTitle(w)
  BY <1>2, WriteEntry
<1>3. CASE \A w \in Workers : ~WritesTitle(w)
  <2>1. raced' = raced
    BY <1>3, NoWriteNoRace
  <2>2. CASE AnimesKept /\ DeletedKept
    BY <2>1, <2>2, KeptEntries
  <2>3. ASSUME NEW i \in AnimeIds, SoftDeleteAnime(i), AnimesKept
        PROVE  Abstract!Next \/ UNCHANGED [t \in Titles |-> ListedEntry(t)]
    <3>1. CASE LiveAnime(i)
      BY <2>1, <2>3, <3>1, SoftDeleteAnimeEntry
    <3>2. CASE ~LiveAnime(i)
      <4>1. \A j \in AnimeIds : j # i => animes'[j] = animes[j]
        BY <2>3 DEF SoftDeleteAnime, IInv, TypeOK, TablesOK
      <4>2. AnimeExists(i) => animes[i].deleted = TRUE /\ animes'[i].deleted = TRUE
        BY <2>3, <3>2 DEF LiveAnime, AnimeExists, SoftDeleteAnime, IInv, TypeOK,
                          TablesOK, AnimeRow
      <4>3. DeletedKept
        BY <4>1, <4>2 DEF DeletedKept
      <4> QED
        BY <2>1, <2>3, <4>3, KeptEntries
    <3> QED
      BY <3>1, <3>2
  <2>4. ASSUME NEW w \in Workers, CreateAnime(w) \/ UpdateAnime(w)
        PROVE  animes' = animes
    BY <1>3, <2>4, WriteOfTitle
  <2> QED
    BY <1>1, <2>1, <2>2, <2>3, <2>4, AnimesUnchanged, NextAnimes
<1> QED
  BY <1>2, <1>3

(* However many requests overlap, they implement module Catalog: a title    *)
(* that no overtaken request has written is one entry, changed by merging a *)
(* post into it and by removal only.                                        *)
THEOREM IngestRefinesCatalog == RSpec => RefinesCatalog
<1> DEFINE e == [t \in Titles |-> ListedEntry(t)]
           Inv == /\ IInv /\ SInv /\ TitlesUniqueUnlessRaced
                  /\ overtaken \subseteq Workers
<1>1. RInit => Inv
  BY InitFound DEF RInit
<1>2. RInit => Abstract!Init
  BY DEF RInit, Init, Abstract!Init, ListedEntry, TitleMatches, LiveAnime, AnimeExists
<1>3. Inv /\ [RNext]_<<vars, history>> => Inv'
  <2>1. overtaken \subseteq Workers /\ [RNext]_<<vars, history>>
           => overtaken' \subseteq Workers
    BY DEF RNext, Track, history
  <2> QED
    BY <2>1, NextRInv
<1>4. Inv /\ [RNext]_<<vars, history>> => [Abstract!Next]_e
  BY NextEntries DEF RStep
<1> HIDE DEF Inv
<1> QED
  BY <1>1, <1>2, <1>3, <1>4, PTL DEF RSpec, RefinesCatalog, Abstract!Spec

=============================================================================
