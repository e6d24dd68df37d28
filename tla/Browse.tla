------------------------------- MODULE Browse -------------------------------
(***************************************************************************)
(* What a user sees of the catalogue: lists in pages, the detail screen,   *)
(* the way to the episodes, delivery and the watch history.                *)
(*                                                                         *)
(* The bot keeps no screens.  It answers every press with a new message,   *)
(* and what a button asks is written on the button, so any message still   *)
(* in the chat can be pressed again, after anything else.  Each call of    *)
(* the API is a step, COUNT and SELECT of a list two of them; the          *)
(* catalogue changes in between.                                           *)
(*                                                                         *)
(* Simplifications.  One user, known to the bot (module BotSession), one   *)
(* handler at a time; of the chat, the messages in Slots.  Ids of animes   *)
(* are given in the order of creation.  A random anime is never shown:     *)
(* Postgres refuses ORDER BY random() under SELECT DISTINCT.  Nothing      *)
(* writes ratings, and popularity is what the views make it.               *)
(***************************************************************************)
EXTENDS Integers, Sequences, FiniteSets, SequencesExt

CONSTANTS
    Animes, Episodes, Queries, Genres,
    Owner,       \* per episode: its anime
    Matches,     \* per query: the animes its words occur in
    Tagged,      \* per genre: its animes
    Drafts,      \* animes that are not published
    Starts,      \* tables to start with: popularity scores, rows of seasons,
                 \* seasons (0 for none) and numbers of the episodes, favourites,
                 \* history
    ListSize,    \* 20: a page of animes
    EpisodeSize, \* 10: a page of episodes
    HistorySize, \* 10: entries of the watch history shown
    Slots,       \* bound on the messages kept of the chat
    MaxEvents,   \* bound on the changes of tables and tokens
    MaxRestarts  \* bound on the restarts of the process

ASSUME EventsAreCounted == {MaxEvents, MaxRestarts} \subseteq Nat
ASSUME IdsAreNumbers == Animes \subseteq Nat /\ Episodes \subseteq Nat
ASSUME SizesArePositive ==
    {ListSize, EpisodeSize, HistorySize} \subseteq Nat \ {0}
ASSUME TablesAreFinite == IsFiniteSet(Animes) /\ IsFiniteSet(Episodes)
ASSUME EpisodesHaveAnimes == Owner \in [Episodes -> Animes]
ASSUME SearchesFindAnimes ==
    /\ Matches \in [Queries -> SUBSET Animes]
    /\ Tagged \in [Genres -> SUBSET Animes]
\* An episode refers to a row of seasons; watch_history has a row for an episode
\* at most once.
ASSUME StartsAreTables ==
    \A start \in Starts :
        /\ start.score \in [Animes -> Nat]
        /\ start.seasons \in [Animes -> SUBSET (Nat \ {0})]
        /\ \A a \in Animes : IsFiniteSet(start.seasons[a])
        /\ start.season \in [Episodes -> Nat]
        /\ \A e \in Episodes : start.season[e] \in start.seasons[Owner[e]] \cup {0}
        /\ start.number \in [Episodes -> Nat]
        /\ start.favs \in Seq(Animes)
        /\ start.history \in Seq(Episodes)
        /\ \A i, j \in DOMAIN start.history :
               start.history[i] = start.history[j] => i = j

VARIABLES
    anime,     \* rows of animes, and of the seasons of each
    episode,   \* rows of episodes
    favs,      \* the user's favorites, newest first
    history,   \* the user's watch_history, latest first
    searches,  \* searchQueries: the query of every token given
    chat,      \* the messages with buttons the user can press
    job,       \* the handler in progress
    restarts,  \* of the process (history)
    events,    \* changes of tables and tokens so far
    watched    \* every episode recorded as delivered, in order (history)

tables == <<anime, episode, favs, history>>
vars == <<tables, searches, chat, job, restarts, events, watched>>

Least(m, n) == IF m < n THEN m ELSE n

\* Where x comes in s, and s without its row.
PlaceOf(s, x) == CHOOSE i \in DOMAIN s : s[i] = x

Without(s, x) == IF x \in ToSet(s) THEN RemoveAt(s, PlaceOf(s, x)) ELSE s

-----------------------------------------------------------------------------
(* The queries.                                                            *)

Listable(a) == a \notin Drafts /\ ~anime[a].deleted

EpisodesOf(a, s) ==
    {e \in Episodes : /\ Owner[e] = a /\ ~episode[e].deleted
                      /\ s = 0 \/ episode[e].season = s}

\* The rows a list selects.  l.of is the prefix its buttons carry.
Selected(l) ==
    CASE l.of = "s"         -> {a \in Animes : Listable(a)}
      [] l.of = "gg"        -> {a \in Tagged[l.arg] : Listable(a)}
      [] l.of = "sq"        -> {a \in Matches[l.query] : Listable(a)}
      [] l.of = "favorites" -> {a \in ToSet(favs) : ~anime[a].deleted}
      [] l.of = "e"         -> EpisodesOf(l.arg[1], l.arg[2])

\* What COUNT counts: of the favourites, the rows of deleted animes too.
Counted(l) == IF l.of = "favorites" THEN ToSet(favs) ELSE Selected(l)

\* The first key of ORDER BY; there is no second.
SortKey(l, x) ==
    CASE l.of = "s" /\ l.arg = "trending"  -> -anime[x].score
      [] l.of = "s" /\ l.arg = "top_rated" -> 0
      [] l.of = "favorites" -> PlaceOf(favs, x)
      [] l.of = "e"         -> episode[x].number
      [] OTHER              -> -x

\* Rows with equal keys come in any order, and in another one next time.
Orders(l) ==
    LET rows == Selected(l) IN
    {s \in [1..Cardinality(rows) -> rows] :
        \A i, j \in DOMAIN s :
            i < j => s[i] # s[j] /\ SortKey(l, s[i]) <= SortKey(l, s[j])}

SizeOf(l) == IF l.of = "e" THEN EpisodeSize ELSE ListSize

\* LIMIT size OFFSET (page - 1) * size.
PageOf(s, page, size) ==
    SubSeq(s, (page - 1) * size + 1, Least(page * size, Len(s)))

\* The rows of seasons, whether or not an episode is left in them.
SeasonsOf(a) == anime[a].seasons

-----------------------------------------------------------------------------
(* Screens.                                                                *)

\* seen: the items from page 1 to this one, if walked is TRUE (history);
\* steady: nothing that could change the list has happened since page 1
\* (history); asked: the query typed for it; strayed: its token was given
\* before a restart (history); direct: it is where Watch led.
ListScreen(l, page, seen, walked, steady, asked, strayed, direct) ==
    [kind |-> "list", list |-> l, page |-> page, items |-> <<>>, next |-> FALSE,
     seen |-> seen, walked |-> walked, steady |-> steady, asked |-> asked,
     strayed |-> strayed, direct |-> direct, era |-> restarts]

FirstPage(l) == ListScreen(l, 1, <<>>, TRUE, TRUE, l.query, FALSE, FALSE)

List(of, arg, query) == [of |-> of, arg |-> arg, query |-> query]

NoScreen == [kind |-> "none"]

Idle == [at |-> "idle"]

\* A message is sent.  It is never pressed, or comes to be pressed instead of
\* another one.
Show(screen) ==
    \/ UNCHANGED chat
    \/ \E i \in Slots : chat' = [chat EXCEPT ![i] = screen]

\* The catalogue or the favourites changed: what was read is no longer so.
Unsteady(screen) ==
    IF screen.kind = "none" THEN screen ELSE [screen EXCEPT !.steady = FALSE]

UnsteadyJob ==
    CASE job.at \in {"count", "select"} -> [job EXCEPT !.screen.steady = FALSE]
      [] job.at \in {"get", "view", "label", "seasons"} ->
            [job EXCEPT !.steady = FALSE]
      [] OTHER -> job

-----------------------------------------------------------------------------
Init ==
    /\ \E start \in Starts :
           /\ anime = [a \in Animes |->
                 [deleted |-> FALSE, views |-> start.score[a], score |-> start.score[a],
                  seasons |-> start.seasons[a]]]
           /\ episode = [e \in Episodes |->
                 [season |-> start.season[e], number |-> start.number[e], deleted |-> FALSE]]
           /\ favs = start.favs
           /\ history = start.history
           /\ watched = Reverse(start.history)
    /\ searches = <<>>
    /\ chat = [i \in Slots |-> NoScreen]
    /\ job = Idle
    /\ restarts = 0
    /\ events = 0

Event == events < MaxEvents /\ events' = events + 1

-----------------------------------------------------------------------------
(* Messages and buttons.                                                   *)

\* Handlers start with nothing in progress, and leave the tables alone.
Begin(j) ==
    /\ job.at = "idle"
    /\ job' = j
    /\ UNCHANGED <<tables, searches, chat, restarts, events, watched>>

Counting(screen) == [at |-> "count", screen |-> screen, total |-> 0, fresh |-> FALSE]

Getting(a, watch) == [at |-> "get", anime |-> a, watch |-> watch, steady |-> TRUE]

\* /start anime_<id>: the detail screen, and then what Watch leads to.
HandleStart == \E a \in Animes : Begin(Getting(a, TRUE))

\* Any other text is a search.
HandleSearch ==
    /\ events < MaxEvents
    /\ \E q \in Queries :
           Begin([Counting(FirstPage(List("sq", 0, q))) EXCEPT !.fresh = TRUE])

\* The main menu, which /start without an argument sends at any time.
Menu ==
    \/ \E sort \in {"top_rated", "trending", "newest"} :
           Begin(Counting(FirstPage(List("s", sort, ""))))
    \/ Begin(Counting(FirstPage(List("favorites", 0, ""))))
    \/ Begin([at |-> "history"])

GenreMenu == \E g \in Genres : Begin(Counting(FirstPage(List("gg", g, ""))))

\* The button of an item: a:<id> or w:<id>.
PressItem(screen) ==
    /\ screen.kind \in {"list", "history"}
    /\ \E x \in ToSet(screen.items) :
           IF screen.kind = "history" \/ screen.list.of = "e"
           THEN Begin([at |-> "deliver", episode |-> x])
           ELSE Begin(Getting(x, FALSE))

\* repeatSearch: the token on the button is looked up in the process that is
\* running now.
Repeated(screen, page, walked) ==
    LET l == screen.list IN
    ListScreen(IF l.of = "sq" THEN [l EXCEPT !.query = searches[l.arg]] ELSE l,
               page, IF walked THEN screen.seen ELSE <<>>, walked,
               screen.steady, screen.asked,
               screen.strayed \/ (l.of = "sq" /\ screen.era # restarts),
               screen.direct)

PressPage(screen) ==
    /\ screen.kind = "list" /\ screen.items # <<>>
    /\ screen.list.of = "sq" => screen.list.arg \in DOMAIN searches
    /\ \/ /\ screen.next
          /\ Begin(Counting(Repeated(screen, screen.page + 1, screen.walked)))
       \/ /\ screen.page > 1
          /\ Begin(Counting(Repeated(screen, screen.page - 1, FALSE)))

PressSeason(screen) ==
    /\ screen.kind = "seasons"
    /\ \E s \in screen.seasons :
           Begin(Counting(FirstPage(List("e", <<screen.anime, s>>, ""))))

PressWatch(screen) ==
    /\ screen.kind = "detail"
    /\ Begin([at |-> "seasons", anime |-> screen.anime, steady |-> TRUE])

\* The seasons and the episodes have a button back to their anime.
PressBack(screen) ==
    \/ screen.kind = "seasons" /\ Begin(Getting(screen.anime, FALSE))
    \/ /\ screen.kind = "list" /\ screen.list.of = "e" /\ screen.items # <<>>
       /\ Begin(Getting(screen.list.arg[1], FALSE))

\* One tap at a time: the toggle is a step (module BotSession).
PressFavorite(screen) ==
    /\ screen.kind = "detail"
    /\ job.at = "idle"
    /\ favs' = IF screen.anime \in ToSet(favs) THEN Without(favs, screen.anime)
                                               ELSE <<screen.anime>> \o favs
    /\ chat' = [i \in Slots |-> Unsteady(chat[i])]
    /\ job' = Getting(screen.anime, FALSE)
    /\ Event
    /\ UNCHANGED <<anime, episode, history, searches, restarts, watched>>

Press ==
    \E i \in Slots :
        \/ PressItem(chat[i]) \/ PressPage(chat[i]) \/ PressSeason(chat[i])
        \/ PressWatch(chat[i]) \/ PressBack(chat[i]) \/ PressFavorite(chat[i])

-----------------------------------------------------------------------------
(* Lists.                                                                  *)

Count ==
    /\ job.at = "count"
    /\ job' = [job EXCEPT !.at = "select",
                          !.total = Cardinality(Counted(job.screen.list))]
    /\ UNCHANGED <<tables, searches, chat, restarts, events, watched>>

\* Fault: a search that is repeated takes the token of the one before it.
TokenShared(query) == 1

\* storeSearchQuery.
Token(query) == Len(searches) + 1

\* Fault: off by one, the last page has no button.
HasNextNot(page, size, total) == (page + 1) * size <= total

\* Whether the keyboard has a button to the next page.
HasNext(page, size, total) == page * size < total

\* The list on the screen; an empty one is a text without buttons.
Filled(screen, items, total) ==
    [screen EXCEPT
        !.items = items,
        !.next = items # <<>> /\ HasNext(screen.page, SizeOf(screen.list), total),
        !.seen = screen.seen \o items]

Select ==
    /\ job.at = "select"
    /\ LET screen == job.screen
           l == screen.list
       IN \E s \in Orders(l) :
          LET full == Filled(screen, PageOf(s, screen.page, SizeOf(l)), job.total)
          IN IF job.fresh
             THEN /\ Event
                  /\ searches' = Append(searches, l.query)
                  /\ Show([full EXCEPT !.list.arg = Token(l.query)])
             ELSE /\ UNCHANGED <<searches, events>>
                  /\ Show(full)
    /\ job' = Idle
    /\ UNCHANGED <<tables, restarts, watched>>

-----------------------------------------------------------------------------
(* An anime and its episodes.                                              *)

GetAnime ==
    /\ job.at = "get"
    /\ job' = IF ~anime[job.anime].deleted THEN [job EXCEPT !.at = "view"]
              ELSE IF job.watch
              THEN [at |-> "seasons", anime |-> job.anime, steady |-> job.steady]
              ELSE Idle
    /\ UNCHANGED <<tables, searches, chat, restarts, events, watched>>

\* Counted or not, the handler goes on.
RecordAnimeView ==
    /\ job.at = "view"
    /\ \/ UNCHANGED <<anime, events>>
       \/ Event /\ anime' = [anime EXCEPT ![job.anime].views = @ + 1]
    /\ job' = [job EXCEPT !.at = "label"]
    /\ UNCHANGED <<episode, favs, history, searches, chat, restarts, watched>>

\* Fault: the second page, for a bot that counts pages from 0.
IsFavoriteSecond(a) ==
    \E s \in Orders(List("favorites", 0, "")) : a \in ToSet(PageOf(s, 2, ListSize))

\* The label looks for the anime on page 1 of the favourites.
IsFavorite(a) ==
    \E s \in Orders(List("favorites", 0, "")) : a \in ToSet(PageOf(s, 1, ListSize))

SendAnimeDetail ==
    /\ job.at = "label"
    /\ \E read \in BOOLEAN :
           Show([kind |-> "detail", anime |-> job.anime, read |-> read,
                 label |-> read /\ IsFavorite(job.anime), steady |-> job.steady])
    /\ job' = IF job.watch
              THEN [at |-> "seasons", anime |-> job.anime, steady |-> job.steady]
              ELSE Idle
    /\ UNCHANGED <<tables, searches, restarts, events, watched>>

\* Fault: the picker is for three seasons and more.
SkipsPickerOfTwo(seasons) == Cardinality(seasons) <= 2

SkipsPicker(seasons) == Cardinality(seasons) <= 1

\* With one season the list is that season's, without any it is everything.
WatchList(a, seasons) ==
    List("e", <<a, IF seasons = {} THEN 0 ELSE CHOOSE s \in seasons : TRUE>>, "")

SendWatchEntry ==
    /\ job.at = "seasons"
    /\ LET seasons == SeasonsOf(job.anime) IN
       IF SkipsPicker(seasons)
       THEN /\ job' = Counting([FirstPage(WatchList(job.anime, seasons)) EXCEPT
                                    !.direct = TRUE, !.steady = job.steady])
            /\ UNCHANGED chat
       ELSE /\ job' = Idle
            /\ Show([kind |-> "seasons", anime |-> job.anime, seasons |-> seasons,
                     steady |-> job.steady])
    /\ UNCHANGED <<tables, searches, restarts, events, watched>>

\* The seasons cannot be read: the list is that of an anime without any.
ListSeasonsFails ==
    /\ job.at = "seasons"
    /\ job' = Counting([FirstPage(WatchList(job.anime, {})) EXCEPT
                            !.steady = job.steady])
    /\ UNCHANGED <<tables, searches, chat, restarts, events, watched>>

-----------------------------------------------------------------------------
(* Delivery and history.                                                   *)

DeliverEpisode ==
    /\ job.at = "deliver"
    /\ job' = IF episode[job.episode].deleted THEN Idle ELSE [job EXCEPT !.at = "progress"]
    /\ UNCHANGED <<tables, searches, chat, restarts, events, watched>>

\* Fault: an episode seen again keeps its place.
WatchOnce(e) == IF e \in ToSet(history) THEN history ELSE <<e>> \o history

\* INSERT ... ON CONFLICT: the entry moves to the front.
Watch(e) == <<e>> \o Without(history, e)

RecordProgress ==
    /\ job.at = "progress"
    /\ Event
    /\ history' = Watch(job.episode)
    /\ watched' = Append(watched, job.episode)
    /\ chat' = [i \in Slots |-> IF chat[i].kind = "history" THEN Unsteady(chat[i])
                                                            ELSE chat[i]]
    /\ job' = Idle
    /\ UNCHANGED <<anime, episode, favs, searches, restarts>>

ListHistory ==
    /\ job.at = "history"
    /\ Show([kind |-> "history", steady |-> TRUE,
             items |-> PageOf(history, 1, HistorySize)])
    /\ job' = Idle
    /\ UNCHANGED <<tables, searches, restarts, events, watched>>

\* A call fails, or the message cannot be sent: a text at most.  What Watch
\* leads to is shown all the same.
CallFails ==
    /\ job.at \in {"count", "select", "get", "label", "seasons",
                    "deliver", "progress", "history"}
    /\ job' = IF job.at \in {"get", "label"} /\ job.watch
              THEN [at |-> "seasons", anime |-> job.anime, steady |-> job.steady]
              ELSE Idle
    /\ UNCHANGED <<tables, searches, chat, restarts, events, watched>>

-----------------------------------------------------------------------------
(* The rest of the world.                                                  *)

Changed ==
    /\ Event
    /\ chat' = [i \in Slots |-> Unsteady(chat[i])]
    /\ job' = UnsteadyJob
    /\ UNCHANGED <<favs, history, searches, restarts, watched>>

DeleteAnime ==
    /\ Changed
    /\ \E a \in Animes : anime' = [anime EXCEPT ![a].deleted = TRUE]
    /\ UNCHANGED episode

DeleteEpisode ==
    /\ Changed
    /\ \E e \in Episodes : episode' = [episode EXCEPT ![e].deleted = TRUE]
    /\ UNCHANGED anime

\* The hourly refresh: nothing inserts into views, and ratings are 0.
RefreshPopularity ==
    /\ Changed
    /\ anime' = [a \in Animes |-> [anime[a] EXCEPT !.score = anime[a].views]]
    /\ UNCHANGED episode

\* The process starts again: its tokens are gone, the chat is not.
Restart ==
    /\ restarts < MaxRestarts
    /\ restarts' = restarts + 1
    /\ searches' = <<>>
    /\ job' = Idle
    /\ UNCHANGED <<tables, chat, events, watched>>

Next ==
    \/ HandleStart \/ HandleSearch \/ Menu \/ GenreMenu \/ Press
    \/ Count \/ Select
    \/ GetAnime \/ RecordAnimeView \/ SendAnimeDetail \/ SendWatchEntry \/ ListSeasonsFails
    \/ DeliverEpisode \/ RecordProgress \/ ListHistory \/ CallFails
    \/ DeleteAnime \/ DeleteEpisode \/ RefreshPopularity \/ Restart

Spec == Init /\ [][Next]_vars

-----------------------------------------------------------------------------
(* What it promises.                                                       *)

Sorts == {"top_rated", "trending", "newest"}

ListTyped(l) ==
    CASE l.of = "s"         -> l \in [of: {"s"}, arg: Sorts, query: {""}]
      [] l.of = "gg"        -> l \in [of: {"gg"}, arg: Genres, query: {""}]
      [] l.of = "sq"        -> l \in [of: {"sq"}, arg: Nat, query: Queries]
      [] l.of = "favorites" -> l \in [of: {"favorites"}, arg: {0}, query: {""}]
      [] OTHER              -> l \in [of: {"e"}, arg: Animes \X Nat, query: {""}]

RowsOf(l) == IF l.of = "e" THEN Episodes ELSE Animes

ListScreenTyped(c) ==
    /\ ListTyped(c.list)
    /\ c \in [kind: {"list"}, list: {c.list}, page: Nat \ {0},
              items: Seq(RowsOf(c.list)), next: BOOLEAN,
              seen: Seq(RowsOf(c.list)), walked: BOOLEAN, steady: BOOLEAN,
              asked: Queries \cup {""}, strayed: BOOLEAN, direct: BOOLEAN,
              era: Nat]

ScreenTyped(c) ==
    CASE c.kind = "list"    -> ListScreenTyped(c)
      [] c.kind = "detail"  -> c \in [kind: {"detail"}, anime: Animes, read: BOOLEAN,
                                     label: BOOLEAN, steady: BOOLEAN]
      [] c.kind = "seasons" -> c \in [kind: {"seasons"}, anime: Animes,
                                     seasons: SUBSET Nat, steady: BOOLEAN]
      [] c.kind = "history" -> c \in [kind: {"history"}, steady: BOOLEAN,
                                     items: Seq(Episodes)]
      [] OTHER              -> c = NoScreen

JobTyped(j) ==
    CASE j.at \in {"count", "select"} ->
           /\ ListScreenTyped(j.screen)
           /\ j \in [at: {"count", "select"}, screen: {j.screen}, total: Nat,
                       fresh: BOOLEAN]
           /\ j.fresh => j.screen.list.of = "sq"
      [] j.at \in {"get", "view", "label"} ->
           j \in [at: {"get", "view", "label"}, anime: Animes, watch: BOOLEAN,
                   steady: BOOLEAN]
      [] j.at = "seasons" -> j \in [at: {"seasons"}, anime: Animes, steady: BOOLEAN]
      [] j.at \in {"deliver", "progress"} ->
           j \in [at: {"deliver", "progress"}, episode: Episodes]
      [] OTHER -> j \in {Idle, [at |-> "history"]}

\* The tables are well typed; a list holds rows of its table; every message and
\* every handler has the fields its buttons and its next call read.
TypeOK ==
    /\ anime \in [Animes -> [deleted: BOOLEAN, views: Nat, score: Nat,
                             seasons: SUBSET (Nat \ {0})]]
    /\ episode \in [Episodes -> [season: Nat, number: Nat, deleted: BOOLEAN]]
    /\ favs \in Seq(Animes)
    /\ {history, watched} \subseteq Seq(Episodes)
    /\ searches \in Seq(Queries)
    /\ DOMAIN chat = Slots /\ \A i \in Slots : ScreenTyped(chat[i])
    /\ JobTyped(job)
    /\ restarts \in Nat /\ events \in Nat

Screens(kind) == {c \in {chat[i] : i \in Slots} : c.kind = kind}

\* Rows come in one order only.
Ordered(l) == \A s, t \in Orders(l) : s = t

\* The end of a walk from page 1 over a list that did not change.
Walked(c) ==
    c.walked /\ c.steady /\ ~c.next /\ ~c.strayed /\ Ordered(c.list)

\* Whoever goes through the pages until there is no next button has seen every
\* row of the list once, although COUNT, LIMIT and the keyboard's own page size
\* are computed apart and each press is a request of its own
\* (anime_repo.go:250, keyboards.go:65).  Not so where the order has ties, as
\* it has for top_rated.  No next button leads to an empty page, unless deleted
\* favourites were counted (favorite_history_repo.go:45).
WalkComplete ==
    \A c \in Screens("list") : Walked(c) =>
        /\ ToSet(c.seen) = Selected(c.list)
        /\ Len(c.seen) = Cardinality(Selected(c.list))
        /\ c.page > 1 /\ c.items = <<>> =>
              c.list.of = "favorites" /\ \E a \in ToSet(favs) : anime[a].deleted

\* All pages of a search are pages of the query that was typed.  They may be of
\* another one only if a button is older than the process: tokens start at 1
\* again (bot.go:37).
PagesOfOneSearch ==
    \A c \in Screens("list") :
        c.list.of = "sq" => c.list.query = c.asked \/ c.strayed

\* The favourites listed before anime a: the newer ones that are not deleted.
NewerFavorites(a) == {i \in 1..PlaceOf(favs, a) - 1 : ~anime[favs[i]].deleted}

\* The label of a detail screen is wrong only for a favourite that a page of
\* newer ones hides (anime.go:27): then it offers to add what it will remove.
LabelTells ==
    \A c \in Screens("detail") : c.steady /\ c.read =>
        \/ c.label <=> c.anime \in ToSet(favs)
        \/ c.anime \in ToSet(favs) /\ Cardinality(NewerFavorites(c.anime)) >= ListSize

\* The list Watch leads to directly holds every episode of the anime, unless
\* some have no season although the anime has one: those are on no screen
\* (anime.go:79, episode_repo.go:129).
WatchShowsAll ==
    \A c \in Screens("list") : c.direct /\ Walked(c) =>
        \/ ToSet(c.seen) = EpisodesOf(c.list.arg[1], 0)
        \/ /\ SeasonsOf(c.list.arg[1]) # {}
           /\ \E e \in EpisodesOf(c.list.arg[1], 0) : episode[e].season = 0

LastWatch(e) == CHOOSE i \in 1..Len(watched) :
    watched[i] = e /\ \A j \in i + 1..Len(watched) : watched[j] # e

\* The history shows the episodes delivered last, each once, the latest first,
\* however often one was watched again (user.go:57, favorite_history_repo.go:68).
HistoryIsLatest ==
    \A c \in Screens("history") : c.steady =>
        /\ \A i, j \in DOMAIN c.items :
               i < j => LastWatch(c.items[i]) > LastWatch(c.items[j])
        /\ \A e \in ToSet(watched) \ ToSet(c.items) :
               /\ Len(c.items) = HistorySize
               /\ \A f \in ToSet(c.items) : LastWatch(f) > LastWatch(e)

=============================================================================
