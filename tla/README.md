# Verification of Popular-Anime-Bot

TLA+ models of the services of this repository, TLC configurations that check
them on small instances, and theorems about them checked by TLAPS for every
value of the constants. Every definition is translated from the source; the
`map` of `PROJECT.json` names the lines.

## 1. The system

Telegram channels publish anime posts. The **listener** (Python, Telethon)
reads them, parses announcements and episodes and hands them to the core
**API** (Go, chi, pgx), which keeps the catalogue in **Postgres**. The **bot**
(Go) serves users from the API; the **scheduler** (Go, cron) posts catalogue
entries to the showcase channels and records each post through the API.

| component | source | state it keeps | operations | talks to |
|---|---|---|---|---|
| ingest API | `services/api/internal/usecase/ingest.go`, the `*_repo.go` files it uses | tables animes, episodes, seasons, studios, genres, anime_genres, source_channels | UpsertAnime, UpsertEpisode, soft deletes, CreateSourceChannel, DeleteSourceChannel | called by listener and admin over HTTP; writes Postgres |
| scheduler | `services/scheduler` | per run: channel position, `usedThisRun`, pending animes; channel_posts (in the API) | cron and triggered runs: fetch, send, record; SIGTERM | API, Telegram |
| listener | `services/mtproto-listener/{main,processor,control_server,backfill}.py` | `active_channels`, the coroutines in progress, sync cursor, the storage channel | message, edit and deletion events; refresh of the channels; backfill; deletion of an anime | Telegram, API |
| deep-link fetcher | `deep_link_fetcher.py`, the source ids of `processor.py` | per announcement: its links, the conversation that is open, the sponsors joined | follow a link, press buttons, join sponsors, collect a batch | the delivery bots, in the name of a user |
| web login | `main.py`, `control_server.py`, `entrypoint.sh`, table listener_session | the client's session, whether a code was sent, whether the handlers are registered; the saved session (in the API) | load and connect at the start; send-code, sign-in, save, register the channels, listen; restart, deploy | Telegram, API |
| bot | `services/bot` and its copy in `services/api/internal/bot` | a language cache and the search tokens per process; users, favorites, watch_history (in the API) | updates, ensureUser, change of language, favourites, lists and their pages, detail screen, delivery, history | Telegram, API |
| connection pool | `postgres/db.go`, `router.go`, EpisodeRepo.Create | 20 connections; episodes_count, which the second statement of Create keeps | acquire, release, the deadline of 15 s | every request |
| catalogue queries | `usecase/catalog.go` and the repositories it uses | none | List, Get, Random, episodes, seasons | Postgres |

The parts share nothing but Postgres, Telegram and HTTP calls. The services
open no transaction around their statements (SetGenres is the one exception),
so a request is a sequence of statements between which any other request runs.

### What is hard about it

* *Concurrency.* Requests interleave statement by statement: look-up and
  creation of a title, reading and writing back a merged row, find-or-create of
  names, the two unique keys of episodes, runs of the scheduler that overlap,
  event handlers that wait for Telegram while other events are handled, two taps
  of one user, login pages that are served while main() is still starting.
* *Failure.* A request is cut off after any statement (15 s timeout of the
  router, client gone, failed statement, crash); a post is delivered and not
  recorded; after SIGTERM calls that use the context fail while those that do
  not go on; answers of Telegram are lost; the answer of a delivery bot comes
  when the conversation it belongs to is over.
* *Stale state.* The row FindByTitle returned, the list of pending animes of a
  run, the table of active channels, the cached language, the count a refresh
  has read, the buttons of old messages.
* *Limits.* The limit of candidates and its clamp at 50, the hop, join and batch
  bounds of the fetcher, the pool of connections.

`PROJECT.json` lists every hazard with its line and the properties that cover
it; one that no run covers, or that a property only bounds, has a note with the
reason.

### What makes each component correct

* ingest: one live row per title, merging that never loses metadata and the
  genres of one announcement, but for requests that overtake each other; episodes are never duplicated under
  either key; an episode id keeps its meaning; deletions last.
* scheduler: what is recorded was posted; a channel repeats an anime only if a
  record was lost; the channels of a run diversify; no run exceeds its share and
  none falls short of it while there is something to post; every eligible anime
  that Telegram takes is posted in the end.
* listener: an episode on the list can be delivered; its storage message is its
  own, so deleting another anime does not take it away, and shows that episode
  or what its own link brought; an episode the API was told to delete stays
  deleted.
* bot: a process speaks the language the user chose; only a choice changes the
  stored one; a tap flips the favourite and the screen after it agrees.
* lists: whoever goes through the pages sees every row once; all pages of a
  search are of one query; the episodes of an anime can all be reached; the
  history is the latest.
* fetcher: it gets through every link within its bounds; what is stored for a
  link is a file of the link, but for late answers and buttons that lead astray;
  two linked episodes never share a source id.
* login: the handlers are registered once; a login is complete or a call failed;
  a saved session is resumed.
* pool: only imports can make requests wait for each other, and no request waits
  for ever; the count of episodes is right when no import is under way.

## 2. Plan

1. **Ingest**, its abstract specification **Catalog**, and **IngestRaces**, what
   it promises of requests that overtake each other, with proofs. *Done.*
2. **Publisher**, with proofs. *Done.*
3. **Listener**: events of a message, active channels, backfill, linked
   episodes, the storage channel (apart, or the source itself), deletion of an
   anime, with proofs. *Done.*
4. **BotSession**: language cache, users, ToggleFavorite, with proofs. *Done.*
5. **Connections**: the bounded pool and the count of episodes, with proofs.
   *Done.*
6. **DeepLink**: the conversation with a delivery bot and its bounds, with proofs
   (the injectivity of the synthetic source ids among them). *Done.*
7. **Login**: start, send-code, sign-in and the saved session, with proofs.
   *Done.*
8. **Browse**: paging, detail screens, delivery and history, with proofs. *Done.*
9. Left: the deduplication of migration 0004 against a reference definition, and
   an abstract specification for Publisher and the storage channel of Listener,
   which have none.

No module is composed with another one, but for IngestRaces, which EXTENDS Ingest
and instantiates its abstract specification Catalog: what one component needs of another is an
environment action of it, named in its header (ChangeAnime in Publisher, the
upserts of Listener, DeleteAnime in Browse), and the module it stands for is the
one that opens it up.

## 3. Modules

### Ingest

| TLA+ | code |
|---|---|
| `animes`, `episodes`, `seasons`, `names`, `tags`, `channels` | rows of the tables; a row never created is `NULL`; studios and genres share `names` |
| `pc[w]`, `req[w]` | the request a worker serves: its next statement, its input and the Go locals |
| `FindByTitle` ... `CommitGenres` | the statements of UpsertAnime, in their order |
| `FindOrCreateSeason`, `InsertEpisode`, `RefreshCount` | the statements of UpsertEpisode |
| `SoftDeleteAnime`, `SoftDeleteBySource`, `CreateSourceChannel`, `DeleteSourceChannel` | requests of a single statement |
| `Abort` | a request cut off between two statements |

Abstractions: the columns merged with "the new value if there is one" are one
column `details`; the poster columns are one; quality and language belong to
the episode number, as they do in the unique index; names are equal up to letter
case; anime ids are never reused. SetGenres is two steps, because under READ
COMMITTED its DELETE takes the rows committed when it starts and its effect
appears at the commit.

**IngestRaces** adds two history variables to Ingest, which no step reads:
`overtaken` has the requests between whose read and write another one has
written the same title (or, in SetGenres, the genres of the same anime), `raced`
the titles that such a request has written. Its properties say that nothing else
duplicates a title, blanks a merged column, withdraws an anime or mixes the
genres of two announcements.

**Catalog** is what the API promises of a title: an entry that announcements
create or merge into in one step and an admin removes. `RefinesCatalog`, in
IngestRaces, maps the live row of a title to its entry, and a title in `raced`
to the value `Contested`, of which Catalog promises nothing; whatever happens to
one title, all others stay entries. Requests may be cut off at any time.

### Publisher

| TLA+ | code |
|---|---|
| `run[r].at`, `.used`, `.pending` | position in `cfg.TargetChannelIDs`, `usedThisRun`, the animes of the current channel still to be posted |
| `posts` | rows of channel_posts |
| `shown`, `lost`, `run[r].sent` | history: what Telegram shows, which posts have no record, what a run posted |
| `Start` | a cron job, or the trigger endpoint |
| `Fetch`, `FetchFails` | GET /publish/pending with its limit, and the choice of animes not yet used |
| `Send`, `SendFails`, `Record`, `RecordFails` | the two calls of the posting loop |
| `Cancel`, `Exit`, `Crash` | SIGTERM, the end of main, death of the process |
| `Refused` | the posts Telegram never takes (a caption that is too long, a poster it cannot fetch) |
| `ChangeAnime` | Ingest: an anime becomes eligible or ceases to be |

The context of a run is cancelled at SIGTERM; sending does not use it, so a run
may post after it was cancelled and then fail to record: both are in the model.

### Listener

| TLA+ | code |
|---|---|
| `task[h]` | a coroutine: its next call to Telegram or the API, and its locals |
| `active` | `active_channels`, empty after a restart until the first refresh |
| `post` | what each message of the source channel says now |
| `SourceIsStorage` | the source channel is the storage channel (processor.py:46) |
| `copies`, `gone` | the storage channel: what each message shows, and, as history, what it was made of or fetched for and whether it was edited there; those deleted |
| `animes`, `episodes`, `registered` | the rows as the listener's requests see them |
| `NewMessage`, `MessageEdited`, `MessageDeleted` | an event: it starts a handler if the channel is known, and is lost otherwise |
| `Forward`, `UpsertAnime`, `UpsertEpisode` | the calls of handle_episode and handle_announcement, in their order |
| `Relay` | a link brings a video, whichever, and it is copied into the storage channel |
| `Erase` | delete_episode_by_source |
| `Backfill` | the backfill endpoint; it works through the history oldest first |
| `RemoveAnime`, `ListEpisodes`, `Purge`, `Drop` | the calls of _delete_anime_by_id |
| `CallFails` | an exception of the next call, and what the handler does after it |
| `Register`, `Unregister`, `RefreshChannels`, `Crash` | source_channels, the minute's refresh, a restart of the process |
| `raced`, `erased`, `purged` | history |

The statements inside an API call are module Ingest's subject; here a call is
one step, with the effects a completed call has on the columns named above. A
handler keeps the row of the channel it was started with (`task[h].row`), so it
may go on after the channel is removed; then its INSERT violates the foreign
key and fails. A call whose answer is lost behaves as the call followed by a
failure of the next one, so `CallFails` needs no effect of its own.

Where the source channel is the storage channel, a post is its own copy and is
not forwarded, an edit alters the copy, a deletion takes it away, and what a
link brought is a post of the source channel like any other (though, being the
listener's own, it starts no handler: `incoming=True`). Two promises are made of
a separate storage channel only: a post that is edited into another episode
may serve both rows (`CopiesNotShared`), and the owner may delete what is
delivered (`ServedCopiesExist`).

`Relay` takes any video of `Texts`, so `CopyIsTheEpisode` cannot say that a
linked file shows its episode; it says that the row has the file that *its own*
link brought, and module DeepLink says which files those are.

### BotSession

| TLA+ | code |
|---|---|
| `users`, `favorites` | rows of the two tables; a user's row id is the user |
| `cache[b]` | `userCache` of a process |
| `task[h]` | the goroutine of an update: its next call and its Go locals |
| `Dispatch` | an update arrives: a text, a language button, a favourite button, an anime |
| `LoadUser`, `TouchUser`, `TouchFails`, `StoreUser` | ensureUser: the cache, POST /users, the cache again |
| `SetLanguage`, `SetLanguageFails`, `SetUserLang` | changeLanguage: the call, and the cache |
| `IsFavorite`, `ToggleFavorite`, `ToggleFails` | the two statements of ToggleFavorite behind one call |
| `Toast`, `ListFavorites`, `Reply` | the toast, the detail screen that follows and the label it reads |
| `Crash` | a process starts again with an empty cache |

A call of the API is one step, except ToggleFavorite, whose two statements are
two. Every call may fail before or after its effect. Screens that call
ensureUser a second time, with the Telegram id alone, are of kind "detail".
`excused`, `unsaved` and `contested` are history: which caches have missed a
change that no later one has put right, whose first touch failed, which toggles
another one overtook.

### Browse

| TLA+ | code |
|---|---|
| `anime`, `episode`, `favs`, `history` | the columns the queries read |
| `searches` | `searchQueries`: the query of each token |
| `chat` | messages with buttons; what a button asks is written on it |
| `job` | the handler in progress, its next call |
| `Selected`, `Counted`, `Orders`, `PageOf`, `HasNext` | WHERE, COUNT, ORDER BY (ties in any order), LIMIT and OFFSET, the page buttons |
| `anime[a].seasons` | rows of seasons, with episodes or without |
| `HandleStart`, `HandleSearch`, `Menu`, `GenreMenu`, `Press` | what a user can do: commands and every button of every message kept, the one back to the anime included |
| `Count`, `Select` | the two statements of a list |
| `GetAnime`, `RecordAnimeView`, `SendAnimeDetail` | the detail screen |
| `SendWatchEntry`, `ListSeasonsFails` | from an anime to its seasons or episodes |
| `DeliverEpisode`, `RecordProgress`, `ListHistory` | delivery and history |
| `CallFails` | any of these calls fails, or its message is not sent |
| `DeleteAnime`, `DeleteEpisode`, `RefreshPopularity`, `Restart` | the rest of the world |

One user and one handler at a time: races of a user with himself are
BotSession's subject, races of a list with the catalogue are here.

### Connections

| TLA+ | code |
|---|---|
| `free` | connections of the pool that can be taken |
| `req[r]` | a request: the statements left, and whether it waits, runs, keeps the rows of its INSERT open while it waits (`again`), or refreshes the count |
| `episode`, `count` | is an episode there; `episodes_count` |
| `Acquire`, `Execute`, `ExecuteFails` | a statement on a connection of its own |
| `AcquireSecond`, `Refresh`, `RefreshFails` | the UPDATE of EpisodeRepo.Create, which runs before the rows of its INSERT are closed |
| `TimeOut` | the deadline of the router |

The kinds of requests are the sequences of statements that matter: an import,
a repeated announcement (whose Update writes `episodes_count`), the deletion of
an episode, and a list, which stands for everything else.

### Login

| TLA+ | code |
|---|---|
| `main`, `key`, `hash`, `started`, `handlers` | main() and the client; `_phone_code_hash`, `_listener_started`, the handlers registered |
| `signin[p]`, `shown[p]` | a sign-in page between two awaits; the text it ended with |
| `saved`, `sources` | listener_session and source_channels |
| `authorized`, `made` | what Telegram knows of keys (external) |
| `LoadSession`, `Connect`, `CheckAuthorized` | main() |
| `SendCode`, `SignIn`, `SignInRefused`, `GetMe`, `SaveSession`, `RegisterAll`, `OnAuthorized`, `Index` | the pages: five awaits of a sign-in, each of which may fail |
| `failed` | history: what failed since a sign-in last completed |
| `ApiUp`, `ListenerRestarts`, `Deploy` | entrypoint.sh: the API starts with the listener and may not answer yet |

### DeepLink

| TLA+ | code |
|---|---|
| `task[f]` | the coroutine of an announcement: links to do, the conversation, messages read, files collected, sponsors joined, attempts |
| `sent` | the delivery bot's messages that have not arrived (external); it answers a link with a menu, a gate, a text, files or nothing |
| `Menus`, `Picked`, `Clicked` | the menus a bot may send; `_pick_menu_button`: a button with the number of the episode on it, be it a season's, or else the first that looks like going on; what the bot has behind it (external) |
| `stored` | rows of episodes, each with the file behind it |
| `Open`, `OpenFails`, `TimeOut` | the conversation: Telethon refuses a second one with the same bot |
| `ReadFile`, `ReadGate`, `ReadMenu`, `ReadOther`, `ReadLast` | what is done with the next message, and the bounds on hops and messages |
| `Join` | sponsors joined, and another attempt |
| `Store`, `Discard`, `StoreFails` | what the processor does with each file; `SourceId` is the number it packs |
| `Arrive` | a message arrives, in the conversation that is open by then |

## 4. Runs

| run | instance | shows |
|---|---|---|
| IngestConcurrent | 2 workers, 1 anime, 2 episodes, 2 messages, a channel that is deleted | TypeOK, RequestsReferToRows, EpisodeKeysUnique, EpisodeIdentityStable and DeletesStick hold under every interleaving |
| IngestRaces | 2 workers, 2 rows, 2 titles, details, both values of AUTO_PUBLISH | TitlesUniqueUnlessRaced, BlankedOnlyIfOvertaken and the refinement of Catalog |
| IngestDuplicate | 2 workers, 2 rows | *violation*: two announcements of one title create two rows |
| PublisherSerial | 1 cron run, 2 posts per run, 3 animes of which the oldest is always refused, 1 crash, fairness | RepeatedOnlyIfLost, RecordedNotRepeated and EventuallyPosted |
| PublisherOverlap | 2 triggered runs, 2 channels, 2 animes, 1 crash | TypeOK, RecordedWasShown, RunsDiversify, PostsPerRunKept and SharesFilledWithinLimit under overlapping runs |
| ListenerConcurrent | 2 coroutines, 1 message, 2 episode numbers, 2 animes, 2 copies, videos and a poster that links to an episode and may bring another | CopiesNotShared, ServedCopiesExist and CopyIsTheEpisode under every interleaving, with edits, deletions, failures and restarts |
| ListenerOwn | the source channel is the storage channel; 1 coroutine, 2 messages posted or relayed, a text that links to one episode and brings another, 2 registrations of the channel | CopyIsTheEpisode, ErasureSticks |
| BotSession | 2 goroutines of 1 user, 2 processes, 2 languages, 1 anime, 1 restart | LanguageStaleOnlyIfMissed, LossOnlyIfTouchFailed, LabelIsToast, OnlyChoicesChangeLanguage, ToggleFlips |
| Browse | 2 animes in pages of 1, 3 episodes in pages of 2, 2 queries, 1 message kept, 2 changes, 1 restart, six tables to start with | WalkComplete, PagesOfOneSearch, LabelTells, WatchShowsAll, HistoryIsLatest |
| Connections | 3 requests, 2 connections, 1 anime, 2 episodes, fairness | StallTakesImports, CountIsRight, EveryRequestEnds |
| Login | 2 pages at a time, 3 keys, 2 restarts, fairness | HandlersOnce, HalfLoginOnlyIfCallFailed, ResumesSaved |
| DeepLink | 2 announcements (two episodes; a batch of two), 2 menus, one of them with a season whose number is that of an episode, 2 messages under way, 2 hops, 1 attempt more, fairness | RightFileUnlessMisled, SourceIdsDistinct, EveryLinkEnds |

Why the bounds are enough: every conflict of Ingest is between two requests
over one key, so two workers, one contested row and one row to spare show it;
the second title of IngestRaces is the one that must stay an entry while
requests race for the first; two episodes are what a unique key needs; the second message lets a key come
back after an edit. One row of animes suffices in IngestConcurrent because
its properties speak of one anime at a time or of episodes. The runs of
Publisher conflict over one (anime, channel) pair; two channels and two animes
let claims matter; PublisherSerial has one post more than what is refused, which
is the boundary of EventuallyPosted. In ListenerConcurrent two coroutines
over one message are the race between a handler and an edit, a deletion, a
backfill or the removal of the anime; the second anime is what an announcement
makes of a title whose anime was deleted, and the second copy is what a repeated
import leaves. ListenerOwn exchanges the second coroutine for a second
message and a second registration, because ErasureSticks excuses the messages
that are raced and what is left to fear is a later import; that the channel is
the storage channel there adds what an edit and a deletion do to the copies.
Section 6 proves all four properties of both kinds of deployment.

In BotSession users share nothing, so one is enough; the second process is the
cache that does not hear of a change, the second goroutine the one that
overtakes. In Browse pages of one row make the second page the interesting
boundary (a full last page, and a count read before a row was deleted), and one
newer favourite the full page of LabelTells; the tables to start with are the
shapes the season picker and the orders tell apart, a season without episodes
among them, and favourites in either order.
Two connections and three requests are the least in which imports can take the
pool and something else waits; one connection more and one request more repeat
the pattern, and the proof covers every size. In Login the third key is the one
a second restart may need. In DeepLink the bounds of the code (4 hops, 2 joins,
60 files, 100 messages) are constants of the module, given small values so that
TLC reaches each of them; the two files of the batch, season 0 episode 1001 and
season 1 episode 1, are numbers a narrower packing would confuse. The bot has
behind the first link a second episode that only a menu leads to. The proofs of section 6 hold for every size. Ids bound how many rows
are created: with none left, creation is not enabled.

`CHECK_DEADLOCK FALSE` is said of the Ingest and the Listener runs and of
DeepLink only: with every request or coroutine idle, every channel gone and no
id left, or with every announcement got through, nothing needs to happen.

Symmetry is used for safety only, over sets no property tells apart.

The .cfg files that are not named in the table belong to section 7.

Definitions under a comment that begins with "Fault:" are faulty variants of
a definition of the code; `mutants` in `PROJECT.json` says which property notices
which of them. No specification uses them.

## 5. Fairness

* PublisherSerial (`FairSpec`): cron keeps starting runs, a run
  in progress proceeds to its next call (it is a goroutine with no wait but HTTP
  calls with timeouts), the process exits once cancelled and is restarted, and a
  call that is made again and again is not refused for ever by Telegram or the API
  (strong fairness of Fetch and Record, and of Send but for the posts in
  `Refused`, of which nothing is said). EventuallyPosted does not promise a post
  that is refused for ever, and promises the others only while fewer posts than a
  run makes to the channel are refused there: section 7 says what happens else.
  Crashes are bounded by `MaxCrashes`. Triggered runs are not fair: nobody has to call the endpoint.
* Connections: the timer of each request fires (router.go:19). Nothing is said
  of Postgres, nor of who gets the next free connection, so EveryRequestEnds
  rests on the deadline alone.
* Login: main() goes on, for it awaits calls that return or raise, and the API
  reaches its database in the end, for it tries again until it does.
* DeepLink: the event loop runs every coroutine, and the timeouts of a
  conversation fire. The delivery bot is not fair: it need not answer.

## 6. Proofs

All results are theorems of the specification for every value of its
constants, from the named assumptions of the modules only.

* **IngestProofs** (any number of workers and rows). `RowsNeverVanish` and
  `IngestTypeCorrect`: types and references, by an invariant that is inductive
  because rows are created and marked, never removed. `EpisodesNeverDuplicated`:
  the two unique keys; the induction needs that an insertion happens only when no
  row collides in either key and that unlinking a channel only weakens the second
  key. `EpisodeIdsStable`, `DeletionsAreFinal`: action properties from the same
  invariant, one step per action.

  The last sections are about IngestRaces, for any number of requests at a time.
  `SInv` says that what a request has read (no row of the title, or the row it
  remembers) is still so when it writes, or the request is overtaken: every
  write of a title marks those that have looked it up and are still to write.
  It yields `TitlesNeverDuplicatedUnraced` and `MetadataNeverBlankedUnraced`.
  `ClearsAll` says that the genres the DELETE of SetGenres took are still those of
  the anime at the commit, or the transaction is overtaken;
  `GenresNeverMixedUnraced` follows. `IngestRefinesCatalog` is the refinement, step
  by step: the INSERT or the UPDATE of an upsert that is not overtaken is a Post of
  Catalog for its title, one that is makes the entry Contested, the soft delete of
  a live row is a Remove, every other statement leaves each entry as it is. It
  needs TitlesUniqueUnlessRaced, because an entry is the one live row of its title.
* **PublisherProofs** (any runs, overlapping as they may). `IInv` is
  TypeOK, with what each run has claimed and posted, and that a run about to
  record has posted. It yields `PublisherTypeCorrect`, `RecordsAreTrue` and
  `ChannelsDiversify`; the latter needs that pending animes are not claimed and
  that everything posted is. `Quotas` counts, for each run and channel, what was
  posted and what is pending against the places of the channel in the list that
  the run has come to; it yields `QuotaKept`. `PoolIsWide` needs the same counts:
  what a run has claimed at earlier places leaves room for a full share in the
  pool it asks for. Its hypothesis is that the limit asked for is at most 50, for the
  repository replaces a larger one by 5; section 7 says what happens at 51.

  Section 4 assumes `Serial`, at most one run. `SInv` adds that every post is
  recorded, lost or about to be recorded, and that no pending anime has been
  recorded since it was fetched. It yields `SerialRepeatedOnlyIfLost` and
  `SerialRecordedNotRepeated`; overlap breaks its second part.
* **ListenerProofs** (any messages, titles, coroutines, copies and rows, in a
  storage channel apart and in one that is the source). One invariant carries all
  five results. `Shape` says which locals a coroutine has at each of its calls;
  `Fresh`, that what it read of a message is what the message says, or the message
  is raced; `Posts`, that a deleted message is not posted again, that what was
  erased is of such a message, and that posts of the storage channel are its
  messages (`PostsAreCopies`); `Storage`, that what is in use was made and, where
  messages are forwarded, that a copy has one use and that what is gone was used
  by an anime under deletion only; `Contents`, that an episode has an anime and a
  copy that `Explained` accounts for: of its title and number, fetched for them,
  raced or edited. `HandsOK` is the part a step of another coroutine could break:
  the copies that one is about to store show what it will store them as, and those
  it is about to delete are used by its anime alone. From `MessagesAreNumbered`,
  `TextsAreRead` (a caption of an episode names one), `OneChannelOrTwo`,
  `NullIsNothing` and `NullIsNoRow`.
* **BotSessionProofs** (any processes, goroutines, users, animes and crashes).
  `Sound` says what the locals of one goroutine have to do with the tables and
  the cache they were read from: where the language about to be cached comes
  from, that a goroutine without the name has the user cached or failed to touch
  it, and what a toggle knows of the favourite unless it is contested. A step
  keeps it for the goroutines that do not move (`OthersSound`) because rows and
  cached languages never vanish under a running process and a language changes
  only with an excuse. It yields `CacheStaleOnlyIfMissed`,
  `NamesAndChoicesKept`, `ScreenAgreesWithToast`, and the action properties
  `TapsFlip` and `ChoicesChangeLanguage`. From `NoRowIsNull`,
  `DefaultIsALanguage` and `CrashesAreCounted`.
* **ConnectionsProofs** (any pool, tables and requests, finite by
  `TablesAreFinite`). The number of connections that are free or held is
  constant (`NoConnectionLeaks`), by cardinalities of the sets of requests in each
  place; `OnlyImportsStall` follows by arithmetic. `CountedRight` needs that what
  a refresh has read is still the number of episodes unless the refresh is marked
  late (`SnapIsFresh`).
* **LoginProofs** (any number of pages and restarts). The handlers are registered
  when and only when the flag is set (`HandlersRegisteredOnce`). `Completed` says
  what a page has done by the time it is at each of its awaits, whatever other
  pages and main() did since; it yields `SuccessPageIsTrue` and
  `HalfLoginNeedsFailure`: a login that is half done has had one of the five calls
  of a sign-in fail since a sign-in last completed.
* **DeepLinkProofs** (any announcements, links and bot; `NumbersAreParsed`: three
  digits of a season and four of an episode, as the parsers read;
  `LinksAreLists`). Type correctness of the conversation, and `LinkedIdsDistinct`:
  every stored id is the packing of its message, season and episode, and the packing
  is injective in that range (`IdsArePacked`, `Packing`) and above every id of seven
  digits. `LateAnswersOnly`: every message that is under way, read or collected
  answers the link of the open conversation or one that was given up (`AInv`), for
  only one is open at a time; and a file in answer to that link is one of those the
  link is for, or came by a button that was not one for the episode. Nothing is
  assumed of what the bot delivers or puts on its menus. `LinksAreNotShared`: a
  link of two announcements is two occurrences of it.
* **BrowseProofs** (any catalogue, sizes of pages, messages in the chat, changes
  and restarts; `TablesAreFinite`, `EpisodesHaveAnimes`, `SearchesFindAnimes`,
  `StartsAreTables`, `SizesArePositive`, `IdsAreNumbers`).
  * `BrowseTypeCorrect`: TypeOK is inductive.
  * `OnlyOldTokensStray`: `QInv` says of each screen of a search, and of the one
    being read, that its token stands for the query typed or is of an earlier
    process.
  * `HistoryShowsLatest`: `HInv` says that the table has exactly the episodes that
    were watched, in the order of their last time (`Recorded`), and that a steady
    screen is its first page.
  * `LabelsTold`: the label is read from one page of favourites. If the anime is
    a favourite and not on that page, the page is full of newer ones (`LabelIsTold`,
    an injection of its places into the favourites before it). `OrderExists` gives the
    page where one has to be there: a bijection by rank, shown from cardinalities of
    finite sets where a reader would expect an induction over the rows. `StepKinds`
    sorts the steps into those that may alter a list, after which nothing is steady,
    and those that leave every list as it is.
  * `WalksAreComplete` and `WatchListsAll`: `WInv` says that what a walk has seen
    is what an order of the rows has up to the end of its page (`ShownWalk`,
    `ReadWalk`), and that the count a page was made with is still right
    (`CountedWalk`). `PagesJoin` appends a page, and where there is no next
    button the pages before it hold every row (`WalkEnds`).

Every invariant and every action property of the passing runs, and the
refinement of Catalog, is stated by a theorem. A module's theorems share one
invariant, `IInv`, and those with an invariant of their own (`SInv`, `ClearsAll`,
`Quotas`, `AInv`, `QInv`, `HInv`, `LInv`, `WInv`) rest on it or on TypeOK.
`GenresNeverMixedUnraced`, `SuccessPageIsTrue` and `NoConnectionLeaks`, and the
types of Listener, BotSession, Connections, Login, DeepLink and Browse, are stated
by these theorems and listed by no run.

What channel_posts promises across runs is proved under `Serial`, one run at a
time, and PublisherSerial has one; section 7 says what overlap does. No other
theorem assumes that requests, coroutines, goroutines or pages take turns.

Only model-checked: liveness, which with ENABLED is out of the prover's reach:
EventuallyPosted, EveryRequestEnds, ResumesSaved and EveryLinkEnds.

## 7. Findings

IngestDuplicate shows that two announcements of one title, handled at the same
time, create two rows, where the comment at ingest.go:55-58 promises one.
`findings` in `PROJECT.json` quotes it.

The models show the following, too. Each line names a configuration and the
property that TLC finds violated; `tlc -config <cfg> <module>` gives the trace.

| configuration, module | violated | what happens |
|---|---|---|
| IngestLostUpdate.cfg, MCIngestRaces | NothingBlanked | An upsert writes every column from a row it read before (ingest.go:159) and blanks out what another one has merged meanwhile, where ingest.go:118-120 says "merge onto the existing row instead of overwriting so it doesn't blank out richer metadata". |
| PublisherClamp.cfg, MCPublisher | SharesFilled | A limit above 50 is replaced by 5, not by 50 (channel_post_import_repo.go:38). One channel with POSTS_PER_RUN=26 gets 5 posts a run; with 16 channels and the default of 3 the last fourteen get none, where publisher.go:113-114 says "Fetch a wider pool than needed". |
| PublisherStarved.cfg, MCPublisher | NewAnimesPosted | A post that Telegram refuses is passed over without a record and is first again in the next run (publisher.go:149-154): as many such animes as a run has posts keep every newer one from the channel, where docs/RENDER.md:50 says "the scheduler posts newly-approved anime there twice a day". |
| BotScaled.cfg, MCBotSession | CachedIsStored | A language chosen through one process of the bot is not spoken by another one, which keeps its own cache for as long as it lives (bot.go:93), where docs/ARCHITECTURE.md:73-75 says "this keeps the bot stateless and horizontally scalable". |
| BotOvertaken.cfg, MCBotSession | CachedIsStored | In one process, what another update had read before overwrites the language just chosen (bot.go:103), where bot.go:107-108 says that it is updated immediately. |
| LoginAlready.cfg, MCLogin | AlreadyIsTrue | After a sign-in whose get_me, save or registration failed, the client is logged in, and the page at /telegram-login/ says "the listener is active and the session is saved permanently, no need to repeat this" (control_server.py:51-55): neither is so, and the login is gone with the next deploy. |
| DeepLinkMenu.cfg, MCDeepLink | RightFileInTime | A menu that does not name the episode has buttons of other episodes, which contain one of the words of MENU_KEYWORDS too: the first is clicked, and its file is stored under the number of the link, where deep_link_fetcher.py:211-214 says "a generic watch/episodes navigation button to drill one level deeper". The bare number of line 225 takes "Season 1" for episode 1 in the same way. |
| ListenerEdited.cfg, MCListener | SkippedNeverForwarded | A message is judged by the text of its event and forwarded by its id: one that is edited in between into an adult or a subtitled post is copied into the storage channel, where docs/ARCHITECTURE.md:91-94 says "never forwarded to the storage channel". |

IngestGenres.cfg (MCIngestRaces) passes: it checks GenresMixOnlyIfOvertaken with
two genres, which IngestRaces has no room for. Two overlapping SetGenres
transactions (anime_repo.go:145-162) do leave the genres of both; the property
says that nothing else does.

Others can be seen with a small change:

* *Overlapping runs post an anime twice to one channel* (main.go:37, cron and the
  trigger run side by side): add RepeatedOnlyIfLost to PublisherOverlap.cfg.
* *A backfill copies into the storage channel what is imported already*
  (processor.py:77 forwards before the API deduplicates), where docs/RENDER.md:162-163
  says "already-imported episodes are skipped": ListenerConcurrent has the step
  (`Backfill` and then `Forward`), and the row merely keeps one of the copies.
* *In a storage channel that is the source, an edited post is delivered for the
  episode it was imported as* (processor.py:46): the exception `edited` in
  CopyIsTheEpisode.
* *A saved session is not resumed if the API did not answer when the listener
  asked for it* (main.py:102-107): the process goes on with an empty session until
  the next restart, where docs/RENDER.md:114-117 says "This login only needs to happen once". It is the
  exception in ResumesSaved, without which the property fails.
* *top_rated has no order*: nothing writes ratings, so all its keys are equal and
  pages may repeat or skip rows (anime_repo.go:250). It is the exception in
  WalkComplete. *A random anime never comes*: Postgres refuses ORDER BY random()
  under SELECT DISTINCT; the model has no such action for that reason.
* *Episodes without a season are on no screen* once the anime has a season
  (anime.go:79): the exception in WatchShowsAll.

## 8. Not modelled

* Texts and translations, captions and layout: no state depends on them. Of the
  keyboards, what the buttons ask is in Browse.
* The regular expressions of the parser: their results are nondeterministic inputs
  of Listener and DeepLink.
* Start-up and configuration: the values it reads are constants. What a restart
  does to a component's state is an action of its module.
* Import logs and the sync cursor: written, and read back by nothing that is
  modelled.
* `login.py` and the other scripts run by hand; `register_all` is in Login, as the
  login page calls it.
* The deduplication of migration 0004: it runs once, before the process serves.
