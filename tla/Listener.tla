------------------------------ MODULE Listener ------------------------------
(***************************************************************************)
(* The listener: event handlers, the backfill and the deletion of an anime *)
(* turn the messages of a source channel into copies in the storage        *)
(* channel and rows of the API.                                            *)
(*                                                                         *)
(* All of them are coroutines of one asyncio process.  Every call to       *)
(* Telegram or to the API is awaited, so the other coroutines run between  *)
(* any two calls; each call is one step here (module Ingest opens the two  *)
(* upserts up).  A message is read when its event arrives or its history   *)
(* page is fetched; a forward copies what it says by then.                 *)
(*                                                                         *)
(* The source channel may be the storage channel itself: then a post is    *)
(* delivered from where it stands, and what is relayed is a post of the    *)
(* source channel too.                                                     *)
(*                                                                         *)
(* Simplifications.  There is one source channel.  A text that is skipped  *)
(* (no title, adult, subtitled, removed by Telegram, too short) is of kind *)
(* "other".  A link of an announcement stands for each episode it          *)
(* delivers, the conversation with the delivery bot for one call that may  *)
(* fail or return any video.  The sync cursor and the import log are       *)
(* written and never read, and are left out.                               *)
(***************************************************************************)
EXTENDS Naturals, FiniteSets

CONSTANTS
    Handlers,   \* bound on the coroutines in progress
    Messages,   \* ids of messages of the source channel
    Titles,     \* anime titles
    Numbers,    \* (season, episode number, quality)
    Texts,      \* what messages say
    AnimeIds,   \* bound on the rows of animes
    Copies,     \* bound on the messages of the storage channel
    Rows,       \* ids source_channels gives the channel, one per registration
    SourceIsStorage, \* the source channel is the storage channel
    NULL

Kinds == {"episode", "poster", "announcement", "other"}

ASSUME MessagesAreNumbered == Messages \subseteq Nat
ASSUME TextsAreRead ==
    /\ Texts \subseteq [kind: Kinds, title: Titles, numbers: SUBSET Numbers]
    /\ \A t \in Texts : t.kind = "episode" => \E n \in Numbers : t.numbers = {n}
ASSUME OneChannelOrTwo ==
    /\ SourceIsStorage \in BOOLEAN
    /\ SourceIsStorage => Copies = Messages
ASSUME NullIsNothing ==
    /\ NULL \notin Texts
    /\ \A S \in {Messages, Numbers, AnimeIds, Copies, Rows} : NULL \notin S

VARIABLES
    post,       \* per message: what it says now; NULL when it is not there
    posted,     \* the messages that were ever posted
    copies,     \* per message of the storage channel: what it shows; history:
                \* the message it was made of or for, the episode it was
                \* fetched for, whether it was edited where it stands
    gone,       \* the messages of the storage channel that were deleted
    animes,     \* rows of animes: title, poster, is_deleted
    episodes,   \* rows of episodes, by anime and number
    registered, \* the channel's row of source_channels
    retired,    \* rows of source_channels that were deleted
    active,     \* active_channels
    task,       \* per coroutine: its next call and its locals
    raced,      \* messages edited or deleted during their import (history)
    erased,     \* (row, message) pairs whose episode the API deleted (history)
    purged      \* animes whose copies were being deleted (history)

telegram == <<post, posted, copies, gone>>
tables == <<animes, episodes, registered, retired>>
history == <<raced, erased, purged>>
vars == <<telegram, tables, active, task, history>>

Copy == [shows: Texts, of: Messages, link: (Titles \X Numbers) \cup {NULL}, edited: BOOLEAN]

AnimeRow == [title: Titles, poster: Copies \cup {NULL}, deleted: BOOLEAN]

\* link is NULL for the episode of a video post, else the number that makes
\* the synthetic source id of a linked episode.
EpisodeRow ==
    [row: Rows \cup {NULL}, msg: Messages, link: Numbers \cup {NULL},
     copy: Copies, deleted: BOOLEAN]

ASSUME NullIsNoRow == NULL \notin Copy \cup AnimeRow \cup EpisodeRow

\* todo: the links still to follow; batch: the history still to import;
\* copies: the copy just made, or those a deletion has listed.
Task ==
    [pc: {"idle", "forward", "anime", "relay", "episode", "erase",
          "list", "purge", "drop"},
     row: Rows \cup {NULL}, msg: Messages \cup {NULL}, text: Texts \cup {NULL},
     number: Numbers \cup {NULL}, todo: SUBSET Numbers,
     batch: SUBSET (Messages \X Texts),
     anime: AnimeIds \cup {NULL}, copies: SUBSET Copies]

Idle ==
    [pc |-> "idle", row |-> NULL, msg |-> NULL, text |-> NULL,
     number |-> NULL, todo |-> {}, batch |-> {}, anime |-> NULL, copies |-> {}]

Types ==
    /\ post \in [Messages -> Texts \cup {NULL}]
    /\ posted \subseteq Messages
    /\ copies \in [Copies -> Copy \cup {NULL}]
    /\ gone \subseteq Copies
    /\ animes \in [AnimeIds -> AnimeRow \cup {NULL}]
    /\ episodes \in [AnimeIds \X Numbers -> EpisodeRow \cup {NULL}]
    /\ registered \in Rows \cup {NULL}
    /\ retired \subseteq Rows
    /\ active \in Rows \cup {NULL}
    /\ task \in [Handlers -> Task]
    /\ raced \subseteq Messages
    /\ erased \subseteq Rows \X Messages
    /\ purged \subseteq AnimeIds

TypeOK ==
    /\ Types
    /\ \A h \in Handlers :
          /\ task[h].pc \in {"forward", "anime", "relay", "episode"}
             => task[h].text # NULL /\ task[h].msg # NULL /\ task[h].row # NULL
          /\ task[h].pc \in {"relay", "episode", "list", "purge", "drop"}
             => task[h].anime # NULL /\ animes[task[h].anime] # NULL
          /\ task[h].pc = "episode" => task[h].number # NULL /\ task[h].copies # {}

Init ==
    /\ post = [m \in Messages |-> NULL]
    /\ posted = {}
    /\ copies = [c \in Copies |-> NULL]
    /\ gone = {}
    /\ animes = [a \in AnimeIds |-> NULL]
    /\ episodes = [k \in AnimeIds \X Numbers |-> NULL]
    /\ registered = NULL
    /\ retired = {}
    /\ active = NULL
    /\ task = [h \in Handlers |-> Idle]
    /\ raced = {}
    /\ erased = {}
    /\ purged = {}

Set(h, x) == task' = [task EXCEPT ![h] = x]

-----------------------------------------------------------------------------
(* The course of a task *)

\* handle_episode or handle_announcement of a message that says t.  A message
\* of the storage channel is its own copy.
Import(x, m, t) ==
    [x EXCEPT !.pc = IF t.kind = "announcement" \/ SourceIsStorage THEN "anime" ELSE "forward",
              !.msg = m, !.text = t, !.number = NULL, !.anime = NULL,
              !.todo = IF t.kind = "episode" THEN {} ELSE t.numbers,
              !.copies = IF t.kind # "announcement" /\ SourceIsStorage THEN {m} ELSE {}]

\* A message is done with: the backfill goes on with the next oldest one.
NextMessage(x) ==
    IF x.batch = {}
    THEN Idle
    ELSE LET p == CHOOSE p \in x.batch : \A q \in x.batch : p[1] <= q[1]
         IN  Import([x EXCEPT !.batch = @ \ {p}], p[1], p[2])

\* Fault: a link is stored without its file, under the copy at hand.
NextLinkNoFile(x, rest) ==
    IF rest = {}
    THEN NextMessage(x)
    ELSE LET n == CHOOSE n \in rest : TRUE
         IN  [x EXCEPT !.pc = IF x.copies = {} THEN "relay" ELSE "episode",
                       !.number = n, !.todo = rest \ {n}]

\* fetch_linked_episodes, with the links in rest still to follow.
NextLink(x, rest) ==
    IF rest = {}
    THEN NextMessage(x)
    ELSE [x EXCEPT !.pc = "relay", !.todo = rest, !.number = NULL, !.copies = {}]

\* A task imports the message, or will.
WorksOn(h, m) == \/ task[h].msg = m /\ task[h].pc # "erase"
                 \/ \E t \in Texts : <<m, t>> \in task[h].batch

-----------------------------------------------------------------------------
(* Telegram *)

\* An event starts a handler if the channel is known, and is lost otherwise.
Event(x) ==
    \/ /\ active = NULL
       /\ UNCHANGED task
    \/ /\ active # NULL
       /\ \E h \in Handlers : task[h].pc = "idle" /\ Set(h, [x EXCEPT !.row = active])

\* Only incoming posts count: one's own in one's own channel are not heard.
ImportEvent(m, t) ==
    \/ /\ t.kind = "other" \/ SourceIsStorage
       /\ UNCHANGED task
    \/ /\ t.kind # "other"
       /\ Event(Import(Idle, m, t))

Race(S) == raced' = raced \cup {m \in S : \E h \in Handlers : WorksOn(h, m)}

Made(shows, m, link) == [shows |-> shows, of |-> m, link |-> link, edited |-> FALSE]

\* A post of the storage channel is there to be copied, and so is its edit.
InPlace(m, copy) ==
    copies' = IF SourceIsStorage THEN [copies EXCEPT ![m] = copy] ELSE copies

NewMessage(m, t) ==
    /\ m \notin posted
    /\ posted' = posted \cup {m}
    /\ post' = [post EXCEPT ![m] = t]
    /\ InPlace(m, Made(t, m, NULL))
    /\ ImportEvent(m, t)
    /\ UNCHANGED <<gone, tables, active, history>>

MessageEdited(m, t) ==
    /\ post[m] \notin {NULL, t}
    /\ post' = [post EXCEPT ![m] = t]
    /\ InPlace(m, [copies[m] EXCEPT !.shows = t, !.edited = TRUE])
    /\ ImportEvent(m, t)
    /\ Race({m})
    /\ UNCHANGED <<posted, gone, tables, active, erased, purged>>

MessageDeleted(m) ==
    /\ post[m] # NULL
    /\ post' = [post EXCEPT ![m] = NULL]
    /\ gone' = IF SourceIsStorage THEN gone \cup {m} ELSE gone
    /\ Event([Idle EXCEPT !.pc = "erase", !.msg = m])
    /\ Race({m})
    /\ UNCHANGED <<posted, copies, tables, active, erased, purged>>

-----------------------------------------------------------------------------
(* Calls of an import *)

\* A new message of the storage channel; one's own post there is not heard.
Store(c, copy) ==
    /\ copies[c] = NULL
    /\ copies' = [copies EXCEPT ![c] = copy]
    /\ IF SourceIsStorage
       THEN post' = [post EXCEPT ![c] = copy.shows] /\ posted' = posted \cup {c}
       ELSE UNCHANGED <<post, posted>>

\* The message is forwarded by its id, so a deleted one cannot be.
Forward(h, c) ==
    /\ task[h].pc = "forward"
    /\ LET m == task[h].msg IN
       /\ post[m] # NULL
       /\ Store(c, Made(post[m], m, NULL))
    /\ Set(h, [task[h] EXCEPT !.pc = "anime", !.copies = {c}])
    /\ UNCHANGED <<gone, tables, active, history>>

Videos == {t \in Texts : t.kind \in {"episode", "other"}}

Fetched(x, n, file) == Made(file, x.msg, <<x.text.title, n>>)

\* Fault: a file that is in the storage channel is not copied again.
RelayOnce(h, c, n) ==
    /\ task[h].pc = "relay"
    /\ n \in task[h].todo
    /\ \E file \in Videos :
          \/ Store(c, Fetched(task[h], n, file))
          \/ /\ copies[c] # NULL
             /\ copies[c].shows = file
             /\ UNCHANGED <<copies, post, posted>>
    /\ Set(h, [task[h] EXCEPT !.pc = "episode", !.number = n, !.todo = @ \ {n},
                              !.copies = {c}])
    /\ UNCHANGED <<gone, tables, active, history>>

\* Fault: in the storage channel a fetched file is taken to be there already.
RelayInPlace(h, c, n) ==
    /\ task[h].pc = "relay"
    /\ n \in task[h].todo
    /\ IF SourceIsStorage
       THEN c = task[h].msg /\ UNCHANGED <<copies, post, posted>>
       ELSE \E file \in Videos : Store(c, Fetched(task[h], n, file))
    /\ Set(h, [task[h] EXCEPT !.pc = "episode", !.number = n, !.todo = @ \ {n},
                              !.copies = {c}])
    /\ UNCHANGED <<gone, tables, active, history>>

\* fetch_episode_file or fetch_batch_files, and relay_to_storage: whatever
\* video came back (module DeepLink) is stored for the episode asked for.
Relay(h, c, n) ==
    /\ task[h].pc = "relay"
    /\ n \in task[h].todo
    /\ \E file \in Videos : Store(c, Fetched(task[h], n, file))
    /\ Set(h, [task[h] EXCEPT !.pc = "episode", !.number = n, !.todo = @ \ {n},
                              !.copies = {c}])
    /\ UNCHANGED <<gone, tables, active, history>>

Listed(a) == animes[a] # NULL /\ ~animes[a].deleted

Titled(t) == {a \in AnimeIds : Listed(a) /\ animes[a].title = t}

AfterAnime(x, a) ==
    IF x.text.kind = "episode"
    THEN [x EXCEPT !.pc = "episode", !.anime = a,
                   !.number = CHOOSE n \in Numbers : n \in x.text.numbers]
    ELSE NextLink([x EXCEPT !.anime = a], x.todo)

\* The poster is stored on an update only: the INSERT does not name it.
UpsertAnime(h, a) ==
    /\ task[h].pc = "anime"
    /\ LET x == task[h] IN
       /\ \/ /\ a \in Titled(x.text.title)
             /\ animes' = [animes EXCEPT ![a].poster =
                             IF x.text.kind = "poster"
                             THEN CHOOSE c \in Copies : c \in x.copies
                             ELSE @]
          \/ /\ Titled(x.text.title) = {}
             /\ animes[a] = NULL
             /\ registered = x.row
             /\ animes' = [animes EXCEPT ![a] =
                  [title |-> x.text.title, poster |-> NULL, deleted |-> FALSE]]
       /\ Set(h, AfterAnime(x, a))
    /\ UNCHANGED <<telegram, episodes, registered, retired, active, history>>

Link(x) == IF x.text.kind = "episode" THEN NULL ELSE x.number

AfterEpisode(x) ==
    IF x.text.kind = "episode" THEN NextMessage(x) ELSE NextLink(x, x.todo)

\* Fault: importing an episode again brings it back.
ReimportedRevived(old, c) == [old EXCEPT !.copy = c, !.deleted = FALSE]

\* ON CONFLICT DO UPDATE: the row takes the new copy and nothing else.
Reimported(old, c) == [old EXCEPT !.copy = c]

SameSource(x) ==
    {k \in DOMAIN episodes :
        /\ episodes[k] # NULL
        /\ episodes[k].row = x.row
        /\ episodes[k].msg = x.msg
        /\ episodes[k].link = Link(x)}

UpsertEpisode(h, c) ==
    /\ task[h].pc = "episode"
    /\ c \in task[h].copies
    /\ LET x == task[h]
           k == <<x.anime, x.number>> IN
       /\ \/ /\ episodes[k] # NULL
             /\ episodes' = [episodes EXCEPT ![k] = Reimported(@, c)]
          \/ /\ episodes[k] = NULL
             /\ SameSource(x) = {}
             /\ registered = x.row
             /\ episodes' = [episodes EXCEPT ![k] =
                  [row |-> x.row, msg |-> x.msg, link |-> Link(x),
                   copy |-> c, deleted |-> FALSE]]
       /\ Set(h, AfterEpisode(x))
    /\ UNCHANGED <<telegram, animes, registered, retired, active, history>>

\* The deletion of the message: its own episode, not those it links to.
Erase(h) ==
    /\ task[h].pc = "erase"
    /\ LET x == task[h] IN
       /\ episodes' = [k \in DOMAIN episodes |->
             IF /\ episodes[k] # NULL
                /\ episodes[k].row = x.row
                /\ episodes[k].msg = x.msg
                /\ episodes[k].link = NULL
             THEN [episodes[k] EXCEPT !.deleted = TRUE]
             ELSE episodes[k]]
       /\ erased' = erased \cup {<<x.row, x.msg>>}
    /\ Set(h, Idle)
    /\ UNCHANGED <<telegram, animes, registered, retired, active, raced, purged>>

\* A call fails, is refused (a constraint of the tables, a deleted message)
\* or has its answer lost.  A failed link is skipped, and with it the rest of
\* the batch it may belong to.
CallFails(h) ==
    /\ \/ /\ task[h].pc \in {"forward", "anime"}
          /\ Set(h, NextMessage(task[h]))
       \/ /\ \/ task[h].pc = "relay"
             \/ task[h].pc = "episode" /\ task[h].text.kind # "episode"
          /\ \E rest \in SUBSET task[h].todo :
                /\ task[h].pc = "relay" => rest # task[h].todo
                /\ Set(h, NextLink(task[h], rest))
       \/ /\ task[h].pc = "episode"
          /\ task[h].text.kind = "episode"
          /\ Set(h, NextMessage(task[h]))
       \/ /\ task[h].pc \in {"erase", "list", "drop"}
          /\ Set(h, Idle)
    /\ UNCHANGED <<telegram, tables, active, history>>

-----------------------------------------------------------------------------
(* Backfill, and the deletion of an anime with its copies *)

\* The channel is asked of the API; the history is fetched in one page.
Backfill(h) ==
    /\ task[h].pc = "idle"
    /\ registered # NULL
    /\ LET page == {p \in Messages \X Texts :
                       post[p[1]] = p[2] /\ p[2].kind # "other"} IN
       Set(h, NextMessage([Idle EXCEPT !.row = registered, !.batch = page]))
    /\ UNCHANGED <<telegram, tables, active, history>>

\* get_anime
RemoveAnime(h, a) ==
    /\ task[h].pc = "idle"
    /\ Listed(a)
    /\ Set(h, [Idle EXCEPT !.pc = "list", !.anime = a,
                           !.copies = {animes[a].poster} \ {NULL}])
    /\ UNCHANGED <<telegram, tables, active, history>>

Undeleted(k) == episodes[k] # NULL /\ ~episodes[k].deleted

\* Fault: the episodes are looked up by title.
CopiesOfTitle(a) ==
    {episodes[k].copy : k \in {k \in DOMAIN episodes :
        Undeleted(k) /\ animes[k[1]].title = animes[a].title}}

CopiesOf(a) ==
    {episodes[k].copy : k \in {k \in DOMAIN episodes :
        Undeleted(k) /\ k[1] = a}}

\* list_all_episodes
ListEpisodes(h) ==
    /\ task[h].pc = "list"
    /\ Set(h, [task[h] EXCEPT !.pc = "purge",
                              !.copies = @ \cup CopiesOf(task[h].anime)])
    /\ UNCHANGED <<telegram, tables, active, history>>

DeleteMessages(S) ==
    /\ gone' = gone \cup S
    /\ IF SourceIsStorage
       THEN /\ post' = [m \in Messages |-> IF m \in S THEN NULL ELSE post[m]]
            /\ Race(S)
       ELSE UNCHANGED <<post, raced>>

\* delete_messages; a failure is logged, and its answer may be lost.
Purge(h) ==
    /\ task[h].pc = "purge"
    /\ DeleteMessages(task[h].copies) \/ UNCHANGED <<gone, post, raced>>
    /\ purged' = purged \cup {task[h].anime}
    /\ Set(h, [task[h] EXCEPT !.pc = "drop"])
    /\ UNCHANGED <<posted, copies, tables, active, erased>>

Drop(h) ==
    /\ task[h].pc = "drop"
    /\ animes' = [animes EXCEPT ![task[h].anime].deleted = TRUE]
    /\ Set(h, Idle)
    /\ UNCHANGED <<telegram, episodes, registered, retired, active, history>>

-----------------------------------------------------------------------------
(* Registration, refresh and restart *)

Register(r) ==
    /\ registered = NULL
    /\ r \notin retired
    /\ registered' = r
    /\ UNCHANGED <<telegram, animes, episodes, retired, active, task, history>>

\* ON DELETE SET NULL
Unregister ==
    /\ registered # NULL
    /\ registered' = NULL
    /\ retired' = retired \cup {registered}
    /\ episodes' = [k \in DOMAIN episodes |->
          IF episodes[k] # NULL /\ episodes[k].row = registered
          THEN [episodes[k] EXCEPT !.row = NULL]
          ELSE episodes[k]]
    /\ UNCHANGED <<telegram, animes, active, task, history>>

RefreshChannels ==
    /\ active # registered
    /\ active' = registered
    /\ UNCHANGED <<telegram, tables, task, history>>

Crash ==
    /\ active' = NULL
    /\ task' = [h \in Handlers |-> Idle]
    /\ UNCHANGED <<telegram, tables, history>>

Step(h) ==
    \/ \E c \in Copies : \/ Forward(h, c)
                         \/ \E n \in Numbers : Relay(h, c, n)
                         \/ UpsertEpisode(h, c)
    \/ \E a \in AnimeIds : UpsertAnime(h, a) \/ RemoveAnime(h, a)
    \/ Erase(h) \/ CallFails(h) \/ Backfill(h)
    \/ ListEpisodes(h) \/ Purge(h) \/ Drop(h)

Next ==
    \/ \E m \in Messages, t \in Texts : NewMessage(m, t) \/ MessageEdited(m, t)
    \/ \E m \in Messages : MessageDeleted(m)
    \/ \E h \in Handlers : Step(h)
    \/ \E r \in Rows : Register(r)
    \/ Unregister \/ RefreshChannels \/ Crash

Spec == Init /\ [][Next]_vars

-----------------------------------------------------------------------------
(* Properties *)

\* Deleting an anime takes its copies out of the storage channel for good, so
\* no copy may serve two episodes or posters, or be given to a second one by
\* a task still at work.  In the storage channel itself this is not promised:
\* a post may be imported again as something else.
Uses(c) ==
    {<<"episode", k>> : k \in {k \in DOMAIN episodes :
        episodes[k] # NULL /\ episodes[k].copy = c}}
    \cup {<<"poster", a>> : a \in {a \in AnimeIds :
        animes[a] # NULL /\ animes[a].poster = c}}
    \cup {<<"task", h>> : h \in {h \in Handlers :
        task[h].pc \in {"anime", "episode"} /\ c \in task[h].copies}}

CopiesNotShared ==
    SourceIsStorage \/ \A c \in Copies : Cardinality(Uses(c)) <= 1

\* What the bot delivers is there: the copy of an episode on the list exists
\* unless the deletion of its own anime has begun.  In the storage channel
\* itself the owner may delete it.
ServedCopiesExist ==
    SourceIsStorage \/
    \A k \in DOMAIN episodes :
        Undeleted(k) /\ k[1] \notin purged
        => copies[episodes[k].copy] # NULL /\ episodes[k].copy \notin gone

File(title, n) == [kind |-> "episode", title |-> title, numbers |-> {n}]

\* The copy is of that episode, or was fetched for that very episode, but for
\* a message that was edited while it was imported or where it stands.
MadeFor(copy, title, n) ==
    \/ copy.shows = File(title, n)
    \/ copy.link = <<title, n>>
    \/ copy.link = NULL /\ copy.of \in raced
    \/ copy.edited

\* An episode is delivered from a message of its title and number, or from the
\* file that following its own link brought, after any edits, imports and
\* failures; a post edited under its import or in the storage channel is
\* excepted.  What file a link brings is the matter of module DeepLink.
CopyIsTheEpisode ==
    \A k \in DOMAIN episodes :
        episodes[k] # NULL
        => MadeFor(copies[episodes[k].copy], animes[k[1]].title, k[2])

\* A post that is skipped (adult, subtitled, removed) is never copied into the
\* storage channel: it is checked before it is forwarded.
SkippedNeverForwarded ==
    SourceIsStorage \/
    \A c \in Copies :
        copies[c] # NULL /\ copies[c].link = NULL => copies[c].shows.kind # "other"

\* The episode of a deleted message stays deleted once the API has been told,
\* whatever is imported afterwards, unless it was imported at that very time.
ErasureSticks ==
    \A k \in DOMAIN episodes :
        /\ Undeleted(k)
        /\ episodes[k].link = NULL
        => \/ <<episodes[k].row, episodes[k].msg>> \notin erased
           \/ episodes[k].msg \in raced

=============================================================================
