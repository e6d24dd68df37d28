----------------------------- MODULE BotSession -----------------------------
(***************************************************************************)
(* What the bot keeps of a user: the language cached by each process, and  *)
(* the rows of users and favorites behind the API.                         *)
(*                                                                         *)
(* Every update runs in a goroutine of its own, and a user who taps twice  *)
(* has two.  A call of the API is one step, except ToggleFavorite, whose   *)
(* two statements are two.  A call may fail before or after its effect.    *)
(*                                                                         *)
(* Simplifications.  A user's row id is the user.  Users have a name.  All *)
(* screens that ask ensureUser a second time, with the Telegram id alone,  *)
(* are of kind "detail"; what they list is module Browse's subject.        *)
(***************************************************************************)
EXTENDS Naturals, FiniteSets

CONSTANTS
    Bots,       \* processes that run the bot
    Handlers,   \* bound on the updates being handled
    Users, Animes, Langs,
    Default,    \* i18n.Default
    MaxCrashes, \* bound on the restarts
    NULL

ASSUME DefaultIsALanguage == Default \in Langs /\ NULL \notin Langs
ASSUME NoRowIsNull == NULL \notin [lang : Langs, named : BOOLEAN]
ASSUME CrashesAreCounted == MaxCrashes \in Nat

VARIABLES
    users,      \* rows of users; NULL where there is none
    favorites,  \* rows of favorites
    cache,      \* per process: userCache
    task,       \* per goroutine: the update and where its handler is
    crashes,
    excused,    \* (process, user) whose cache missed a change, until one is made
                \* through that process (history)
    unsaved,    \* users whose first touch in some update failed (history)
    contested   \* goroutines whose toggle another one overtook (history)

tables == <<users, favorites>>
vars == <<tables, cache, task, crashes, excused, unsaved, contested>>

Row == [lang: Langs, named: BOOLEAN]

\* full: ensureUser was given the user as Telegram sent it, name included.
\* got: the language TouchUser returned; was: what IsFavorite returned;
\* toast: what a toggle said it did; label: what the detail screen says.
Task ==
    [at: {"idle", "load", "touch", "store", "setlang", "cachelang",
          "isfav", "write", "toast", "favs", "reply"},
     bot: Bots \cup {NULL}, user: Users \cup {NULL},
     kind: {"text", "lang", "fav", "detail"},
     lang: Langs, anime: Animes \cup {NULL}, full: BOOLEAN,
     got: Langs, was: BOOLEAN, toast: BOOLEAN \cup {NULL},
     label: BOOLEAN \cup {NULL}]

\* What an update may ask: a text, a language, a favourite, an anime.
Requests ==
    [kind: {"text"}, lang: {Default}, anime: {NULL}]
    \cup [kind: {"lang"}, lang: Langs, anime: {NULL}]
    \cup [kind: {"fav", "detail"}, lang: {Default}, anime: Animes]

Start(b, u, q) ==
    [at |-> "load", bot |-> b, user |-> u, kind |-> q.kind, lang |-> q.lang,
     anime |-> q.anime, full |-> TRUE, got |-> Default, was |-> FALSE,
     toast |-> NULL, label |-> NULL]

Idle == [at |-> "idle", bot |-> NULL, user |-> NULL, kind |-> "text",
         lang |-> Default, anime |-> NULL, full |-> TRUE, got |-> Default,
         was |-> FALSE, toast |-> NULL, label |-> NULL]

InFlight(b, u, places) ==
    {h \in Handlers : task[h].at \in places /\ task[h].bot = b /\ task[h].user = u}

-----------------------------------------------------------------------------
Init ==
    /\ users = [u \in Users |-> NULL]
    /\ favorites = {}
    /\ cache = [b \in Bots |-> [u \in Users |-> NULL]]
    /\ task = [h \in Handlers |-> Idle]
    /\ crashes = 0
    /\ excused = {}
    /\ unsaved = {}
    /\ contested = {}

-----------------------------------------------------------------------------
(* An update arrives: a message, or the press of a button.                 *)

Dispatch(h) ==
    /\ task[h].at = "idle"
    /\ \E b \in Bots, u \in Users, q \in Requests :
           task' = [task EXCEPT ![h] = Start(b, u, q)]
    /\ UNCHANGED <<tables, cache, crashes, excused, unsaved, contested>>

-----------------------------------------------------------------------------
(* ensureUser.                                                             *)

\* Where the handler goes when ensureUser returned, known or not.
After(t, known) ==
    CASE t.full /\ t.kind = "lang"       -> [t EXCEPT !.at = "setlang"]
      [] t.full /\ t.kind = "text"       -> [t EXCEPT !.at = "reply"]
      [] t.full /\ t.kind \in {"fav", "detail"}
                                         -> [t EXCEPT !.at = "load", !.full = FALSE]
      [] ~t.full /\ ~known               -> [t EXCEPT !.at = "reply"]
      [] ~t.full /\ known /\ t.kind = "fav"
                                         -> [t EXCEPT !.at = "isfav"]
      [] OTHER                           -> [t EXCEPT !.at = "favs"]

LoadUser(h) ==
    /\ task[h].at = "load"
    /\ task' = [task EXCEPT ![h] =
           IF cache[@.bot][@.user] # NULL
           THEN After(@, TRUE)
           ELSE [@ EXCEPT !.at = "touch"]]
    /\ UNCHANGED <<tables, cache, crashes, excused, unsaved, contested>>

\* Fault: every touch writes the language it was sent.
UpsertLanguage(u, named) ==
    [users EXCEPT ![u] = [lang |-> Default, named |-> named]]

\* INSERT ... ON CONFLICT: the name is overwritten, the language is not.
Upsert(u, named) ==
    [users EXCEPT ![u] =
        [lang |-> IF @ = NULL THEN Default ELSE @.lang, named |-> named]]

TouchUser(h) ==
    /\ task[h].at = "touch"
    /\ users' = Upsert(task[h].user, task[h].full)
    /\ task' = [task EXCEPT ![h].at = "store",
                              ![h].got = users'[task[h].user].lang]
    /\ UNCHANGED <<favorites, cache, crashes, excused, unsaved, contested>>

TouchFails(h) ==
    /\ task[h].at = "touch"
    /\ users' \in {users, Upsert(task[h].user, task[h].full)}
    /\ task' = [task EXCEPT ![h] = After(@, FALSE)]
    /\ unsaved' = IF task[h].full THEN unsaved \cup {task[h].user} ELSE unsaved
    /\ UNCHANGED <<favorites, cache, crashes, excused, contested>>

\* Fault: nothing is cached.
StoreUserNot(h) ==
    /\ task[h].at = "store"
    /\ task' = [task EXCEPT ![h] = After([@ EXCEPT !.got = Default], TRUE)]
    /\ UNCHANGED <<tables, cache, crashes, excused, unsaved, contested>>

StoreUser(h) ==
    /\ task[h].at = "store"
    /\ cache' = [cache EXCEPT ![task[h].bot][task[h].user] = task[h].got]
    /\ task' = [task EXCEPT ![h] = After([@ EXCEPT !.got = Default], TRUE)]
    /\ UNCHANGED <<tables, crashes, excused, unsaved, contested>>

-----------------------------------------------------------------------------
(* changeLanguage.                                                         *)

\* UPDATE users: no row, no change, and no error.
LanguageSet(u, l) ==
    [users EXCEPT ![u] = IF @ = NULL THEN NULL ELSE [@ EXCEPT !.lang = l]]

\* The caches that will not hear of a change h makes: those of the other
\* processes, and its own if another goroutine is about to write to it or if
\* the change finds no row.
Missed(h, heard) ==
    LET u == task[h].user IN
    {<<b, u>> : b \in {c \in Bots :
        \/ c = task[h].bot /\ users[u] = NULL
        \/ (c # task[h].bot \/ ~heard) /\ cache[c][u] # NULL
        \/ InFlight(c, u, {"store", "cachelang"}) \ {h} # {}}}

\* The cache that setUserLang is about to write.
Heard(h) == {<<task[h].bot, task[h].user>>}

SetLanguage(h) ==
    /\ task[h].at = "setlang"
    /\ users' = LanguageSet(task[h].user, task[h].lang)
    /\ task' = [task EXCEPT ![h].at = "cachelang"]
    /\ excused' = (excused \ Heard(h)) \cup Missed(h, TRUE)
    /\ UNCHANGED <<favorites, cache, crashes, unsaved, contested>>

SetLanguageFails(h) ==
    /\ task[h].at = "setlang"
    /\ \/ UNCHANGED <<users, excused>>
       \/ /\ users' = LanguageSet(task[h].user, task[h].lang)
          /\ excused' = excused \cup Missed(h, FALSE)
    /\ task' = [task EXCEPT ![h].at = "reply"]
    /\ UNCHANGED <<favorites, cache, crashes, unsaved, contested>>

\* Fault: the change is left to the next restart.
SetUserLangNot(h) ==
    /\ task[h].at = "cachelang"
    /\ task' = [task EXCEPT ![h].at = "reply"]
    /\ UNCHANGED <<tables, cache, crashes, excused, unsaved, contested>>

SetUserLang(h) ==
    /\ task[h].at = "cachelang"
    /\ cache' = [cache EXCEPT ![task[h].bot][task[h].user] =
                     IF @ = NULL THEN NULL ELSE task[h].lang]
    /\ task' = [task EXCEPT ![h].at = "reply"]
    /\ UNCHANGED <<tables, crashes, excused, unsaved, contested>>

-----------------------------------------------------------------------------
(* toggleFavoriteCallback and the screen that follows it.                  *)

Pair(h) == <<task[h].user, task[h].anime>>

IsFavorite(h) ==
    /\ task[h].at = "isfav"
    /\ task' = [task EXCEPT ![h].at = "write",
                              ![h].was = Pair(h) \in favorites]
    /\ UNCHANGED <<tables, cache, crashes, excused, unsaved, contested>>

\* Fault: a second tap leaves the favourite.
ToggledOn(h) == favorites \cup {Pair(h)}

Toggled(h) ==
    IF task[h].was THEN favorites \ {Pair(h)} ELSE favorites \cup {Pair(h)}

Overtaken(h) ==
    {g \in Handlers \ {h} :
        /\ task[g].at = "write" \/ task[g].toast # NULL
        /\ Pair(g) = Pair(h)}

\* Fault: the answer says what the favourite was.
ToggleFavoriteInverted(h) ==
    /\ task[h].at = "write"
    /\ favorites' = Toggled(h)
    /\ contested' = contested \cup Overtaken(h)
    /\ task' = [task EXCEPT ![h].at = "toast",
                              ![h].was = FALSE, ![h].toast = task[h].was]
    /\ UNCHANGED <<users, cache, crashes, excused, unsaved>>

ToggleFavorite(h) ==
    /\ task[h].at = "write"
    /\ favorites' = Toggled(h)
    /\ contested' = contested \cup Overtaken(h)
    /\ task' = [task EXCEPT ![h].at = "toast",
                              ![h].was = FALSE, ![h].toast = ~task[h].was]
    /\ UNCHANGED <<users, cache, crashes, excused, unsaved>>

ToggleFails(h) ==
    /\ task[h].at \in {"isfav", "write"}
    /\ \/ UNCHANGED <<favorites, contested>>
       \/ /\ task[h].at = "write"
          /\ favorites' = Toggled(h)
          /\ contested' = contested \cup Overtaken(h)
    /\ task' = [task EXCEPT ![h].at = "reply"]
    /\ UNCHANGED <<users, cache, crashes, excused, unsaved>>

\* In a channel the toast is all; in a chat the detail screen follows.
Toast(h) ==
    /\ task[h].at = "toast"
    /\ \/ task' = [task EXCEPT ![h].at = "reply"]
       \/ task' = [task EXCEPT ![h].at = "load", ![h].kind = "detail"]
    /\ UNCHANGED <<tables, cache, crashes, excused, unsaved, contested>>

\* A favourite just added is the newest, so it is on the one page that is read.
ListFavorites(h) ==
    /\ task[h].at = "favs"
    /\ \E label \in {Pair(h) \in favorites, NULL} :
           task' = [task EXCEPT ![h].at = "reply", ![h].label = label]
    /\ UNCHANGED <<tables, cache, crashes, excused, unsaved, contested>>

-----------------------------------------------------------------------------
\* The handler returns.
Reply(h) ==
    /\ task[h].at = "reply"
    /\ task' = [task EXCEPT ![h] = Idle]
    /\ contested' = contested \ {h}
    /\ UNCHANGED <<tables, cache, crashes, excused, unsaved>>

\* A process dies and starts again, with its goroutines and its cache gone.
Crash(b) ==
    /\ crashes < MaxCrashes
    /\ crashes' = crashes + 1
    /\ cache' = [cache EXCEPT ![b] = [u \in Users |-> NULL]]
    /\ task' = [h \in Handlers |->
           IF task[h].bot = b THEN Idle ELSE task[h]]
    /\ excused' = {x \in excused : x[1] # b}
    /\ contested' = {h \in contested : task[h].bot # b}
    /\ UNCHANGED <<tables, unsaved>>

Proceed(h) ==
    \/ LoadUser(h) \/ TouchUser(h) \/ TouchFails(h) \/ StoreUser(h)
    \/ SetLanguage(h) \/ SetLanguageFails(h) \/ SetUserLang(h)
    \/ IsFavorite(h) \/ ToggleFavorite(h) \/ ToggleFails(h)
    \/ Toast(h) \/ ListFavorites(h) \/ Reply(h)

Next ==
    \/ \E h \in Handlers : Dispatch(h) \/ Proceed(h)
    \/ \E b \in Bots : Crash(b)

Spec == Init /\ [][Next]_vars

-----------------------------------------------------------------------------
(* What it promises.                                                       *)

TypeOK ==
    /\ users \in [Users -> Row \cup {NULL}]
    /\ favorites \subseteq Users \X Animes
    /\ cache \in [Bots -> [Users -> Langs \cup {NULL}]]
    /\ task \in [Handlers -> Task]
    /\ crashes \in 0..MaxCrashes
    /\ excused \subseteq Bots \X Users
    /\ unsaved \subseteq Users
    /\ contested \subseteq Handlers

\* A process speaks the language the user chose last, unless its cache missed
\* the change: it was made through another process, its answer was lost, it
\* found no row, or another goroutine of the process was about to write what it
\* had read (bot.go:103, bot.go:111).  Nothing else makes the cache stale, and
\* the next change made through the process puts it right.
LanguageStaleOnlyIfMissed ==
    \A b \in Bots, u \in Users :
        cache[b][u] # NULL =>
            /\ users[u] # NULL
            /\ \/ cache[b][u] = users[u].lang
               \/ <<b, u>> \in excused
               \/ InFlight(b, u, {"cachelang"}) # {}

\* What one expects of a bot that "is stateless and horizontally scalable"
\* (docs/ARCHITECTURE.md:73-75) and "updates the cached language immediately"
\* (bot.go:107-108): with no update under way, a language that a process
\* remembers is the stored one.
CachedIsStored ==
    (\A h \in Handlers : task[h].at = "idle") =>
        \A b \in Bots, u \in Users :
            cache[b][u] # NULL => users[u] # NULL /\ cache[b][u] = users[u].lang

\* Touching a user again, after any restart and by any process, leaves the
\* stored language alone although the bot always sends the default: only the
\* request that asks for a language changes it (user_repo.go:23).
OnlyChoicesChangeLanguage ==
    [][\A u \in Users :
           users[u] # NULL /\ users'[u].lang # users[u].lang =>
               \E h \in Handlers :
                   /\ task[h].at = "setlang" /\ task'[h].at # "setlang"
                   /\ task[h].user = u /\ task[h].lang = users'[u].lang]_vars

\* The cache is what keeps the second ensureUser, which knows no name, from
\* erasing the stored one, and what makes a confirmed language reach a row:
\* either is lost only if the first touch of an update failed (bot.go:103,
\* callbacks.go:37, callbacks.go:163).
LossOnlyIfTouchFailed ==
    /\ \A u \in Users :
           users[u] # NULL /\ ~users[u].named => u \in unsaved
    /\ \A h \in Handlers :
           task[h].at = "cachelang" /\ users[task[h].user] = NULL =>
               task[h].user \in unsaved

\* A tap flips the favourite, unless another tap of the same user on the same
\* anime was written since it was read (user.go:43).
ToggleFlips ==
    [][\A h \in Handlers \ contested :
           task[h].at = "write" /\ task'[h].at = "toast" =>
               (Pair(h) \in favorites) # (Pair(h) \in favorites')]_vars

\* The screen after a toggle says what its toast said, although it reads the
\* favourites anew, unless another tap was written in between (anime.go:27).
LabelIsToast ==
    \A h \in Handlers \ contested :
        task[h].toast # NULL /\ task[h].label # NULL =>
            task[h].toast = task[h].label

=============================================================================
