-------------------------- MODULE BotSessionProofs --------------------------
(***************************************************************************)
(* Proofs about BotSession, for any number of processes, goroutines, users *)
(* and animes, and any number of crashes.                                  *)
(*                                                                         *)
(* Sound says what the locals of one goroutine have to do with the tables  *)
(* and the cache it read them from.  Section 1 is about the tables, section*)
(* 2 about the goroutines that do not move, section 3 about the one that   *)
(* does.                                                                   *)
(***************************************************************************)
EXTENDS BotSession, TLAPS

\* The language l that a goroutine of b is about to cache for u is the stored
\* one, or (b, u) is excused.
Fresh(b, u, l) == (users[u] # NULL /\ l = users[u].lang) \/ <<b, u>> \in excused

\* Which update is handled, and for whom.
Addressed(t) ==
    /\ t.bot \in Bots /\ t.user \in Users
    /\ t.kind \in {"fav", "detail"} => t.anime \in Animes
    /\ t.at \in {"isfav", "write"} => t.kind = "fav"
    /\ t.at \in {"toast", "favs"} => t.kind \in {"fav", "detail"}
    /\ ~t.full => t.kind \in {"fav", "detail"}
    /\ t.label # NULL => t.at = "reply"
    /\ t.toast # NULL => t.at \in {"toast", "reply"} \/ t.kind = "detail"

\* What its locals say of the row and the cache of its user.
Informed(t) ==
    /\ t.at = "store" => users[t.user] # NULL /\ Fresh(t.bot, t.user, t.got)
    /\ t.at = "cachelang" => Fresh(t.bot, t.user, t.lang)
    /\ t.at \in {"setlang", "cachelang"} => users[t.user] # NULL \/ t.user \in unsaved
    /\ ~t.full => cache[t.bot][t.user] # NULL \/ t.user \in unsaved
    /\ t.at = "touch" /\ ~t.full => t.user \in unsaved

\* What they say of the favourite, if no other goroutine wrote it since.
Steady(t) ==
    /\ t.at = "write" => (t.was <=> <<t.user, t.anime>> \in favorites)
    /\ t.toast # NULL => (t.toast <=> <<t.user, t.anime>> \in favorites)
    /\ t.toast # NULL /\ t.label # NULL => (t.toast <=> t.label)

Sound(h) ==
    /\ task[h].at # "idle" => Addressed(task[h]) /\ Informed(task[h])
    /\ task[h].at = "idle" => task[h].toast = NULL
    /\ h \notin contested => Steady(task[h])

NamesKept == \A u \in Users : users[u] # NULL /\ ~users[u].named => u \in unsaved

IInv ==
    /\ TypeOK
    /\ \A h \in Handlers : Sound(h)
    /\ NamesKept
    /\ LanguageStaleOnlyIfMissed

-----------------------------------------------------------------------------
(* 1. The tables.                                                          *)

\* A row is not the mark of a row that is not there.
LEMMA RowIsNotNull == \A row \in Row : row # NULL /\ row.lang \in Langs /\ row.named \in BOOLEAN
  BY NoRowIsNull DEF Row

LEMMA UpsertFacts ==
  ASSUME TypeOK, NEW u \in Users, NEW n \in BOOLEAN
  PROVE  /\ Upsert(u, n) \in [Users -> Row \cup {NULL}]
         /\ Upsert(u, n)[u] # NULL
         /\ Upsert(u, n)[u].named = n
         /\ users[u] # NULL => Upsert(u, n)[u].lang = users[u].lang
         /\ \A v \in Users \ {u} : Upsert(u, n)[v] = users[v]
  <1> DEFINE l == IF users[u] = NULL THEN Default ELSE users[u].lang
  <1>1. l \in Langs
    BY RowIsNotNull, DefaultIsALanguage DEF TypeOK
  <1>2. Upsert(u, n) = [users EXCEPT ![u] = [lang |-> l, named |-> n]]
    BY DEF Upsert
  <1>3. [lang |-> l, named |-> n] \in Row
    BY <1>1 DEF Row
  <1>4. [lang |-> l, named |-> n] # NULL
    BY <1>3, RowIsNotNull
  <1> HIDE DEF l
  <1>5. Upsert(u, n)[u] = [lang |-> l, named |-> n]
    BY <1>2 DEF TypeOK
  <1>6. Upsert(u, n) \in [Users -> Row \cup {NULL}]
    BY <1>2, <1>3 DEF TypeOK
  <1>7. \A v \in Users \ {u} : Upsert(u, n)[v] = users[v]
    BY <1>2 DEF TypeOK
  <1>8. QED
    BY <1>4, <1>5, <1>6, <1>7 DEF l

LEMMA LanguageSetFacts ==
  ASSUME TypeOK, NEW u \in Users, NEW l \in Langs
  PROVE  /\ LanguageSet(u, l) \in [Users -> Row \cup {NULL}]
         /\ users[u] = NULL <=> LanguageSet(u, l)[u] = NULL
         /\ users[u] # NULL => /\ LanguageSet(u, l)[u].lang = l
                               /\ LanguageSet(u, l)[u].named = users[u].named
         /\ \A v \in Users \ {u} : LanguageSet(u, l)[v] = users[v]
  <1>1. CASE users[u] = NULL
    BY <1>1 DEF LanguageSet, TypeOK
  <1>2. CASE users[u] # NULL
    <2> DEFINE row == [users[u] EXCEPT !.lang = l]
    <2>1. users[u] \in Row
      BY <1>2 DEF TypeOK
    <2>2. row \in Row /\ row.lang = l /\ row.named = users[u].named
      BY <2>1 DEF Row
    <2>3. row # NULL
      BY <2>2, RowIsNotNull
    <2>4. LanguageSet(u, l) = [users EXCEPT ![u] = row]
      BY <1>2 DEF LanguageSet
    <2> HIDE DEF row
    <2>5. QED
      BY <1>2, <2>2, <2>3, <2>4 DEF TypeOK
  <1>3. QED
    BY <1>1, <1>2

-----------------------------------------------------------------------------
(* 2. The goroutines that do not move.                                     *)

\* A step of h keeps what the others know: rows and cached languages do not
\* vanish, a language changes under them only with an excuse, and a favourite
\* only if they are contested.
OthersInformed(h) ==
    \A g \in Handlers \ {h} :
        task[g].at # "idle" =>
            LET b == task[g].bot
                u == task[g].user
            IN /\ users[u] # NULL => users'[u] # NULL
               /\ cache[b][u] # NULL => cache'[b][u] # NULL
               /\ u \in unsaved => u \in unsaved'
               /\ task[g].at \in {"store", "cachelang"} /\ <<b, u>> \in excused =>
                      <<b, u>> \in excused'
               /\ task[g].at \in {"store", "cachelang"} /\ users[u] # NULL =>
                      users'[u].lang = users[u].lang \/ <<b, u>> \in excused'

OthersSteady(h) ==
    \A g \in Handlers \ {h} :
        /\ g \in contested => g \in contested'
        /\ task[g].at = "write" \/ task[g].toast # NULL =>
               g \in contested' \/ (Pair(g) \in favorites' <=> Pair(g) \in favorites)

LEMMA OthersSound ==
  ASSUME \A g \in Handlers : Sound(g), NEW h \in Handlers,
         \A g \in Handlers \ {h} : task'[g] = task[g],
         OthersInformed(h), OthersSteady(h)
  PROVE  \A g \in Handlers \ {h} : Sound(g)'
  <1> SUFFICES ASSUME NEW g \in Handlers \ {h} PROVE Sound(g)'
    OBVIOUS
  <1>1. task'[g] = task[g] /\ Sound(g)
    OBVIOUS
  <1>2. ASSUME task[g].at # "idle"
        PROVE  Addressed(task[g])' /\ Informed(task[g])'
    <2>1. Addressed(task[g])'
      BY <1>1, <1>2 DEF Sound, Addressed
    <2>2. Informed(task[g]) /\ Addressed(task[g])
      BY <1>1, <1>2 DEF Sound
    <2>3. QED
      BY <1>1, <1>2, <2>2 DEF Informed, Fresh, OthersInformed
  <1>3. ASSUME g \notin contested'
        PROVE  Steady(task[g])'
    <2>1. g \notin contested /\ Steady(task[g])
      BY <1>1, <1>3 DEF Sound, OthersSteady
    <2>2. task[g].at = "write" \/ task[g].toast # NULL =>
              (<<task[g].user, task[g].anime>> \in favorites'
                   <=> <<task[g].user, task[g].anime>> \in favorites)
      BY <1>3 DEF OthersSteady, Pair
    <2>3. QED
      BY <1>1, <2>1, <2>2 DEF Steady
  <1>4. QED
    BY <1>1, <1>2, <1>3 DEF Sound

-----------------------------------------------------------------------------
(* 3. The goroutine that moves.                                            *)

LEMMA IdleType == Idle \in Task /\ Idle.at = "idle" /\ Idle.toast = NULL
  BY DefaultIsALanguage DEF Idle, Task

\* What ensureUser leaves of a goroutine: where it is, and whether it has the
\* name.
LEMMA AfterFacts ==
  ASSUME NEW t \in Task, t.at \in {"load", "touch", "store"},
         Addressed(t), NEW known \in BOOLEAN
  PROVE  LET s == After(t, known) IN
         /\ s \in Task /\ Addressed(s)
         /\ s.at \in {"setlang", "reply", "load", "isfav", "favs"}
         /\ /\ s.bot = t.bot /\ s.user = t.user /\ s.anime = t.anime
            /\ s.toast = t.toast /\ s.label = t.label
  <1> DEFINE s == After(t, known)
  <1>1. CASE t.full /\ t.kind = "lang"
    <2>1. s = [t EXCEPT !.at = "setlang"]
      BY <1>1 DEF After
    <2>2. QED
      BY <1>1, <2>1 DEF Task, Addressed
  <1>2. CASE t.full /\ t.kind = "text"
    <2>1. s = [t EXCEPT !.at = "reply"]
      BY <1>2 DEF After
    <2>2. QED
      BY <1>2, <2>1 DEF Task, Addressed
  <1>3. CASE t.full /\ t.kind \in {"fav", "detail"}
    <2>1. s = [t EXCEPT !.at = "load", !.full = FALSE]
      BY <1>3 DEF After
    <2>2. QED
      BY <1>3, <2>1 DEF Task, Addressed
  <1>4. CASE ~t.full /\ ~known
    <2>1. s = [t EXCEPT !.at = "reply"]
      BY <1>4 DEF After
    <2>2. QED
      BY <1>4, <2>1 DEF Task, Addressed
  <1>5. CASE ~t.full /\ known /\ t.kind = "fav"
    <2>1. s = [t EXCEPT !.at = "isfav"]
      BY <1>5 DEF After
    <2>2. QED
      BY <1>5, <2>1 DEF Task, Addressed
  <1>6. CASE ~t.full /\ known /\ t.kind # "fav"
    <2>1. s = [t EXCEPT !.at = "favs"]
      BY <1>6 DEF After
    <2>2. QED
      BY <1>6, <2>1 DEF Task, Addressed
  <1>7. t.kind \in {"text", "lang", "fav", "detail"} /\ t.full \in BOOLEAN
    BY DEF Task
  <1>8. QED
    BY <1>1, <1>2, <1>3, <1>4, <1>5, <1>6, <1>7

\* The language that is cached stays right as long as tables and cache are left
\* alone and no change of language is on its way to the cache.
LEMMA LanguageKept ==
  ASSUME LanguageStaleOnlyIfMissed, NEW h \in Handlers,
         UNCHANGED <<users, cache, excused>>, task[h].at # "cachelang",
         \A g \in Handlers \ {h} : task'[g] = task[g]
  PROVE  LanguageStaleOnlyIfMissed'
  <1> SUFFICES ASSUME NEW b \in Bots, NEW u \in Users, cache'[b][u] # NULL,
                      cache'[b][u] # users'[u].lang, <<b, u>> \notin excused'
               PROVE  users'[u] # NULL /\ InFlight(b, u, {"cachelang"})' # {}
    BY DEF LanguageStaleOnlyIfMissed
  <1>1. users[u] # NULL /\ InFlight(b, u, {"cachelang"}) # {}
    BY DEF LanguageStaleOnlyIfMissed
  <1>2. PICK g \in Handlers : task[g].at = "cachelang" /\ task[g].bot = b /\ task[g].user = u
    BY <1>1 DEF InFlight
  <1>3. task'[g] = task[g]
    BY <1>2
  <1>4. QED
    BY <1>1, <1>2, <1>3 DEF InFlight

\* A step of h that leaves rows and caches alone.
LEMMA QuietStep ==
  ASSUME IInv, NEW h \in Handlers, NEW t \in Task, task' = [task EXCEPT ![h] = t],
         UNCHANGED <<users, cache, crashes, excused, unsaved>>,
         favorites' \subseteq Users \X Animes, contested' \subseteq Handlers,
         task[h].at # "cachelang", OthersSteady(h),
         t.at = "idle" => t.toast = NULL,
         t.at # "idle" => Addressed(t)' /\ Informed(t)',
         h \notin contested' => Steady(t)'
  PROVE  IInv'
  <1>1. task' \in [Handlers -> Task] /\ task'[h] = t
    BY DEF IInv, TypeOK
  <1>2. \A g \in Handlers \ {h} : task'[g] = task[g]
    BY DEF IInv, TypeOK
  <1>3. TypeOK'
    BY <1>1 DEF IInv, TypeOK
  <1>4. OthersInformed(h)
    BY DEF OthersInformed
  <1>5. \A g \in Handlers \ {h} : Sound(g)'
    BY <1>2, <1>4, OthersSound DEF IInv
  <1>6. Sound(h)'
    BY <1>1 DEF Sound, Addressed, Informed, Fresh, Steady
  <1>7. NamesKept'
    BY DEF IInv, NamesKept
  <1>8. LanguageStaleOnlyIfMissed'
    BY <1>2, LanguageKept DEF IInv
  <1>9. QED
    BY <1>3, <1>5, <1>6, <1>7, <1>8 DEF IInv

LEMMA TaskFacts ==
  ASSUME IInv, NEW h \in Handlers
  PROVE  /\ task[h] \in Task /\ Sound(h)
         /\ task[h].at # "idle" => Addressed(task[h]) /\ Informed(task[h])
         /\ h \notin contested => Steady(task[h])
  BY DEF IInv, TypeOK, Sound

LEMMA DispatchInv == ASSUME IInv, NEW h \in Handlers, Dispatch(h) PROVE IInv'
  <1>1. PICK b \in Bots, u \in Users, q \in Requests : task' = [task EXCEPT ![h] = Start(b, u, q)]
    BY DEF Dispatch
  <1> DEFINE t == Start(b, u, q)
  <1>2. q.kind \in {"text", "lang", "fav", "detail"} /\ q.lang \in Langs
        /\ q.anime \in Animes \cup {NULL} /\ (q.kind \in {"fav", "detail"} => q.anime \in Animes)
    BY DefaultIsALanguage DEF Requests
  <1>3. t \in Task
    BY <1>2, DefaultIsALanguage DEF Start, Task
  <1>4. t.at = "load" /\ t.full = TRUE /\ t.toast = NULL /\ Addressed(t)
    BY <1>2 DEF Start, Addressed
  <1> HIDE DEF t
  <1>5. Informed(t)' /\ Steady(t)'
    BY <1>4 DEF Informed, Steady
  <1>6. OthersSteady(h) /\ task[h].at = "idle"
    BY DEF Dispatch, OthersSteady, tables
  <1>7. Addressed(t)' /\ task' = [task EXCEPT ![h] = t]
    BY <1>1, <1>4 DEF Addressed, t
  <1>8. QED
    BY <1>3, <1>4, <1>5, <1>6, <1>7, QuietStep DEF Dispatch, IInv, TypeOK, tables

LEMMA LoadUserInv == ASSUME IInv, NEW h \in Handlers, LoadUser(h) PROVE IInv'
  <1> DEFINE b == task[h].bot
             u == task[h].user
  <1>1. task[h].at = "load" /\ UNCHANGED <<tables, cache, crashes, excused, unsaved, contested>>
    BY DEF LoadUser
  <1>2. /\ task[h] \in Task /\ Addressed(task[h]) /\ Informed(task[h])
        /\ h \notin contested => Steady(task[h])
    BY <1>1, TaskFacts
  <1>3. OthersSteady(h) /\ task[h].at # "cachelang"
    BY <1>1 DEF OthersSteady, tables
  <1>4. CASE cache[b][u] # NULL
    <2>1. PICK t : t = After(task[h], TRUE)
      OBVIOUS
    <2>2. task' = [task EXCEPT ![h] = t]
      BY <1>4, <2>1 DEF LoadUser
    <2>3. /\ t \in Task /\ Addressed(t)
          /\ t.at \in {"setlang", "reply", "load", "isfav", "favs"}
          /\ t.bot = b /\ t.user = u /\ t.anime = task[h].anime
          /\ t.toast = task[h].toast /\ t.label = task[h].label
      BY <1>1, <1>2, <2>1, AfterFacts
    <2>4. users[u] # NULL
      BY <1>2, <1>4 DEF Addressed, IInv, LanguageStaleOnlyIfMissed
    <2>5. Informed(t)'
      BY <1>1, <1>4, <2>3, <2>4 DEF Informed, tables
    <2>6. h \notin contested' => Steady(t)'
      BY <1>1, <1>2, <2>3 DEF Steady, tables
    <2>7. Addressed(t)'
      BY <2>3 DEF Addressed
    <2>8. QED
      BY <1>1, <1>3, <2>2, <2>3, <2>5, <2>6, <2>7, QuietStep DEF IInv, TypeOK, tables
  <1>5. CASE cache[b][u] = NULL
    <2>1. PICK t : t = [task[h] EXCEPT !.at = "touch"]
      OBVIOUS
    <2>2. task' = [task EXCEPT ![h] = t]
      BY <1>5, <2>1 DEF LoadUser
    <2>3. /\ t \in Task /\ t.at = "touch" /\ Addressed(t)
          /\ t.full = task[h].full /\ t.bot = b /\ t.user = u /\ t.anime = task[h].anime
          /\ t.toast = task[h].toast /\ t.label = task[h].label
      BY <1>1, <1>2, <2>1 DEF Task, Addressed
    <2>4. Informed(t)'
      BY <1>1, <1>2, <1>5, <2>3 DEF Informed, tables
    <2>5. h \notin contested' => Steady(t)'
      BY <1>1, <1>2, <2>3 DEF Steady, tables
    <2>6. Addressed(t)'
      BY <2>3 DEF Addressed
    <2>7. QED
      BY <1>1, <1>3, <2>2, <2>3, <2>4, <2>5, <2>6, QuietStep DEF IInv, TypeOK, tables
  <1>6. QED
    BY <1>4, <1>5

\* The read of a toggle.
LEMMA IsFavoriteInv == ASSUME IInv, NEW h \in Handlers, IsFavorite(h) PROVE IInv'
  <1>1. task[h].at = "isfav" /\ UNCHANGED <<tables, cache, crashes, excused, unsaved, contested>>
    BY DEF IsFavorite
  <1>2. /\ task[h] \in Task /\ Addressed(task[h]) /\ Informed(task[h])
        /\ h \notin contested => Steady(task[h])
    BY <1>1, TaskFacts
  <1>3. OthersSteady(h) /\ task[h].at # "cachelang"
    BY <1>1 DEF OthersSteady, tables
  <1> DEFINE was == Pair(h) \in favorites
  <1>4. was \in BOOLEAN
    OBVIOUS
  <1> HIDE DEF was
  <1>5. PICK t : t = [task[h] EXCEPT !.at = "write", !.was = was]
    OBVIOUS
  <1>6. task' = [task EXCEPT ![h] = t]
    <2>1. task' = [task EXCEPT ![h].at = "write", ![h].was = was]
      BY Zenon DEF IsFavorite, was
    <2>2. QED
      BY <1>5, <2>1 DEF IInv, TypeOK
  <1>7. /\ t \in Task /\ t.at = "write" /\ Addressed(t)
        /\ t.full = task[h].full /\ t.bot = task[h].bot /\ t.user = task[h].user
        /\ t.anime = task[h].anime
        /\ t.toast = task[h].toast /\ t.label = task[h].label
    BY <1>1, <1>2, <1>4, <1>5 DEF Task, Addressed
  <1>8. t.was <=> Pair(h) \in favorites
    <2>1. t.was = was
      BY <1>2, <1>5 DEF Task
    <2>2. QED
      BY <2>1 DEF was
  <1>9. Informed(t)'
    BY <1>1, <1>2, <1>7 DEF Informed, tables
  <1>10. h \notin contested' => Steady(t)'
    BY <1>1, <1>2, <1>7, <1>8 DEF Steady, tables, Pair
  <1>11. Addressed(t)'
    BY <1>7 DEF Addressed
  <1>12. QED
    BY <1>1, <1>3, <1>6, <1>7, <1>9, <1>10, <1>11, QuietStep DEF IInv, TypeOK, tables

\* The write of a toggle contests every other goroutine that read the favourite
\* or answered for it.
LEMMA ToggledFacts ==
  ASSUME IInv, NEW h \in Handlers, task[h].at = "write", favorites' = Toggled(h),
         contested' = contested \cup Overtaken(h)
  PROVE  /\ favorites' \subseteq Users \X Animes /\ contested' \subseteq Handlers
         /\ OthersSteady(h)
         /\ h \notin contested' => h \notin contested
         /\ Pair(h) \in favorites' <=> ~task[h].was
  <1>1. Pair(h) \in Users \X Animes
    BY TaskFacts DEF Addressed, Pair
  <1>2. \A x : x # Pair(h) => (x \in favorites' <=> x \in favorites)
    BY DEF Toggled
  <1>3. OthersSteady(h)
    BY <1>2 DEF OthersSteady, Overtaken
  <1>4. Pair(h) \in favorites' <=> ~task[h].was
    BY DEF Toggled
  <1>5. favorites' \subseteq Users \X Animes /\ contested' \subseteq Handlers
    BY <1>1 DEF Toggled, Overtaken, IInv, TypeOK
  <1>6. QED
    BY <1>3, <1>4, <1>5

LEMMA ToggleFavoriteInv == ASSUME IInv, NEW h \in Handlers, ToggleFavorite(h) PROVE IInv'
  <1>1. /\ task[h].at = "write" /\ UNCHANGED <<users, cache, crashes, excused, unsaved>>
        /\ favorites' = Toggled(h) /\ contested' = contested \cup Overtaken(h)
    BY DEF ToggleFavorite
  <1>2. /\ task[h] \in Task /\ Addressed(task[h]) /\ Informed(task[h])
        /\ h \notin contested => Steady(task[h])
    BY <1>1, TaskFacts
  <1>3. /\ favorites' \subseteq Users \X Animes /\ contested' \subseteq Handlers
        /\ OthersSteady(h)
        /\ h \notin contested' => h \notin contested
        /\ Pair(h) \in favorites' <=> ~task[h].was
    BY <1>1, ToggledFacts
  <1> DEFINE said == ~task[h].was
  <1>4. said \in BOOLEAN
    OBVIOUS
  <1> HIDE DEF said
  <1>5. PICK t : t = [task[h] EXCEPT !.at = "toast", !.was = FALSE, !.toast = said]
    OBVIOUS
  <1>6. task' = [task EXCEPT ![h] = t]
    <2>1. task' = [task EXCEPT ![h].at = "toast", ![h].was = FALSE, ![h].toast = said]
      BY Zenon DEF ToggleFavorite, said
    <2>2. QED
      BY <1>5, <2>1 DEF IInv, TypeOK
  <1>7. /\ t \in Task /\ t.at = "toast" /\ Addressed(t)
        /\ t.full = task[h].full /\ t.bot = task[h].bot /\ t.user = task[h].user
        /\ t.anime = task[h].anime /\ t.toast = said /\ t.label = task[h].label
    BY <1>1, <1>2, <1>4, <1>5 DEF Task, Addressed
  <1>8. t.toast <=> <<t.user, t.anime>> \in favorites'
    <2>1. said <=> Pair(h) \in favorites'
      BY <1>3 DEF said
    <2>2. QED
      BY <1>7, <2>1 DEF Pair
  <1>9. t.label = NULL
    BY <1>1, <1>2, <1>7 DEF Addressed
  <1>10. Informed(t)'
    BY <1>1, <1>2, <1>7 DEF Informed
  <1>11. Steady(t)'
    BY <1>7, <1>8, <1>9 DEF Steady
  <1>12. Addressed(t)'
    BY <1>7 DEF Addressed
  <1>13. QED
    BY <1>1, <1>3, <1>6, <1>7, <1>10, <1>11, <1>12, QuietStep

\* The call of a toggle fails before or after its write: the screen that would
\* follow is left out.
LEMMA ToggleFailsInv == ASSUME IInv, NEW h \in Handlers, ToggleFails(h) PROVE IInv'
  <1>1. /\ task[h].at \in {"isfav", "write"}
        /\ UNCHANGED <<users, cache, crashes, excused, unsaved>>
    BY DEF ToggleFails
  <1>2. /\ task[h] \in Task /\ Addressed(task[h]) /\ Informed(task[h])
        /\ h \notin contested => Steady(task[h])
    BY <1>1, TaskFacts
  <1>3. PICK t : t = [task[h] EXCEPT !.at = "reply"]
    OBVIOUS
  <1>4. task' = [task EXCEPT ![h] = t]
    BY <1>3 DEF ToggleFails
  <1>5. /\ t \in Task /\ t.at = "reply" /\ Addressed(t)
        /\ t.full = task[h].full /\ t.bot = task[h].bot /\ t.user = task[h].user
        /\ t.anime = task[h].anime /\ t.toast = task[h].toast /\ t.label = NULL
    BY <1>1, <1>2, <1>3 DEF Task, Addressed
  <1>6. Informed(t)' /\ Addressed(t)'
    BY <1>1, <1>2, <1>5 DEF Informed, Addressed
  <1>7. CASE UNCHANGED <<favorites, contested>>
    <2>1. OthersSteady(h)
      BY <1>7 DEF OthersSteady
    <2>2. h \notin contested' => Steady(t)'
      BY <1>2, <1>5, <1>7 DEF Steady
    <2>3. QED
      BY <1>1, <1>4, <1>5, <1>6, <1>7, <2>1, <2>2, QuietStep DEF IInv, TypeOK
  <1>8. CASE /\ task[h].at = "write" /\ favorites' = Toggled(h)
             /\ contested' = contested \cup Overtaken(h)
    <2>1. /\ favorites' \subseteq Users \X Animes /\ contested' \subseteq Handlers
          /\ OthersSteady(h) /\ (h \notin contested' => h \notin contested)
      BY <1>8, ToggledFacts
    <2>2. t.toast = NULL
      BY <1>2, <1>5, <1>8 DEF Addressed
    <2>3. Steady(t)'
      BY <1>5, <2>2 DEF Steady
    <2>4. QED
      BY <1>1, <1>4, <1>5, <1>6, <2>1, <2>3, QuietStep
  <1>9. QED
    BY <1>7, <1>8 DEF ToggleFails

LEMMA ToastInv == ASSUME IInv, NEW h \in Handlers, Toast(h) PROVE IInv'
  <1>1. task[h].at = "toast" /\ UNCHANGED <<tables, cache, crashes, excused, unsaved, contested>>
    BY DEF Toast
  <1>2. /\ task[h] \in Task /\ Addressed(task[h]) /\ Informed(task[h])
        /\ h \notin contested => Steady(task[h])
    BY <1>1, TaskFacts
  <1>3. PICK t : /\ t = [task[h] EXCEPT !.at = "reply"]
                    \/ t = [task[h] EXCEPT !.at = "load", !.kind = "detail"]
                 /\ task' = [task EXCEPT ![h] = t]
    <2>1. CASE task' = [task EXCEPT ![h].at = "reply"]
      BY <2>1
    <2>2. CASE task' = [task EXCEPT ![h].at = "load", ![h].kind = "detail"]
      BY <2>2 DEF IInv, TypeOK
    <2>3. QED
      BY <2>1, <2>2 DEF Toast
  <1>4. /\ t \in Task /\ t.at \in {"reply", "load"} /\ Addressed(t)
        /\ t.full = task[h].full /\ t.bot = task[h].bot /\ t.user = task[h].user
        /\ t.anime = task[h].anime
        /\ t.toast = task[h].toast /\ t.label = task[h].label
    BY <1>1, <1>2, <1>3, ZenonT(30) DEF Task, Addressed
  <1>5. Informed(t)' /\ Addressed(t)'
    BY <1>1, <1>2, <1>4 DEF Informed, Addressed, tables
  <1>6. h \notin contested' => Steady(t)'
    BY <1>1, <1>2, <1>4 DEF Steady, tables
  <1>7. OthersSteady(h)
    BY <1>1 DEF OthersSteady, tables
  <1>8. QED
    BY <1>1, <1>3, <1>4, <1>5, <1>6, <1>7, QuietStep DEF IInv, TypeOK, tables

LEMMA ListFavoritesInv == ASSUME IInv, NEW h \in Handlers, ListFavorites(h) PROVE IInv'
  <1>1. task[h].at = "favs" /\ UNCHANGED <<tables, cache, crashes, excused, unsaved, contested>>
    BY DEF ListFavorites
  <1>2. /\ task[h] \in Task /\ Addressed(task[h]) /\ Informed(task[h])
        /\ h \notin contested => Steady(task[h])
    BY <1>1, TaskFacts
  <1> DEFINE member == Pair(h) \in favorites
  <1>3. member \in BOOLEAN
    OBVIOUS
  <1> HIDE DEF member
  <1>4. PICK label \in {member, NULL} :
            task' = [task EXCEPT ![h].at = "reply", ![h].label = label]
    BY Zenon DEF ListFavorites, member
  <1>5. PICK t : t = [task[h] EXCEPT !.at = "reply", !.label = label]
    OBVIOUS
  <1>6. task' = [task EXCEPT ![h] = t]
    BY <1>4, <1>5 DEF IInv, TypeOK
  <1>7. /\ t \in Task /\ t.at = "reply" /\ Addressed(t)
        /\ t.full = task[h].full /\ t.bot = task[h].bot /\ t.user = task[h].user
        /\ t.anime = task[h].anime
        /\ t.toast = task[h].toast /\ t.label = label
    BY <1>1, <1>2, <1>3, <1>4, <1>5 DEF Task, Addressed
  <1>8. Informed(t)' /\ Addressed(t)'
    BY <1>1, <1>2, <1>7 DEF Informed, Addressed, tables
  <1>9. h \notin contested' => Steady(t)'
    <2>1. t.label # NULL => (t.label <=> <<t.user, t.anime>> \in favorites)
      BY <1>4, <1>7 DEF member, Pair
    <2>2. QED
      BY <1>1, <1>2, <1>7, <2>1 DEF Steady, tables
  <1>10. OthersSteady(h)
    BY <1>1 DEF OthersSteady, tables
  <1>11. QED
    BY <1>1, <1>6, <1>7, <1>8, <1>9, <1>10, QuietStep DEF IInv, TypeOK, tables

LEMMA ReplyInv == ASSUME IInv, NEW h \in Handlers, Reply(h) PROVE IInv'
  <1>1. /\ task[h].at = "reply" /\ task' = [task EXCEPT ![h] = Idle]
        /\ contested' = contested \ {h}
        /\ UNCHANGED <<tables, cache, crashes, excused, unsaved>>
    BY DEF Reply
  <1>2. OthersSteady(h)
    BY <1>1 DEF OthersSteady, tables
  <1>3. PICK t \in Task : t = Idle /\ t.at = "idle" /\ t.toast = NULL
    BY IdleType
  <1>4. Steady(t)'
    BY <1>3 DEF Steady
  <1>5. QED
    BY <1>1, <1>2, <1>3, <1>4, QuietStep DEF IInv, TypeOK, tables


\* A step of h that changes rows, caches or histories.
LEMMA LoudStep ==
  ASSUME IInv, NEW h \in Handlers, NEW t \in Task, task' = [task EXCEPT ![h] = t],
         UNCHANGED <<favorites, crashes, contested>>,
         users' \in [Users -> Row \cup {NULL}],
         cache' \in [Bots -> [Users -> Langs \cup {NULL}]],
         excused' \subseteq Bots \X Users, unsaved' \subseteq Users,
         OthersInformed(h), t.at # "idle", Addressed(t), Informed(t)',
         task[h].at # "idle", t.at # "write",
         t.toast = task[h].toast, t.user = task[h].user, t.anime = task[h].anime,
         t.label = task[h].label,
         NamesKept', LanguageStaleOnlyIfMissed'
  PROVE  IInv'
  <1>1. task' \in [Handlers -> Task] /\ task'[h] = t
    BY DEF IInv, TypeOK
  <1>2. \A g \in Handlers \ {h} : task'[g] = task[g]
    BY DEF IInv, TypeOK
  <1>3. TypeOK'
    BY <1>1 DEF IInv, TypeOK
  <1>4. OthersSteady(h)
    BY DEF OthersSteady
  <1>5. \A g \in Handlers \ {h} : Sound(g)'
    BY <1>2, <1>4, OthersSound DEF IInv
  <1>6. h \notin contested => Steady(t)'
    BY TaskFacts DEF Steady
  <1>7. Sound(h)'
    BY <1>1, <1>6 DEF Sound, Addressed, Informed, Fresh, Steady
  <1>8. QED
    BY <1>3, <1>5, <1>7 DEF IInv

\* The goroutines about to write a language to a cache: h may have joined or
\* left them.
LEMMA InFlightKept ==
  ASSUME IInv, NEW h \in Handlers, NEW t \in Task, task' = [task EXCEPT ![h] = t],
         NEW b \in Bots, NEW u \in Users,
         \/ task[h].at # "cachelang" \/ task[h].bot # b \/ task[h].user # u,
         InFlight(b, u, {"cachelang"}) # {}
  PROVE  InFlight(b, u, {"cachelang"})' # {}
  <1>1. PICK g \in Handlers : task[g].at = "cachelang" /\ task[g].bot = b /\ task[g].user = u
    BY DEF InFlight
  <1>2. task'[g] = task[g]
    BY <1>1 DEF IInv, TypeOK
  <1>3. QED
    BY <1>1, <1>2 DEF InFlight

\* Creating or renaming a row takes no row and no language away.
LEMMA UpsertInv ==
  ASSUME IInv, NEW h \in Handlers, NEW t \in Task, task' = [task EXCEPT ![h] = t],
         task[h].at = "touch",
         users' \in {users, Upsert(task[h].user, task[h].full)},
         UNCHANGED <<cache, excused>>,
         unsaved \subseteq unsaved'
  PROVE  /\ users' \in [Users -> Row \cup {NULL}]
         /\ \A v \in Users : users[v] # NULL =>
                users'[v] # NULL /\ users'[v].lang = users[v].lang
         /\ OthersInformed(h) /\ NamesKept' /\ LanguageStaleOnlyIfMissed'
  <1> DEFINE u == task[h].user
             n == task[h].full
  <1>1. u \in Users /\ n \in BOOLEAN /\ (~n => u \in unsaved) /\ TypeOK
    BY TaskFacts DEF Addressed, Informed, Task, IInv
  <1>2. users' = users \/ users' = Upsert(u, n)
    OBVIOUS
  <1> HIDE DEF u, n
  <1>3. /\ users' \in [Users -> Row \cup {NULL}]
        /\ \A v \in Users : users[v] # NULL =>
               users'[v] # NULL /\ users'[v].lang = users[v].lang
        /\ \A v \in Users \ {u} : users'[v] = users[v]
        /\ users'[u] = users[u] \/ users'[u].named = n
    BY <1>1, <1>2, UpsertFacts DEF TypeOK
  <1>4. OthersInformed(h)
    <2> SUFFICES ASSUME NEW g \in Handlers \ {h}, task[g].at # "idle"
                 PROVE  LET b == task[g].bot
                            v == task[g].user
                        IN /\ users[v] # NULL => users'[v] # NULL
                           /\ users[v] # NULL => users'[v].lang = users[v].lang
      BY DEF OthersInformed
    <2>1. task[g].user \in Users
      BY TaskFacts DEF Addressed
    <2>2. QED
      BY <1>3, <2>1
  <1>5. NamesKept'
    BY <1>1, <1>3 DEF NamesKept, IInv
  <1>6. LanguageStaleOnlyIfMissed'
    <2> SUFFICES ASSUME NEW b \in Bots, NEW v \in Users, cache[b][v] # NULL
                 PROVE  /\ users'[v] # NULL
                        /\ \/ cache[b][v] = users'[v].lang
                           \/ <<b, v>> \in excused
                           \/ InFlight(b, v, {"cachelang"})' # {}
      BY DEF LanguageStaleOnlyIfMissed
    <2>1. users[v] # NULL /\ (\/ cache[b][v] = users[v].lang
                              \/ <<b, v>> \in excused
                              \/ InFlight(b, v, {"cachelang"}) # {})
      BY DEF IInv, LanguageStaleOnlyIfMissed
    <2>2. QED
      BY <1>3, <2>1, InFlightKept
  <1>7. QED
    BY <1>3, <1>4, <1>5, <1>6

LEMMA TouchUserInv == ASSUME IInv, NEW h \in Handlers, TouchUser(h) PROVE IInv'
  <1> DEFINE u == task[h].user
  <1>1. /\ task[h].at = "touch" /\ users' = Upsert(u, task[h].full)
        /\ UNCHANGED <<favorites, cache, crashes, excused, unsaved, contested>>
    BY DEF TouchUser
  <1>2. task[h] \in Task /\ Addressed(task[h]) /\ Informed(task[h]) /\ u \in Users
    BY <1>1, TaskFacts DEF Addressed
  <1>3. users'[u] # NULL /\ users'[u] \in Row
    BY <1>1, <1>2, UpsertFacts DEF IInv, Task
  <1>4. PICK l \in Langs : l = users'[u].lang
    BY <1>3, RowIsNotNull
  <1>5. PICK t : t = [task[h] EXCEPT !.at = "store", !.got = l]
    OBVIOUS
  <1>6. task' = [task EXCEPT ![h] = t]
    <2>1. task' = [task EXCEPT ![h].at = "store", ![h].got = l]
      BY <1>4 DEF TouchUser
    <2>2. QED
      BY <1>5, <2>1 DEF IInv, TypeOK
  <1>7. /\ t \in Task /\ t.at = "store" /\ Addressed(t) /\ t.got = l
        /\ t.full = task[h].full /\ t.bot = task[h].bot /\ t.user = u
        /\ t.anime = task[h].anime
        /\ t.toast = task[h].toast /\ t.label = task[h].label
    BY <1>1, <1>2, <1>5 DEF Task, Addressed
  <1>8. /\ users' \in [Users -> Row \cup {NULL}]
        /\ OthersInformed(h) /\ NamesKept' /\ LanguageStaleOnlyIfMissed'
    BY <1>1, <1>6, <1>7, UpsertInv
  <1>9. Informed(t)'
    BY <1>1, <1>2, <1>3, <1>4, <1>7 DEF Informed, Fresh
  <1>10. QED
    BY <1>1, <1>6, <1>7, <1>8, <1>9, LoudStep DEF IInv, TypeOK

LEMMA TouchFailsInv == ASSUME IInv, NEW h \in Handlers, TouchFails(h) PROVE IInv'
  <1> DEFINE u == task[h].user
  <1>1. /\ task[h].at = "touch" /\ users' \in {users, Upsert(u, task[h].full)}
        /\ unsaved' = IF task[h].full THEN unsaved \cup {u} ELSE unsaved
        /\ UNCHANGED <<favorites, cache, crashes, excused, contested>>
    BY DEF TouchFails
  <1>2. task[h] \in Task /\ Addressed(task[h]) /\ Informed(task[h]) /\ u \in Users
    BY <1>1, TaskFacts DEF Addressed
  <1>3. PICK t : t = After(task[h], FALSE)
    OBVIOUS
  <1>4. task' = [task EXCEPT ![h] = t]
    BY <1>3 DEF TouchFails
  <1>5. /\ t \in Task /\ Addressed(t)
        /\ t.at \in {"setlang", "reply", "load", "isfav", "favs"}
        /\ t.bot = task[h].bot /\ t.user = u /\ t.anime = task[h].anime
        /\ t.toast = task[h].toast /\ t.label = task[h].label
    BY <1>1, <1>2, <1>3, AfterFacts
  <1>6. unsaved' \subseteq Users /\ unsaved \subseteq unsaved' /\ u \in unsaved'
    BY <1>1, <1>2 DEF IInv, TypeOK, Informed
  <1>7. /\ users' \in [Users -> Row \cup {NULL}]
        /\ OthersInformed(h) /\ NamesKept' /\ LanguageStaleOnlyIfMissed'
    BY <1>1, <1>4, <1>5, <1>6, UpsertInv
  <1>8. Informed(t)'
    BY <1>5, <1>6 DEF Informed
  <1>9. QED
    BY <1>1, <1>4, <1>5, <1>6, <1>7, <1>8, LoudStep DEF IInv, TypeOK

LEMMA StoreUserInv == ASSUME IInv, NEW h \in Handlers, StoreUser(h) PROVE IInv'
  <1> DEFINE u == task[h].user
             b == task[h].bot
             got == task[h].got
  <1>1. /\ task[h].at = "store" /\ cache' = [cache EXCEPT ![b][u] = got]
        /\ UNCHANGED <<tables, crashes, excused, unsaved, contested>>
    BY DEF StoreUser
  <1>2. /\ task[h] \in Task /\ Addressed(task[h]) /\ Informed(task[h])
        /\ u \in Users /\ b \in Bots /\ got \in Langs
    BY <1>1, TaskFacts DEF Addressed, Task
  <1>3. PICK s : s = [task[h] EXCEPT !.got = Default]
    OBVIOUS
  <1>4. /\ s \in Task /\ Addressed(s) /\ s.at = "store"
        /\ s.bot = b /\ s.user = u /\ s.anime = task[h].anime
        /\ s.toast = task[h].toast /\ s.label = task[h].label
    BY <1>1, <1>2, <1>3, DefaultIsALanguage DEF Task, Addressed
  <1>5. PICK t : t = After(s, TRUE)
    OBVIOUS
  <1>6. task' = [task EXCEPT ![h] = t]
    BY <1>3, <1>5 DEF StoreUser
  <1>7. /\ t \in Task /\ Addressed(t)
        /\ t.at \in {"setlang", "reply", "load", "isfav", "favs"}
        /\ t.bot = b /\ t.user = u /\ t.anime = task[h].anime
        /\ t.toast = task[h].toast /\ t.label = task[h].label
    BY <1>4, <1>5, AfterFacts
  <1>8. /\ users[u] # NULL
        /\ got = users[u].lang \/ <<b, u>> \in excused
    BY <1>1, <1>2 DEF Informed, Fresh
  <1>9. got # NULL
    BY <1>2, DefaultIsALanguage
  <1> HIDE DEF u, b, got
  <1>10. /\ cache' \in [Bots -> [Users -> Langs \cup {NULL}]]
         /\ cache'[b][u] = got
         /\ \A c \in Bots, v \in Users : c # b \/ v # u => cache'[c][v] = cache[c][v]
    BY <1>1, <1>2 DEF IInv, TypeOK
  <1>11. OthersInformed(h)
    <2> SUFFICES ASSUME NEW g \in Handlers \ {h}, task[g].at # "idle",
                        cache[task[g].bot][task[g].user] # NULL
                 PROVE  cache'[task[g].bot][task[g].user] # NULL
      BY <1>1 DEF OthersInformed, tables
    <2>1. task[g].bot \in Bots /\ task[g].user \in Users
      BY TaskFacts DEF Addressed
    <2>2. QED
      BY <1>9, <1>10, <2>1
  <1>12. LanguageStaleOnlyIfMissed'
    <2> SUFFICES ASSUME NEW c \in Bots, NEW v \in Users, cache'[c][v] # NULL
                 PROVE  /\ users[v] # NULL
                        /\ \/ cache'[c][v] = users[v].lang
                           \/ <<c, v>> \in excused
                           \/ InFlight(c, v, {"cachelang"})' # {}
      BY <1>1 DEF LanguageStaleOnlyIfMissed, tables
    <2>1. CASE c = b /\ v = u
      BY <1>8, <1>10, <2>1
    <2>2. CASE c # b \/ v # u
      <3>1. cache[c][v] # NULL /\ cache'[c][v] = cache[c][v]
        BY <1>10, <2>2
      <3>2. users[v] # NULL /\ (\/ cache[c][v] = users[v].lang
                                \/ <<c, v>> \in excused
                                \/ InFlight(c, v, {"cachelang"}) # {})
        BY <3>1 DEF IInv, LanguageStaleOnlyIfMissed
      <3>3. QED
        BY <1>1, <1>6, <1>7, <3>1, <3>2, InFlightKept
    <2>3. QED
      BY <2>1, <2>2
  <1>13. Informed(t)'
    BY <1>1, <1>7, <1>8, <1>9, <1>10 DEF Informed, tables
  <1>14. NamesKept'
    BY <1>1 DEF IInv, NamesKept, tables
  <1>15. QED
    BY <1>1, <1>6, <1>7, <1>10, <1>11, <1>12, <1>13, <1>14, LoudStep
       DEF IInv, TypeOK, tables, u

\* A change of language excuses every cache that will not hear of it, and every
\* goroutine that is about to store what it read before.
LEMMA LanguageSetInv ==
  ASSUME IInv, NEW h \in Handlers, NEW t \in Task, task' = [task EXCEPT ![h] = t],
         task[h].at = "setlang", NEW heard \in BOOLEAN,
         users' = LanguageSet(task[h].user, task[h].lang),
         excused' = (excused \ (IF heard THEN Heard(h) ELSE {})) \cup Missed(h, heard),
         UNCHANGED <<favorites, cache, crashes, unsaved, contested>>,
         t.at = IF heard THEN "cachelang" ELSE "reply", Addressed(t),
         t.bot = task[h].bot, t.user = task[h].user, t.lang = task[h].lang,
         t.full = task[h].full, t.anime = task[h].anime,
         t.toast = task[h].toast, t.label = task[h].label
  PROVE  IInv'
  <1> DEFINE u == task[h].user
             b == task[h].bot
             l == task[h].lang
  <1>1. /\ u \in Users /\ b \in Bots /\ l \in Langs /\ TypeOK
        /\ users[u] # NULL \/ u \in unsaved
        /\ ~task[h].full => cache[b][u] # NULL \/ u \in unsaved
    BY TaskFacts DEF Addressed, Informed, Task, IInv
  <1> HIDE DEF u, b, l
  <1>2. /\ users' \in [Users -> Row \cup {NULL}]
        /\ users[u] = NULL <=> users'[u] = NULL
        /\ users[u] # NULL => users'[u].lang = l /\ users'[u].named = users[u].named
        /\ \A v \in Users \ {u} : users'[v] = users[v]
    BY <1>1, LanguageSetFacts DEF u, l
  <1>3. Missed(h, heard) \subseteq Bots \X Users
    BY <1>1 DEF Missed, u
  <1>4. users[u] = NULL => <<b, u>> \in excused'
    BY <1>1 DEF Missed, u, b
  <1>5. \A c \in Bots : cache[c][u] # NULL /\ (c # b \/ ~heard) => <<c, u>> \in excused'
    BY DEF Missed, u, b
  <1>6. \A g \in Handlers \ {h} :
            task[g].at \in {"store", "cachelang"} /\ task[g].user = u
                /\ task[g].bot \in Bots =>
                <<task[g].bot, u>> \in excused'
    BY DEF Missed, InFlight, u
  <1>7. OthersInformed(h)
    <2> SUFFICES ASSUME NEW g \in Handlers \ {h}, task[g].at # "idle"
                 PROVE  LET v == task[g].user IN
                        /\ users[v] # NULL => users'[v] # NULL
                        /\ task[g].at \in {"store", "cachelang"} /\ users[v] # NULL =>
                               users'[v].lang = users[v].lang
                               \/ <<task[g].bot, v>> \in excused'
                        /\ task[g].at \in {"store", "cachelang"}
                               /\ <<task[g].bot, v>> \in excused =>
                               <<task[g].bot, v>> \in excused'
      BY DEF OthersInformed
    <2>1. task[g].user \in Users /\ task[g].bot \in Bots
      BY TaskFacts DEF Addressed
    <2>2. CASE task[g].user = u
      BY <1>2, <1>6, <2>1, <2>2
    <2>3. CASE task[g].user # u
      BY <1>2, <2>1, <2>3 DEF Heard, u
    <2>4. QED
      BY <2>2, <2>3
  <1>8. NamesKept'
    BY <1>2 DEF IInv, NamesKept
  <1>9. LanguageStaleOnlyIfMissed'
    <2> SUFFICES ASSUME NEW c \in Bots, NEW v \in Users, cache[c][v] # NULL
                 PROVE  /\ users'[v] # NULL
                        /\ \/ cache[c][v] = users'[v].lang
                           \/ <<c, v>> \in excused'
                           \/ InFlight(c, v, {"cachelang"})' # {}
      BY DEF LanguageStaleOnlyIfMissed
    <2>1. users[v] # NULL /\ (\/ cache[c][v] = users[v].lang
                              \/ <<c, v>> \in excused
                              \/ InFlight(c, v, {"cachelang"}) # {})
      BY DEF IInv, LanguageStaleOnlyIfMissed
    <2>2. CASE v # u
      BY <1>2, <2>1, <2>2, InFlightKept DEF Heard, u
    <2>3. CASE v = u /\ (c # b \/ ~heard)
      BY <1>2, <1>5, <2>1, <2>3
    <2>4. CASE v = u /\ c = b /\ heard
      <3>1. task'[h] = t
        BY DEF IInv, TypeOK
      <3>2. QED
        BY <1>2, <2>1, <2>4, <3>1 DEF InFlight, u, b
    <2>5. QED
      BY <2>2, <2>3, <2>4
  <1>10. Informed(t)'
    <2>1. t.at # "store" /\ t.at # "touch"
      OBVIOUS
    <2>2. (users'[u] # NULL /\ l = users'[u].lang) \/ <<b, u>> \in excused'
      BY <1>2, <1>4
    <2>3. QED
      BY <1>1, <1>2, <2>1, <2>2 DEF Informed, Fresh, u, b, l
  <1>11. excused' \subseteq Bots \X Users
    BY <1>3 DEF IInv, TypeOK
  <1>12. t.at # "idle" /\ t.at # "write"
    OBVIOUS
  <1>13. QED
    BY <1>2, <1>7, <1>8, <1>9, <1>10, <1>11, <1>12, LoudStep DEF IInv, TypeOK

LEMMA SetLanguageInv == ASSUME IInv, NEW h \in Handlers, SetLanguage(h) PROVE IInv'
  <1>1. /\ task[h].at = "setlang" /\ users' = LanguageSet(task[h].user, task[h].lang)
        /\ task' = [task EXCEPT ![h].at = "cachelang"]
        /\ excused' = (excused \ Heard(h)) \cup Missed(h, TRUE)
        /\ UNCHANGED <<favorites, cache, crashes, unsaved, contested>>
    BY DEF SetLanguage
  <1>2. task[h] \in Task /\ Addressed(task[h])
    BY <1>1, TaskFacts
  <1>3. PICK t : t = [task[h] EXCEPT !.at = "cachelang"]
    OBVIOUS
  <1>4. /\ t \in Task /\ t.at = "cachelang" /\ Addressed(t)
        /\ t.bot = task[h].bot /\ t.user = task[h].user /\ t.lang = task[h].lang
        /\ t.full = task[h].full /\ t.anime = task[h].anime
        /\ t.toast = task[h].toast /\ t.label = task[h].label
    BY <1>1, <1>2, <1>3 DEF Task, Addressed
  <1>5. task' = [task EXCEPT ![h] = t]
    BY <1>1, <1>3
  <1>6. QED
    BY <1>1, <1>4, <1>5, LanguageSetInv

LEMMA SetLanguageFailsInv == ASSUME IInv, NEW h \in Handlers, SetLanguageFails(h) PROVE IInv'
  <1>1. /\ task[h].at = "setlang" /\ task' = [task EXCEPT ![h].at = "reply"]
        /\ UNCHANGED <<favorites, cache, crashes, unsaved, contested>>
    BY DEF SetLanguageFails
  <1>2. /\ task[h] \in Task /\ Addressed(task[h]) /\ Informed(task[h])
        /\ h \notin contested => Steady(task[h])
    BY <1>1, TaskFacts
  <1>3. PICK t : t = [task[h] EXCEPT !.at = "reply"]
    OBVIOUS
  <1>4. /\ t \in Task /\ t.at = "reply" /\ Addressed(t)
        /\ t.bot = task[h].bot /\ t.user = task[h].user /\ t.lang = task[h].lang
        /\ t.full = task[h].full /\ t.anime = task[h].anime
        /\ t.toast = task[h].toast /\ t.label = task[h].label
    BY <1>1, <1>2, <1>3 DEF Task, Addressed
  <1>5. task' = [task EXCEPT ![h] = t]
    BY <1>1, <1>3
  <1>6. CASE UNCHANGED <<users, excused>>
    <2>1. OthersSteady(h)
      BY <1>1 DEF OthersSteady
    <2>2. Informed(t)' /\ Addressed(t)'
      BY <1>1, <1>2, <1>4, <1>6 DEF Informed, Addressed
    <2>3. h \notin contested' => Steady(t)'
      BY <1>1, <1>2, <1>4 DEF Steady
    <2>4. QED
      BY <1>1, <1>4, <1>5, <1>6, <2>1, <2>2, <2>3, QuietStep DEF IInv, TypeOK
  <1>7. CASE /\ users' = LanguageSet(task[h].user, task[h].lang)
             /\ excused' = excused \cup Missed(h, FALSE)
    BY <1>1, <1>4, <1>5, <1>7, LanguageSetInv
  <1>8. QED
    BY <1>6, <1>7 DEF SetLanguageFails

LEMMA SetUserLangInv == ASSUME IInv, NEW h \in Handlers, SetUserLang(h) PROVE IInv'
  <1> DEFINE u == task[h].user
             b == task[h].bot
             l == task[h].lang
             entry == IF cache[b][u] = NULL THEN NULL ELSE l
  <1>1. /\ task[h].at = "cachelang" /\ cache' = [cache EXCEPT ![b][u] = entry]
        /\ task' = [task EXCEPT ![h].at = "reply"]
        /\ UNCHANGED <<tables, crashes, excused, unsaved, contested>>
    BY DEF SetUserLang
  <1>2. /\ task[h] \in Task /\ Addressed(task[h]) /\ Informed(task[h])
        /\ u \in Users /\ b \in Bots /\ l \in Langs
    BY <1>1, TaskFacts DEF Addressed, Task
  <1>3. PICK t : t = [task[h] EXCEPT !.at = "reply"]
    OBVIOUS
  <1>4. /\ t \in Task /\ t.at = "reply" /\ Addressed(t)
        /\ t.bot = b /\ t.user = u /\ t.full = task[h].full /\ t.anime = task[h].anime
        /\ t.toast = task[h].toast /\ t.label = task[h].label
    BY <1>1, <1>2, <1>3 DEF Task, Addressed
  <1>5. task' = [task EXCEPT ![h] = t]
    BY <1>1, <1>3
  <1>6. entry \in Langs \cup {NULL} /\ (cache[b][u] = NULL <=> entry = NULL)
        /\ (entry # NULL => entry = l)
    BY <1>2, DefaultIsALanguage
  <1>7. /\ ~task[h].full => cache[b][u] # NULL \/ u \in unsaved
        /\ (users[u] # NULL /\ l = users[u].lang) \/ <<b, u>> \in excused
    BY <1>1, <1>2 DEF Informed, Fresh
  <1> HIDE DEF u, b, l, entry
  <1>8. /\ cache' \in [Bots -> [Users -> Langs \cup {NULL}]]
        /\ cache'[b][u] = entry
        /\ \A c \in Bots, v \in Users : c # b \/ v # u => cache'[c][v] = cache[c][v]
    BY <1>1, <1>2, <1>6 DEF IInv, TypeOK
  <1>9. OthersInformed(h)
    <2> SUFFICES ASSUME NEW g \in Handlers \ {h}, task[g].at # "idle",
                        cache[task[g].bot][task[g].user] # NULL
                 PROVE  cache'[task[g].bot][task[g].user] # NULL
      BY <1>1 DEF OthersInformed, tables
    <2>1. task[g].bot \in Bots /\ task[g].user \in Users
      BY TaskFacts DEF Addressed
    <2>2. QED
      BY <1>6, <1>8, <2>1
  <1>10. LanguageStaleOnlyIfMissed'
    <2> SUFFICES ASSUME NEW c \in Bots, NEW v \in Users, cache'[c][v] # NULL
                 PROVE  /\ users[v] # NULL
                        /\ \/ cache'[c][v] = users[v].lang
                           \/ <<c, v>> \in excused
                           \/ InFlight(c, v, {"cachelang"})' # {}
      BY <1>1 DEF LanguageStaleOnlyIfMissed, tables
    <2>1. cache[c][v] # NULL
      BY <1>6, <1>8
    <2>2. users[v] # NULL /\ (\/ cache[c][v] = users[v].lang
                              \/ <<c, v>> \in excused
                              \/ InFlight(c, v, {"cachelang"}) # {})
      BY <2>1 DEF IInv, LanguageStaleOnlyIfMissed
    <2>3. CASE c = b /\ v = u
      BY <1>6, <1>7, <1>8, <2>2, <2>3
    <2>4. CASE c # b \/ v # u
      BY <1>4, <1>5, <1>8, <2>2, <2>4, InFlightKept DEF u, b
    <2>5. QED
      BY <2>3, <2>4
  <1>11. Informed(t)'
    BY <1>1, <1>4, <1>6, <1>7, <1>8 DEF Informed, tables
  <1>12. NamesKept'
    BY <1>1 DEF IInv, NamesKept, tables
  <1>13. QED
    BY <1>1, <1>4, <1>5, <1>8, <1>9, <1>10, <1>11, <1>12, LoudStep
       DEF IInv, TypeOK, tables, u

-----------------------------------------------------------------------------
(* 4. Restarts.                                                            *)

\* The goroutines of the process that dies are gone with its cache, those of
\* the others see no change.
LEMMA CrashInv == ASSUME IInv, NEW b \in Bots, Crash(b) PROVE IInv'
  <1>1. /\ crashes < MaxCrashes /\ crashes' = crashes + 1
        /\ cache' = [cache EXCEPT ![b] = [u \in Users |-> NULL]]
        /\ task' = [h \in Handlers |-> IF task[h].bot = b THEN Idle ELSE task[h]]
        /\ excused' = {x \in excused : x[1] # b}
        /\ contested' = {h \in contested : task[h].bot # b}
        /\ UNCHANGED <<tables, unsaved>>
    BY DEF Crash
  <1>2. TypeOK
    BY DEF IInv
  <1>3. \A h \in Handlers : task'[h] = IF task[h].bot = b THEN Idle ELSE task[h]
    BY <1>1
  <1>4. /\ \A c \in Bots \ {b} : cache'[c] = cache[c]
        /\ \A u \in Users : cache'[b][u] = NULL
    BY <1>1, <1>2 DEF TypeOK
  <1>5. \A c \in Bots \ {b}, u \in Users : <<c, u>> \in excused => <<c, u>> \in excused'
    BY <1>1
  <1>6. TypeOK'
    <2>1. users' \in [Users -> Row \cup {NULL}] /\ favorites' \subseteq Users \X Animes
      BY <1>1, <1>2 DEF TypeOK, tables
    <2>2. cache' \in [Bots -> [Users -> Langs \cup {NULL}]]
      BY <1>1, <1>2 DEF TypeOK
    <2>3. task' \in [Handlers -> Task]
      BY <1>1, <1>2, IdleType DEF TypeOK
    <2>4. crashes' \in 0..MaxCrashes
      BY <1>1, <1>2, CrashesAreCounted DEF TypeOK
    <2>5. excused' \subseteq Bots \X Users /\ unsaved' \subseteq Users /\ contested' \subseteq Handlers
      BY <1>1, <1>2 DEF TypeOK
    <2>6. QED
      BY <2>1, <2>2, <2>3, <2>4, <2>5 DEF TypeOK
  <1>7. ASSUME NEW h \in Handlers PROVE Sound(h)'
    <2>1. CASE task[h].bot = b
      <3>1. PICK t \in Task : t = Idle /\ t.at = "idle" /\ t.toast = NULL
        BY IdleType
      <3>2. task'[h] = t
        BY <1>3, <2>1, <3>1
      <3>3. QED
        BY <3>1, <3>2 DEF Sound, Steady
    <2>2. CASE task[h].bot # b
      <3>1. task'[h] = task[h] /\ Sound(h)
        BY <1>3, <2>2 DEF IInv
      <3>2. h \notin contested' => Steady(task[h])'
        BY <1>1, <2>2, <3>1 DEF Sound, Steady, tables
      <3>3. ASSUME task[h].at # "idle"
            PROVE  Addressed(task[h])' /\ Informed(task[h])'
        <4>1. Addressed(task[h]) /\ Informed(task[h])
          BY <3>1, <3>3 DEF Sound
        <4>2. task[h].bot \in Bots \ {b} /\ task[h].user \in Users
          BY <2>2, <4>1 DEF Addressed
        <4>3. cache'[task[h].bot] = cache[task[h].bot]
          BY <1>4, <4>2
        <4>4. <<task[h].bot, task[h].user>> \in excused =>
                  <<task[h].bot, task[h].user>> \in excused'
          BY <1>5, <4>2
        <4>5. Addressed(task[h])'
          BY <3>1, <4>1 DEF Addressed
        <4>6. QED
          BY <1>1, <3>1, <4>1, <4>3, <4>4, <4>5 DEF Informed, Fresh, tables
      <3>4. QED
        BY <3>1, <3>2, <3>3 DEF Sound
    <2>3. QED
      BY <2>1, <2>2
  <1>8. NamesKept'
    BY <1>1 DEF IInv, NamesKept, tables
  <1>9. LanguageStaleOnlyIfMissed'
    <2> SUFFICES ASSUME NEW c \in Bots, NEW u \in Users, cache'[c][u] # NULL
                 PROVE  /\ users[u] # NULL
                        /\ \/ cache'[c][u] = users[u].lang
                           \/ <<c, u>> \in excused'
                           \/ InFlight(c, u, {"cachelang"})' # {}
      BY <1>1 DEF LanguageStaleOnlyIfMissed, tables
    <2>1. c # b /\ cache'[c] = cache[c]
      BY <1>4
    <2>2. users[u] # NULL /\ (\/ cache[c][u] = users[u].lang
                              \/ <<c, u>> \in excused
                              \/ InFlight(c, u, {"cachelang"}) # {})
      BY <2>1 DEF IInv, LanguageStaleOnlyIfMissed
    <2>3. ASSUME InFlight(c, u, {"cachelang"}) # {}
          PROVE  InFlight(c, u, {"cachelang"})' # {}
      <3>1. PICK g \in Handlers : task[g].at = "cachelang" /\ task[g].bot = c /\ task[g].user = u
        BY <2>3 DEF InFlight
      <3>2. task'[g] = task[g]
        BY <1>3, <2>1, <3>1
      <3>3. QED
        BY <3>1, <3>2 DEF InFlight
    <2>4. QED
      BY <1>5, <2>1, <2>2, <2>3
  <1>10. QED
    BY <1>6, <1>7, <1>8, <1>9 DEF IInv

-----------------------------------------------------------------------------
(* 5. The invariant, and what follows from it.                             *)

LEMMA InitIInv == ASSUME Init PROVE IInv
  <1>1. TypeOK
    BY IdleType, CrashesAreCounted DEF Init, TypeOK
  <1>2. ASSUME NEW h \in Handlers PROVE Sound(h)
    <2>1. PICK t \in Task : t = Idle /\ t.at = "idle" /\ t.toast = NULL
      BY IdleType
    <2>2. task[h] = t
      BY <2>1 DEF Init
    <2>3. QED
      BY <2>1, <2>2 DEF Sound, Steady
  <1>3. NamesKept /\ LanguageStaleOnlyIfMissed
    BY DEF Init, NamesKept, LanguageStaleOnlyIfMissed
  <1>4. QED
    BY <1>1, <1>2, <1>3 DEF IInv

LEMMA NextIInv == ASSUME IInv, [Next]_vars PROVE IInv'
  <1>1. ASSUME NEW h \in Handlers, Proceed(h) PROVE IInv'
    BY <1>1, LoadUserInv, TouchUserInv, TouchFailsInv, StoreUserInv, SetLanguageInv,
       SetLanguageFailsInv, SetUserLangInv, IsFavoriteInv, ToggleFavoriteInv,
       ToggleFailsInv, ToastInv, ListFavoritesInv, ReplyInv DEF Proceed
  <1>2. CASE UNCHANGED vars
    BY <1>2 DEF vars, tables, IInv, TypeOK, Sound, Addressed, Informed, Fresh, Steady,
       NamesKept, LanguageStaleOnlyIfMissed, InFlight
  <1>3. QED
    BY <1>1, <1>2, DispatchInv, CrashInv DEF Next

\* The invariant of the proof holds in every reachable state: whatever the
\* goroutines, the other processes and the restarts do between two of its steps,
\* the locals of ensureUser, changeLanguage and toggleFavoriteCallback say of the
\* tables and of the cache what Sound says.
THEOREM BotSessionInductive == Spec => []IInv
  BY InitIInv, NextIInv, PTL DEF Spec

\* Every variable of the bot and of the two tables has its type in every
\* reachable state, and so a favourite is of a user and an anime there is.
THEOREM BotSessionTypeCorrect == Spec => []TypeOK
  <1>1. IInv => TypeOK
    BY DEF IInv
  <1>2. QED
    BY <1>1, BotSessionInductive, PTL

\* The language a process has cached is the stored one unless it could not hear
\* of the change (bot.go:103, bot.go:111).
THEOREM CacheStaleOnlyIfMissed == Spec => []LanguageStaleOnlyIfMissed
  <1>1. IInv => LanguageStaleOnlyIfMissed
    BY DEF IInv
  <1>2. QED
    BY <1>1, BotSessionInductive, PTL

\* A stored name is erased, and a confirmed language finds no row, only after
\* the first touch of an update failed (callbacks.go:37, callbacks.go:163).
THEOREM NamesAndChoicesKept == Spec => []LossOnlyIfTouchFailed
  <1>1. IInv => LossOnlyIfTouchFailed
    <2> SUFFICES ASSUME IInv PROVE LossOnlyIfTouchFailed
      OBVIOUS
    <2>1. ASSUME NEW h \in Handlers, task[h].at = "cachelang", users[task[h].user] = NULL
          PROVE  task[h].user \in unsaved
      BY <2>1, TaskFacts DEF Informed
    <2>2. QED
      BY <2>1 DEF LossOnlyIfTouchFailed, IInv, NamesKept
  <1>2. QED
    BY <1>1, BotSessionInductive, PTL

\* The screen after a toggle says what its toast said, unless the favourite was
\* written in between (anime.go:27).
THEOREM ScreenAgreesWithToast == Spec => []LabelIsToast
  <1>1. IInv => LabelIsToast
    <2> SUFFICES ASSUME IInv, NEW h \in Handlers \ contested,
                        task[h].toast # NULL, task[h].label # NULL
                 PROVE  task[h].toast = task[h].label
      BY DEF LabelIsToast
    <2>1. task[h] \in Task /\ Steady(task[h])
      BY TaskFacts
    <2>2. task[h].toast \in BOOLEAN /\ task[h].label \in BOOLEAN
      BY <2>1 DEF Task
    <2>3. task[h].toast <=> task[h].label
      BY <2>1 DEF Steady
    <2>4. QED
      BY <2>2, <2>3
  <1>2. QED
    BY <1>1, BotSessionInductive, PTL

\* A step of one goroutine leaves the locals of the others alone.
LEMMA OneMoves ==
  ASSUME IInv, NEW g \in Handlers, Dispatch(g) \/ Proceed(g), NEW h \in Handlers \ {g}
  PROVE  task'[h] = task[h]
  <1> USE DEF IInv, TypeOK
  <1>1. CASE Dispatch(g)
    BY <1>1 DEF Dispatch
  <1>2. CASE LoadUser(g)
    BY <1>2 DEF LoadUser
  <1>3. CASE TouchUser(g) \/ TouchFails(g) \/ StoreUser(g)
    BY <1>3 DEF TouchUser, TouchFails, StoreUser
  <1>4. CASE SetLanguage(g) \/ SetLanguageFails(g) \/ SetUserLang(g)
    BY <1>4 DEF SetLanguage, SetLanguageFails, SetUserLang
  <1>5. CASE IsFavorite(g) \/ ToggleFavorite(g) \/ ToggleFails(g)
    BY <1>5 DEF IsFavorite, ToggleFavorite, ToggleFails
  <1>6. CASE Toast(g) \/ ListFavorites(g) \/ Reply(g)
    BY <1>6 DEF Toast, ListFavorites, Reply
  <1>7. QED
    BY <1>1, <1>2, <1>3, <1>4, <1>5, <1>6 DEF Proceed

\* A tap flips the favourite unless another one overtook it (user.go:43).
THEOREM TapsFlip == Spec => ToggleFlips
  <1> DEFINE Flips ==
          \A h \in Handlers \ contested :
              task[h].at = "write" /\ task'[h].at = "toast" =>
                  (Pair(h) \in favorites) # (Pair(h) \in favorites')
  <1>1. ASSUME IInv, [Next]_vars PROVE [Flips]_vars
    <2> SUFFICES ASSUME NEW h \in Handlers \ contested, task[h].at = "write",
                        task'[h].at = "toast"
                 PROVE  Pair(h) \in favorites <=> ~(Pair(h) \in favorites')
      BY Zenon
    <2>1. task[h].was <=> Pair(h) \in favorites
      BY <1>1, TaskFacts DEF Steady, Pair
    <2>2. CASE UNCHANGED vars
      BY <2>2 DEF vars
    <2>3. ASSUME NEW b \in Bots, Crash(b) PROVE FALSE
      BY <2>3, IdleType DEF Crash
    <2>4. ASSUME NEW g \in Handlers, Dispatch(g) \/ Proceed(g), g # h PROVE FALSE
      BY <1>1, <2>4, OneMoves
    <2>5. CASE Dispatch(h) \/ Proceed(h)
      <3>1. ToggleFavorite(h) \/ ToggleFails(h)
        BY <2>5 DEF Proceed, Dispatch, LoadUser, TouchUser, TouchFails, StoreUser,
           SetLanguage, SetLanguageFails, SetUserLang, IsFavorite, Toast,
           ListFavorites, Reply
      <3>2. ~ToggleFails(h)
        <4>1. SUFFICES ASSUME ToggleFails(h) PROVE FALSE
          OBVIOUS
        <4>2. task'[h].at = "reply"
          BY <1>1, <4>1, TaskFacts DEF ToggleFails, IInv, TypeOK, Task
        <4>3. QED
          BY <4>2
      <3>3. favorites' = Toggled(h)
        BY <3>1, <3>2 DEF ToggleFavorite
      <3>4. Pair(h) \in favorites' <=> ~task[h].was
        BY <3>3 DEF Toggled
      <3>5. QED
        BY <2>1, <3>4
    <2>6. QED
      BY <1>1, <2>2, <2>3, <2>4, <2>5 DEF Next
  <1>2. QED
    BY <1>1, BotSessionInductive, PTL DEF ToggleFlips, Spec

\* The stored language of a user changes only by the request that asks for it:
\* creating the row again by any process, after any restart, leaves it alone
\* although the bot always sends the default (user_repo.go:23).
THEOREM ChoicesChangeLanguage == Spec => OnlyChoicesChangeLanguage
  <1> DEFINE Chosen ==
          \A u \in Users :
             users[u] # NULL /\ users'[u].lang # users[u].lang =>
                 \E h \in Handlers :
                     /\ task[h].at = "setlang" /\ task'[h].at # "setlang"
                     /\ task[h].user = u /\ task[h].lang = users'[u].lang
  <1>1. ASSUME IInv, [Next]_vars PROVE [Chosen]_vars
    <2> SUFFICES ASSUME NEW u \in Users, users[u] # NULL,
                        users'[u].lang # users[u].lang
                 PROVE  \E h \in Handlers :
                            /\ task[h].at = "setlang" /\ task'[h].at # "setlang"
                            /\ task[h].user = u /\ task[h].lang = users'[u].lang
      OBVIOUS
    <2>1. users' # users
      OBVIOUS
    <2>2. ~UNCHANGED vars
      BY <2>1 DEF vars, tables
    <2>3. PICK h \in Handlers : TouchUser(h) \/ TouchFails(h) \/ SetLanguage(h) \/ SetLanguageFails(h)
      <3>1. ASSUME NEW b \in Bots, Crash(b) PROVE FALSE
        BY <2>1, <3>1 DEF Crash, tables
      <3>2. ASSUME NEW g \in Handlers, Dispatch(g) PROVE FALSE
        BY <2>1, <3>2 DEF Dispatch, tables
      <3>3. ASSUME NEW g \in Handlers,
                   \/ LoadUser(g) \/ StoreUser(g) \/ SetUserLang(g) \/ IsFavorite(g)
                   \/ ToggleFavorite(g) \/ ToggleFails(g) \/ Toast(g)
                   \/ ListFavorites(g) \/ Reply(g)
            PROVE  FALSE
        BY <2>1, <3>3 DEF LoadUser, StoreUser, SetUserLang, IsFavorite, ToggleFavorite,
           ToggleFails, Toast, ListFavorites, Reply, tables
      <3>4. QED
        BY <1>1, <2>2, <3>1, <3>2, <3>3 DEF Next, Proceed
    <2>4. /\ task[h] \in Task /\ TypeOK
          /\ task[h].user \in Users /\ task[h].lang \in Langs /\ task[h].full \in BOOLEAN
      BY <1>1, <2>3, TaskFacts DEF TouchUser, TouchFails, SetLanguage, SetLanguageFails,
         Addressed, Task, IInv
    <2>5. ~TouchUser(h) /\ ~TouchFails(h)
      <3>1. users' # Upsert(task[h].user, task[h].full)
        <4> DEFINE v == task[h].user
                   n == task[h].full
        <4>1. v \in Users /\ n \in BOOLEAN /\ TypeOK
          BY <2>4
        <4> HIDE DEF v, n
        <4>2. Upsert(v, n)[u] = users[u] \/ Upsert(v, n)[u].lang = users[u].lang
          BY <4>1, UpsertFacts
        <4>3. QED
          BY <4>2 DEF v, n
      <3>2. QED
        BY <2>1, <3>1 DEF TouchUser, TouchFails
    <2>6. task[h].at = "setlang" /\ users' = LanguageSet(task[h].user, task[h].lang)
      BY <2>1, <2>3, <2>5 DEF SetLanguage, SetLanguageFails
    <2>7. task[h].user = u /\ users'[u].lang = task[h].lang
      BY <2>4, <2>6, LanguageSetFacts
    <2>8. task'[h].at # "setlang"
      BY <2>3, <2>4, <2>5, ZenonT(30) DEF SetLanguage, SetLanguageFails, TypeOK, Task
    <2>9. QED
      BY <2>6, <2>7, <2>8
  <1>2. QED
    BY <1>1, BotSessionInductive, PTL DEF OnlyChoicesChangeLanguage, Spec

=============================================================================
