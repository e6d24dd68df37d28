----------------------------- MODULE Connections -----------------------------
(***************************************************************************)
(* The API's database connections, and episodes_count, the column that is  *)
(* only right if the two statements of EpisodeRepo.Create both get one.    *)
(*                                                                         *)
(* Every statement takes a connection of the pool and gives it back, but   *)
(* Create keeps the one of its INSERT (its rows are open) while it asks    *)
(* for another to refresh the count.  After 15 seconds the context of a    *)
(* request is cancelled, whatever it is doing or waiting for.              *)
(*                                                                         *)
(* Simplifications.  Animes exist.  A request that is no import is one of  *)
(* the kinds below: the others also take one connection at a time.  The    *)
(* refresh reads the episodes as of its start (READ COMMITTED) and writes  *)
(* later; every other statement is one step.                               *)
(***************************************************************************)
EXTENDS Naturals, Sequences, FiniteSetsExt

CONSTANTS
    Requests,  \* bound on the requests in progress
    Animes,
    Episodes,
    Owner,     \* per episode: its anime
    MaxConns   \* 20: db.SetMaxOpenConns

ASSUME PoolIsNotEmpty == MaxConns \in Nat \ {0}
ASSUME TablesAreFinite == IsFiniteSet(Requests) /\ IsFiniteSet(Episodes)
ASSUME EpisodesHaveAnAnime == Owner \in [Episodes -> Animes]

VARIABLES
    req,       \* the requests in progress
    free,      \* connections that can be taken
    episode,   \* per episode: "none", "there" or "deleted"
    count,     \* per anime: episodes_count
    excused    \* animes whose count something has put wrong (history)

vars == <<req, free, episode, count, excused>>

Kinds == {"import", "announce", "delete", "list"}

SQL == {"season", "insert", "find", "update", "get", "delete", "count", "select"}

\* The statements of a request, in their order.
Statements(kind) ==
    CASE kind = "import"   -> <<"season", "insert">>
      [] kind = "announce" -> <<"find", "update", "get">>
      [] kind = "delete"   -> <<"delete">>
      [] kind = "list"     -> <<"count", "select">>

\* snap: the count the refresh has read; late: an episode came or went since
\* (history).
Request(k, e) ==
    [at |-> "wait", kind |-> k, episode |-> e, todo |-> Statements(k),
     snap |-> 0, late |-> FALSE]

\* A request for an anime, written as one for an episode of it.
AnyEpisode(a) == CHOOSE e \in Episodes : Owner[e] = a

Idle == [at |-> "idle"]

\* Connections a request has while it is there.
Held(at) ==
    CASE at \in {"run", "again"} -> 1
      [] at = "refresh"          -> 2
      [] OTHER                   -> 0

AnimeOf(r) == Owner[req[r].episode]
There(a) == {e \in Episodes : Owner[e] = a /\ episode[e] = "there"}

-----------------------------------------------------------------------------
Init ==
    /\ req = [r \in Requests |-> Idle]
    /\ free = MaxConns
    /\ episode = [e \in Episodes |-> "none"]
    /\ count = [a \in Animes |-> 0]
    /\ excused = {}

Arrive(r) ==
    /\ req[r].at = "idle"
    /\ \E k \in Kinds, e \in Episodes :
           /\ k \in {"announce", "list"} => e = AnyEpisode(Owner[e])
           /\ req' = [req EXCEPT ![r] = Request(k, e)]
    /\ UNCHANGED <<free, episode, count, excused>>

Acquire(r) ==
    /\ req[r].at = "wait"
    /\ free > 0
    /\ free' = free - 1
    /\ req' = [req EXCEPT ![r].at = "run"]
    /\ UNCHANGED <<episode, count, excused>>

-----------------------------------------------------------------------------
(* What the statements do.                                                 *)

\* The refreshes of this anime that have read the episodes already.
Overtaken(r) ==
    [q \in Requests |->
        IF q # r /\ req[q].at = "refresh" /\ AnimeOf(q) = AnimeOf(r)
        THEN [req[q] EXCEPT !.late = TRUE] ELSE req[q]]

\* ON CONFLICT DO UPDATE leaves is_deleted as it is.
Insert(r) ==
    /\ Head(req[r].todo) = "insert"
    /\ episode' = [episode EXCEPT ![req[r].episode] = IF @ = "none" THEN "there" ELSE @]
    /\ req' = [Overtaken(r) EXCEPT ![r].at = "again"]
    /\ UNCHANGED <<free, count, excused>>

\* The statement is over and its connection given back.
Continue(r) ==
    [req[r] EXCEPT !.at = "wait", !.todo = Tail(@)]

Return(r, requests) ==
    /\ free' = free + 1
    /\ req' = [requests EXCEPT ![r] =
                   IF Len(req[r].todo) = 1 THEN Idle ELSE Continue(r)]

\* Anime.Update writes the count of a row that has none: 0.
UpdateAnime(r) ==
    /\ Head(req[r].todo) = "update"
    /\ count' = [count EXCEPT ![AnimeOf(r)] = 0]
    /\ excused' = excused \cup {AnimeOf(r)}
    /\ Return(r, req)
    /\ UNCHANGED episode

SoftDelete(r) ==
    /\ Head(req[r].todo) = "delete"
    /\ episode' = [episode EXCEPT ![req[r].episode] = IF @ = "none" THEN @ ELSE "deleted"]
    /\ excused' = excused \cup {AnimeOf(r)}
    /\ Return(r, Overtaken(r))
    /\ UNCHANGED count

\* Fault: the rows of a first statement are still open when the next one runs.
ReadOpen(r) ==
    /\ Head(req[r].todo) \in {"season", "find", "get", "count", "select"}
    /\ IF Len(req[r].todo) = 1
       THEN Return(r, req)
       ELSE /\ req' = [req EXCEPT ![r].at = "again", ![r].todo = Tail(@)]
            /\ UNCHANGED free
    /\ UNCHANGED <<episode, count, excused>>

Read(r) ==
    /\ Head(req[r].todo) \in {"season", "find", "get", "count", "select"}
    /\ Return(r, req)
    /\ UNCHANGED <<episode, count, excused>>

Execute(r) ==
    /\ req[r].at = "run"
    /\ Insert(r) \/ UpdateAnime(r) \/ SoftDelete(r) \/ Read(r)

\* A statement that fails ends the request.
ExecuteFails(r) ==
    /\ req[r].at = "run"
    /\ free' = free + 1
    /\ req' = [req EXCEPT ![r] = Idle]
    /\ UNCHANGED <<episode, count, excused>>

-----------------------------------------------------------------------------
(* The refresh of the count.                                               *)

\* Fault: it counts the rows of deleted episodes too.
CountedDeleted(a) == {e \in Episodes : Owner[e] = a /\ episode[e] # "none"}

Counted(a) == There(a)

AcquireSecond(r) ==
    /\ req[r].at = "again"
    /\ free > 0
    /\ free' = free - 1
    /\ req' = [req EXCEPT ![r].at = "refresh", ![r].late = FALSE,
                          ![r].snap = Cardinality(Counted(AnimeOf(r)))]
    /\ UNCHANGED <<episode, count, excused>>

WriteCount(r) ==
    /\ count' = [count EXCEPT ![AnimeOf(r)] = req[r].snap]
    /\ excused' = IF req[r].late THEN excused \cup {AnimeOf(r)}
                                 ELSE excused \ {AnimeOf(r)}

Refresh(r) ==
    /\ req[r].at = "refresh"
    /\ WriteCount(r)
    /\ free' = free + 2
    /\ req' = [req EXCEPT ![r] = Idle]
    /\ UNCHANGED episode

RefreshFails(r) ==
    /\ req[r].at = "refresh"
    /\ free' = free + 2
    /\ req' = [req EXCEPT ![r] = Idle]
    /\ excused' = excused \cup {AnimeOf(r)}
    /\ UNCHANGED <<episode, count>>

-----------------------------------------------------------------------------
(* The deadline.                                                           *)

\* Fault: the second statement is not given the context.
CanceledRunning(at) == at \in {"wait", "run", "refresh"}

Canceled(at) == at # "idle"

\* A cancelled statement may have been executed; that of a waiter was not.
TimeOut(r) ==
    /\ Canceled(req[r].at)
    /\ free' = free + Held(req[r].at)
    /\ \/ /\ UNCHANGED <<episode, count>>
          /\ excused' = IF req[r].at \in {"again", "refresh"}
                        THEN excused \cup {AnimeOf(r)} ELSE excused
          /\ req' = [req EXCEPT ![r] = Idle]
       \/ /\ req[r].at = "refresh"
          /\ WriteCount(r)
          /\ req' = [req EXCEPT ![r] = Idle]
          /\ UNCHANGED episode
       \/ /\ req[r].at = "run" /\ Head(req[r].todo) = "insert"
          /\ episode' = [episode EXCEPT ![req[r].episode] =
                             IF @ = "none" THEN "there" ELSE @]
          /\ excused' = excused \cup {AnimeOf(r)}
          /\ req' = [Overtaken(r) EXCEPT ![r] = Idle]
          /\ UNCHANGED count

Next ==
    \E r \in Requests :
        \/ Arrive(r) \/ Acquire(r) \/ AcquireSecond(r)
        \/ Execute(r) \/ ExecuteFails(r) \/ Refresh(r) \/ RefreshFails(r)
        \/ TimeOut(r)

\* A timer fires.  Nothing is said of the database, or of who gets the next
\* free connection.
Fairness == \A r \in Requests : WF_vars(TimeOut(r))

Spec == Init /\ [][Next]_vars /\ Fairness

-----------------------------------------------------------------------------
(* What it promises.                                                       *)

TypeOK ==
    /\ req \in [Requests -> {Idle} \cup
           [at : {"wait", "run", "again", "refresh"}, kind : Kinds, episode : Episodes,
            todo : Seq(SQL), snap : Nat, late : BOOLEAN]]
    /\ free \in Nat
    /\ episode \in [Episodes -> {"none", "there", "deleted"}]
    /\ count \in [Animes -> Nat]
    /\ excused \subseteq Animes

In(places) == {r \in Requests : req[r].at \in places}

\* Every connection is free or with a request that will give it back, however
\* requests end: served, failed, or cut off while they wait for their second
\* one (episode_repo.go:50).
NoneLeaks ==
    free + Cardinality(In({"run", "again"})) + 2 * Cardinality(In({"refresh"}))
        = MaxConns

\* Somebody waits and no statement is running that could free a connection.
Stalled == In({"wait", "again"}) # {} /\ free = 0 /\ In({"run", "refresh"}) = {}

\* Only imports can stall the pool, and only as many of them at once as it has
\* connections (db.go:22, episode_repo.go:46): nothing else keeps a connection
\* while it asks for another one.
StallTakesImports ==
    Stalled =>
        Cardinality({r \in In({"again"}) : req[r].kind = "import"}) >= MaxConns

\* No request waits for ever, for all imports can wait for each other: the
\* deadline of the router is what lets them go (router.go:19).
EveryRequestEnds ==
    \A r \in Requests : req[r].at # "idle" ~> req[r].at = "idle"

\* When no import of the anime is under way, episodes_count is the number of
\* its episodes: unless, since the last refresh, the anime was announced again
\* (ingest.go:121), an episode deleted (episode_repo.go:139) or an import
\* cut off after its INSERT, or that refresh was overtaken by another import.
CountIsRight ==
    \A a \in Animes \ excused :
        {r \in In({"again", "refresh"}) : AnimeOf(r) = a} = {} =>
            count[a] = Cardinality(There(a))

=============================================================================
