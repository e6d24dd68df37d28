-------------------------- MODULE ConnectionsProofs --------------------------
(***************************************************************************)
(* Proofs about Connections, for a pool of any size and any number of      *)
(* requests, animes and episodes.                                          *)
(*                                                                         *)
(* Section 1 is about one request, section 2 about the requests a refresh  *)
(* is overtaken by, section 3 about the connections, section 4 about the   *)
(* count.                                                                  *)
(***************************************************************************)
EXTENDS Connections, TLAPS, FiniteSetTheorems, SequenceTheorems

Places == {"wait", "run", "again", "refresh"}

Busy ==
    [at : Places, kind : Kinds, episode : Episodes, todo : Seq(SQL),
     snap : Nat, late : BOOLEAN]

\* A request has something left to do, and an INSERT only if it is an import.
SoundRequest(t) ==
    /\ t \in Busy
    /\ t.todo # <<>>
    /\ \A i \in 1..Len(t.todo) : t.todo[i] = "insert" => t.kind = "import"
    /\ t.at \in {"again", "refresh"} => t.kind = "import"

Sound == req \in [Requests -> {t \in Busy : SoundRequest(t)} \cup {Idle}]

\* A refresh has read the number of episodes there are, unless it is late.
SnapIsFresh ==
    \A r \in Requests :
        req[r].at = "refresh" =>
            req[r].late \/ req[r].snap = Cardinality(There(AnimeOf(r)))

IInv == TypeOK /\ Sound /\ NoneLeaks /\ SnapIsFresh /\ CountIsRight

-----------------------------------------------------------------------------
(* 1. One request.                                                         *)

LEMMA StatementsSound ==
  ASSUME NEW k \in Kinds
  PROVE  /\ Statements(k) \in Seq(SQL)
         /\ Statements(k) # <<>>
         /\ \A i \in 1..Len(Statements(k)) :
                Statements(k)[i] = "insert" => k = "import"
  <1>1. CASE k = "import"
    BY <1>1 DEF Statements, SQL
  <1>2. CASE k = "announce"
    BY <1>2 DEF Statements, SQL
  <1>3. CASE k = "delete"
    BY <1>3 DEF Statements, SQL
  <1>4. CASE k = "list"
    BY <1>4 DEF Statements, SQL
  <1>5. QED
    BY <1>1, <1>2, <1>3, <1>4 DEF Kinds

LEMMA RequestSound ==
  ASSUME NEW k \in Kinds, NEW e \in Episodes
  PROVE  SoundRequest(Request(k, e)) /\ Request(k, e).at = "wait"
  BY StatementsSound DEF SoundRequest, Request, Busy, Places

\* The request has gone on to another place.
LEMMA MovedSound ==
  ASSUME NEW t, SoundRequest(t), NEW a \in Places,
         a \in {"again", "refresh"} => t.kind = "import"
  PROVE  /\ SoundRequest([t EXCEPT !.at = a])
         /\ \A n \in Nat, l \in BOOLEAN :
                SoundRequest([t EXCEPT !.at = a, !.late = l, !.snap = n])
  BY DEF SoundRequest, Busy

\* It has been overtaken.
LEMMA LateSound ==
  ASSUME NEW t, SoundRequest(t)
  PROVE  SoundRequest([t EXCEPT !.late = TRUE])
  BY DEF SoundRequest, Busy

\* Its statement is over, and was not the last one.
LEMMA ContinuedSound ==
  ASSUME NEW t, SoundRequest(t), Len(t.todo) # 1
  PROVE  SoundRequest([t EXCEPT !.at = "wait", !.todo = Tail(@)])
  <1>1. t.todo \in Seq(SQL) /\ Len(t.todo) \in Nat /\ Len(t.todo) > 1
    <2>1. t.todo \in Seq(SQL) /\ t.todo # <<>>
      BY DEF SoundRequest, Busy
    <2>2. Len(t.todo) \in Nat /\ Len(t.todo) # 0
      BY <2>1, EmptySeq
    <2>3. \A n \in Nat : n # 0 /\ n # 1 => n > 1
      OBVIOUS
    <2>4. QED
      BY <2>1, <2>2, <2>3
  <1>2. Tail(t.todo) \in Seq(SQL) /\ Len(Tail(t.todo)) = Len(t.todo) - 1
    BY <1>1, HeadTailProperties, EmptySeq
  <1>3. \A i \in 1..Len(Tail(t.todo)) : Tail(t.todo)[i] = t.todo[i + 1]
    BY <1>1, HeadTailProperties, EmptySeq
  <1>4. \A i \in 1..Len(Tail(t.todo)) :
            Tail(t.todo)[i] = "insert" => t.kind = "import"
    BY <1>1, <1>2, <1>3 DEF SoundRequest
  <1>5. Tail(t.todo) # <<>>
    <2>1. \A n \in Nat : n > 1 => n - 1 # 0
      OBVIOUS
    <2>2. Len(Tail(t.todo)) # 0
      BY <1>1, <1>2, <2>1
    <2>3. QED
      BY <2>2, EmptySeq
  <1> DEFINE u == [t EXCEPT !.at = "wait", !.todo = Tail(@)]
  <1>6. u \in Busy /\ u.todo = Tail(t.todo) /\ u.kind = t.kind /\ u.at = "wait"
    BY <1>2 DEF SoundRequest, Busy, Places
  <1>7. QED
    BY <1>4, <1>5, <1>6 DEF SoundRequest

LEMMA HeadInsert ==
  ASSUME NEW t, SoundRequest(t), Head(t.todo) = "insert"
  PROVE  t.kind = "import"
  <1>1. t.todo \in Seq(SQL) /\ t.todo # <<>>
    BY DEF SoundRequest, Busy
  <1>2. Len(t.todo) \in Nat /\ Len(t.todo) # 0
    BY <1>1, EmptySeq
  <1>3. 1 \in 1..Len(t.todo) /\ t.todo[1] = "insert"
    BY <1>1, <1>2
  <1>4. QED
    BY <1>3 DEF SoundRequest

-----------------------------------------------------------------------------
(* 2. The others.                                                          *)

LEMMA IdleIsNoPlace == Idle.at = "idle" /\ Idle.at \notin Places
  BY DEF Idle, Places

LEMMA SoundType ==
  ASSUME Sound, NEW r \in Requests
  PROVE  /\ req[r].at # "idle" => SoundRequest(req[r]) /\ req[r] \in Busy
         /\ req[r].at \in Places \cup {"idle"}
  BY IdleIsNoPlace DEF Sound, SoundRequest, Busy

LEMMA OwnerType ==
  ASSUME NEW t \in Busy
  PROVE  t.episode \in Episodes /\ Owner[t.episode] \in Animes
  BY EpisodesHaveAnAnime DEF Busy

\* Being overtaken changes nothing of a request but late.
LEMMA OvertakenFacts ==
  ASSUME Sound, NEW r \in Requests
  PROVE  /\ Overtaken(r) \in [Requests -> {t \in Busy : SoundRequest(t)} \cup {Idle}]
         /\ Overtaken(r)[r] = req[r]
         /\ \A q \in Requests :
                /\ Overtaken(r)[q].at = req[q].at
                /\ req[q].at \in Places =>
                       /\ Overtaken(r)[q].episode = req[q].episode
                       /\ Overtaken(r)[q].snap = req[q].snap
                       /\ req[q].late => Overtaken(r)[q].late
                /\ q # r /\ req[q].at = "refresh" /\ AnimeOf(q) = AnimeOf(r)
                       => Overtaken(r)[q].late
  <1> DEFINE Hit(q) == q # r /\ req[q].at = "refresh" /\ AnimeOf(q) = AnimeOf(r)
  <1>1. ASSUME NEW q \in Requests, Hit(q)
        PROVE  /\ Overtaken(r)[q] = [req[q] EXCEPT !.late = TRUE]
               /\ SoundRequest(req[q]) /\ req[q] \in Busy
               /\ SoundRequest(Overtaken(r)[q]) /\ Overtaken(r)[q] \in Busy
    <2>1. Overtaken(r)[q] = [req[q] EXCEPT !.late = TRUE]
      BY <1>1 DEF Overtaken
    <2>2. SoundRequest(req[q])
      BY <1>1, SoundType
    <2>3. QED
      BY <2>1, <2>2, LateSound DEF SoundRequest
  <1>2. ASSUME NEW q \in Requests, ~Hit(q)
        PROVE  Overtaken(r)[q] = req[q]
    BY <1>2 DEF Overtaken
  <1>3. DOMAIN Overtaken(r) = Requests /\ Overtaken(r) = [q \in Requests |-> Overtaken(r)[q]]
    BY DEF Overtaken
  <1>4. \A q \in Requests : Overtaken(r)[q] \in {t \in Busy : SoundRequest(t)} \cup {Idle}
    BY <1>1, <1>2 DEF Sound
  <1>5. ASSUME NEW q \in Requests, Hit(q)
        PROVE  /\ Overtaken(r)[q].at = req[q].at
               /\ Overtaken(r)[q].episode = req[q].episode
               /\ Overtaken(r)[q].snap = req[q].snap
               /\ Overtaken(r)[q].late
    BY <1>1, <1>5 DEF Busy
  <1> HIDE DEF Hit
  <1>6. Overtaken(r) \in [Requests -> {t \in Busy : SoundRequest(t)} \cup {Idle}]
    BY <1>3, <1>4
  <1>7. ~Hit(r)
    BY DEF Hit
  <1>8. QED
    BY <1>2, <1>5, <1>6, <1>7 DEF Hit

-----------------------------------------------------------------------------
(* 3. The connections.                                                     *)

\* A step in which only one request moves, and takes and gives back what it
\* holds, loses no connection.
LEMMA MoveLeaksNothing ==
  ASSUME NoneLeaks, free \in Nat, NEW r \in Requests,
         \A q \in Requests \ {r} : req'[q].at = req[q].at,
         req[r].at \in Places \cup {"idle"}, req'[r].at \in Places \cup {"idle"},
         free' + Held(req'[r].at) = free + Held(req[r].at), free' \in Nat
  PROVE  NoneLeaks'
  <1> DEFINE A == In({"run", "again"})
             B == In({"refresh"})
             n(S) == IF r \in S THEN 1 ELSE 0
  <1>1. IsFiniteSet(A) /\ IsFiniteSet(B)
    BY FS_Subset, TablesAreFinite DEF In
  <1>2. Cardinality(A) \in Nat /\ Cardinality(B) \in Nat
    BY <1>1, FS_CardinalityType
  <1>3. A' = (IF req'[r].at \in {"run", "again"} THEN A \cup {r} ELSE A \ {r})
    BY DEF In
  <1>4. B' = (IF req'[r].at \in {"refresh"} THEN B \cup {r} ELSE B \ {r})
    BY DEF In
  <1>5. /\ r \in A <=> req[r].at \in {"run", "again"}
        /\ r \in B <=> req[r].at \in {"refresh"}
        /\ r \in A' <=> req'[r].at \in {"run", "again"}
        /\ r \in B' <=> req'[r].at \in {"refresh"}
    BY DEF In
  <1>6. Cardinality(A') = Cardinality(A) - n(A) + n(A')
    <2>1. CASE req'[r].at \in {"run", "again"}
      BY <1>1, <1>2, <1>3, <1>5, <2>1, FS_AddElement, SMTT(30)
    <2>2. CASE req'[r].at \notin {"run", "again"}
      BY <1>1, <1>2, <1>3, <1>5, <2>2, FS_RemoveElement
    <2>3. QED
      BY <2>1, <2>2
  <1>7. Cardinality(B') = Cardinality(B) - n(B) + n(B')
    <2>1. CASE req'[r].at \in {"refresh"}
      BY <1>1, <1>2, <1>4, <1>5, <2>1, FS_AddElement
    <2>2. CASE req'[r].at \notin {"refresh"}
      BY <1>1, <1>2, <1>4, <1>5, <2>2, FS_RemoveElement
    <2>3. QED
      BY <2>1, <2>2
  <1>8. Held(req[r].at) = n(A) + 2 * n(B)
    BY <1>5 DEF Held, Places
  <1>9. Held(req'[r].at) = n(A') + 2 * n(B')
    BY <1>5 DEF Held, Places
  <1>10. /\ free + Cardinality(A) + 2 * Cardinality(B) = MaxConns
         /\ NoneLeaks' <=> free' + Cardinality(A') + 2 * Cardinality(B') = MaxConns
    BY DEF NoneLeaks
  <1>11. n(A) \in Int /\ n(B) \in Int /\ n(A') \in Int /\ n(B') \in Int
    OBVIOUS
  <1> HIDE DEF A, B, n
  <1>12. QED
    BY <1>2, <1>6, <1>7, <1>8, <1>9, <1>10, <1>11, PoolIsNotEmpty

-----------------------------------------------------------------------------
(* 4. The count.                                                           *)

Counting == {"again", "refresh"}

\* A step of request r that touches one anime, a, keeps the count right: it
\* leaves the other animes alone, makes every refresh of a late if it changes
\* the episodes of a, reads them right, and a is excused, counted right, left
\* to r, or as it was.
LEMMA StepKeepsCount ==
  ASSUME SnapIsFresh, CountIsRight, NEW r \in Requests, NEW a \in Animes,
         req[r].at \in Counting => AnimeOf(r) = a,
         req'[r].at \in Counting => AnimeOf(r)' = a,
         \A q \in Requests \ {r} :
             /\ req'[q].at = req[q].at
             /\ req[q].at \in Places =>
                    /\ req'[q].episode = req[q].episode /\ req'[q].snap = req[q].snap
                    /\ req[q].late => req'[q].late,
         excused' \subseteq Animes,
         \A b \in Animes \ {a} :
             /\ b \in excused => b \in excused'
             /\ count'[b] = count[b] /\ There(b)' = There(b),
         \/ There(a)' = There(a)
         \/ \A q \in Requests \ {r} :
                req[q].at = "refresh" /\ AnimeOf(q) = a => req'[q].late,
         req'[r].at = "refresh" =>
             req'[r].late \/ req'[r].snap = Cardinality(There(a)'),
         \/ a \in excused'
         \/ req'[r].at \in Counting
         \/ count'[a] = Cardinality(There(a)')
         \/ /\ a \notin excused /\ req[r].at \notin Counting
            /\ count'[a] = count[a] /\ There(a)' = There(a),
         \A q \in Requests : req[q].at \in Places => AnimeOf(q) \in Animes
  PROVE  SnapIsFresh' /\ CountIsRight'
  <1>1. \A q \in Requests \ {r} : req[q].at \in Places => AnimeOf(q)' = AnimeOf(q)
    BY DEF AnimeOf
  <1>2. ASSUME NEW q \in Requests, req'[q].at = "refresh"
        PROVE  req'[q].late \/ req'[q].snap = Cardinality(There(AnimeOf(q))')
    <2>1. CASE q = r
      <3>1. AnimeOf(r)' = a
        BY <1>2, <2>1 DEF Counting
      <3>2. There(AnimeOf(r))' = There(a)'
        BY <3>1 DEF There
      <3>3. QED
        BY <1>2, <2>1, <3>2
    <2>2. CASE q # r
      <3>1. req[q].at = "refresh" /\ req[q].at \in Places /\ AnimeOf(q)' = AnimeOf(q)
        BY <1>1, <1>2, <2>2 DEF Places
      <3>2. req[q].late \/ req[q].snap = Cardinality(There(AnimeOf(q)))
        BY <3>1 DEF SnapIsFresh
      <3>3. req[q].late => req'[q].late
        BY <2>2, <3>1
      <3>4. req'[q].snap = req[q].snap
        BY <2>2, <3>1
      <3>5. There(AnimeOf(q))' = There(AnimeOf(q)) \/ req'[q].late
        <4>1. CASE AnimeOf(q) = a
          <5>1. There(AnimeOf(q))' = There(a)'
            BY <3>1, <4>1 DEF There
          <5>2. QED
            BY <2>2, <3>1, <4>1, <5>1
        <4>2. CASE AnimeOf(q) # a
          <5>1. AnimeOf(q) \in Animes \ {a}
            BY <3>1, <4>2
          <5>2. There(AnimeOf(q))' = {e \in Episodes : Owner[e] = AnimeOf(q) /\ episode'[e] = "there"}
            BY <3>1 DEF There
          <5>3. \A b : There(b)' = {e \in Episodes : Owner[e] = b /\ episode'[e] = "there"}
            BY DEF There
          <5>4. QED
            BY <5>1, <5>2, <5>3
        <4>3. QED
          BY <4>1, <4>2
      <3>6. QED
        BY <3>2, <3>3, <3>4, <3>5
    <2>3. QED
      BY <2>1, <2>2
  <1>3. SnapIsFresh'
    BY <1>2 DEF SnapIsFresh
  <1> DEFINE Busies(b) == {q \in In({"again", "refresh"}) : AnimeOf(q) = b}
  <1>4. ASSUME NEW b \in Animes, b \notin excused', Busies(b)' = {}
        PROVE  count'[b] = Cardinality(There(b)')
    <2>1. \A q \in Requests : ~(req'[q].at \in Counting /\ AnimeOf(q)' = b)
      BY <1>4 DEF In, Counting
    <2>2. \A q \in Requests \ {r} : ~(req[q].at \in Counting /\ AnimeOf(q) = b)
      BY <1>1, <2>1 DEF Counting, Places
    <2>3. ~(req[r].at \in Counting /\ AnimeOf(r) = b) => Busies(b) = {}
      BY <2>2 DEF In, Counting
    <2>4. b \notin excused /\ Busies(b) = {} => count[b] = Cardinality(There(b))
      BY DEF CountIsRight
    <2> HIDE DEF Busies
    <2>5. CASE b # a
      BY <1>4, <2>3, <2>4, <2>5
    <2>6. CASE b = a
      <3>1. req'[r].at \notin Counting
        BY <2>1, <2>6
      <3>2. QED
        BY <1>4, <2>3, <2>4, <2>6, <3>1
    <2>7. QED
      BY <2>5, <2>6
  <1>5. CountIsRight'
    BY <1>4 DEF CountIsRight
  <1>6. QED
    BY <1>3, <1>5

-----------------------------------------------------------------------------
(* 5. The steps.                                                           *)

TablesOK ==
    /\ free \in Nat
    /\ episode \in [Episodes -> {"none", "there", "deleted"}]
    /\ count \in [Animes -> Nat]
    /\ excused \subseteq Animes

\* What a step of r leaves of the others.
OthersKept(r) ==
    \A q \in Requests \ {r} :
        /\ req'[q].at = req[q].at
        /\ req[q].at \in Places =>
               /\ req'[q].episode = req[q].episode /\ req'[q].snap = req[q].snap
               /\ req[q].late => req'[q].late

\* The connections a step of r takes or gives back are those it holds.
Balanced(r) == free' + Held(req'[r].at) = free + Held(req[r].at)

LEMMA AnimeOfType ==
  ASSUME Sound, NEW q \in Requests, req[q].at \in Places
  PROVE  AnimeOf(q) \in Animes
  BY SoundType, OwnerType, IdleIsNoPlace DEF AnimeOf, Places

\* A step that leaves episodes and counts alone: the request is new, goes on,
\* or ends; if it gives up a refresh its anime is excused.
LEMMA QuietStep ==
  ASSUME IInv, NEW r \in Requests, Sound', free' \in Nat, OthersKept(r), Balanced(r),
         UNCHANGED <<episode, count>>,
         excused \subseteq excused', excused' \subseteq Animes,
         req'[r].at # "refresh",
         req[r].at \in Counting =>
             AnimeOf(r) \in excused' \/ req'[r].at \in Counting,
         req'[r].at \in Counting => req[r].at \in Counting /\ AnimeOf(r)' = AnimeOf(r)
  PROVE  IInv'
  <1>1. Sound /\ TablesOK
    BY DEF IInv, TypeOK, TablesOK
  <1>2. TablesOK'
    BY <1>1 DEF TablesOK
  <1>3. TypeOK'
    BY <1>2 DEF Sound, TypeOK, TablesOK, Busy, Places
  <1>4. NoneLeaks'
    BY <1>1, <1>2, MoveLeaksNothing, SoundType DEF IInv, OthersKept, Balanced, TablesOK, Sound,
       Busy, Places, Idle
  <1>5. SnapIsFresh' /\ CountIsRight'
    <2>1. \A b : There(b)' = There(b)
      BY DEF There
    <2>2. \A q \in Requests : req[q].at \in Places => AnimeOf(q) \in Animes
      BY <1>1, AnimeOfType
    <2>3. SnapIsFresh /\ CountIsRight
      BY DEF IInv
    <2>4. CASE req[r].at \in Counting
      <3>1. AnimeOf(r) \in Animes
        BY <2>2, <2>4 DEF Counting, Places
      <3>2. QED
        BY <2>1, <2>2, <2>3, <2>4, <3>1, StepKeepsCount DEF OthersKept
    <2>5. CASE req[r].at \notin Counting
      <3>1. CASE Animes = {}
        <4>1. \A q \in Requests : req[q].at \notin Places
          BY <2>2, <3>1
        <4>2. \A q \in Requests : req'[q].at # "refresh"
          BY <4>1 DEF OthersKept, Places
        <4>3. QED
          BY <3>1, <4>2 DEF SnapIsFresh, CountIsRight
      <3>2. CASE Animes # {}
        <4>1. PICK a \in Animes : TRUE
          BY <3>2
        <4>2. QED
          BY <2>1, <2>2, <2>3, <2>5, <4>1, StepKeepsCount DEF OthersKept
      <3>3. QED
        BY <3>1, <3>2
    <2>6. QED
      BY <2>4, <2>5
  <1>6. QED
    BY <1>3, <1>4, <1>5 DEF IInv

LEMMA Replaced ==
  ASSUME Sound, NEW r \in Requests, NEW t, SoundRequest(t) \/ t = Idle,
         req' = [req EXCEPT ![r] = t]
  PROVE  Sound' /\ OthersKept(r) /\ req'[r] = t
  BY DEF Sound, OthersKept, SoundRequest

LEMMA ReplacedLate ==
  ASSUME Sound, NEW r \in Requests, NEW t, SoundRequest(t) \/ t = Idle,
         req' = [Overtaken(r) EXCEPT ![r] = t]
  PROVE  /\ Sound' /\ OthersKept(r) /\ req'[r] = t
         /\ \A q \in Requests \ {r} :
                req[q].at = "refresh" /\ AnimeOf(q) = AnimeOf(r) => req'[q].late
  <1>1. \A q \in Requests \ {r} : req'[q] = Overtaken(r)[q]
    BY OvertakenFacts
  <1>2. req' \in [Requests -> {u \in Busy : SoundRequest(u)} \cup {Idle}] /\ req'[r] = t
    BY OvertakenFacts DEF SoundRequest
  <1>3. QED
    BY <1>1, <1>2, OvertakenFacts DEF Sound, OthersKept

LEMMA ArriveInv == ASSUME IInv, NEW r \in Requests, Arrive(r) PROVE IInv'
  <1>1. PICK k \in Kinds, e \in Episodes : req' = [req EXCEPT ![r] = Request(k, e)]
    BY DEF Arrive
  <1>2. Sound' /\ OthersKept(r) /\ req'[r] = Request(k, e)
    BY <1>1, RequestSound, Replaced DEF IInv
  <1>3. req'[r].at = "wait" /\ req[r].at = "idle"
    BY <1>2, RequestSound DEF Arrive
  <1>4. Balanced(r) /\ free' \in Nat
    BY <1>3 DEF Arrive, Balanced, Held, IInv, TypeOK
  <1>5. QED
    BY <1>2, <1>3, <1>4, QuietStep DEF Arrive, Counting, IInv, TypeOK

LEMMA AcquireInv == ASSUME IInv, NEW r \in Requests, Acquire(r) PROVE IInv'
  <1> DEFINE t == [req[r] EXCEPT !.at = "run"]
  <1>1. SoundRequest(req[r]) /\ req[r].at = "wait"
    BY SoundType DEF Acquire, IInv
  <1>2. SoundRequest(t) /\ t.at = "run"
    <2>1. "run" \in Places /\ "run" \notin {"again", "refresh"}
      BY DEF Places
    <2>2. SoundRequest(t)
      BY <1>1, <2>1, MovedSound
    <2>3. QED
      BY <1>1, <2>2 DEF SoundRequest, Busy
  <1>3. req' = [req EXCEPT ![r] = t]
    BY DEF Acquire
  <1>4. Sound' /\ OthersKept(r) /\ req'[r] = t
    BY <1>2, <1>3, Replaced DEF IInv
  <1>5. Balanced(r) /\ free' \in Nat
    BY <1>1, <1>2, <1>4 DEF Acquire, Balanced, Held, IInv, TypeOK
  <1>6. QED
    BY <1>1, <1>2, <1>4, <1>5, QuietStep DEF Acquire, Counting, IInv, TypeOK

\* A request that ends without the count being written.
LEMMA EndInv ==
  ASSUME IInv, NEW r \in Requests, req[r].at \in Places,
         req' = [req EXCEPT ![r] = Idle], free' = free + Held(req[r].at),
         UNCHANGED <<episode, count>>,
         excused \subseteq excused', excused' \subseteq excused \cup {AnimeOf(r)},
         req[r].at \in Counting => AnimeOf(r) \in excused'
  PROVE  IInv'
  <1>1. Sound' /\ OthersKept(r) /\ req'[r] = Idle
    BY Replaced DEF IInv
  <1>2. req'[r].at = "idle"
    BY <1>1, IdleIsNoPlace
  <1>3. Balanced(r) /\ free' \in Nat
    BY <1>2 DEF Balanced, Held, IInv, TypeOK, Places
  <1>4. AnimeOf(r) \in Animes
    BY AnimeOfType DEF IInv
  <1>5. QED
    BY <1>1, <1>2, <1>3, <1>4, QuietStep DEF Counting, IInv, TypeOK

\* A statement is over and its connection given back.
LEMMA ReturnFacts ==
  ASSUME Sound, NEW r \in Requests, req[r].at = "run",
         NEW t, t = IF Len(req[r].todo) = 1 THEN Idle ELSE Continue(r)
  PROVE  (SoundRequest(t) \/ t = Idle) /\ t.at \in {"wait", "idle"}
  <1>1. SoundRequest(req[r])
    BY SoundType
  <1>2. CASE Len(req[r].todo) = 1
    BY <1>2, IdleIsNoPlace
  <1>3. CASE Len(req[r].todo) # 1
    <2>1. SoundRequest(t) /\ t = [req[r] EXCEPT !.at = "wait", !.todo = Tail(@)]
      BY <1>1, <1>3, ContinuedSound DEF Continue
    <2>2. t.at = "wait"
      BY <1>1, <2>1 DEF SoundRequest, Busy
    <2>3. QED
      BY <2>1, <2>2
  <1>4. QED
    BY <1>2, <1>3

LEMMA ReadInv ==
  ASSUME IInv, NEW r \in Requests, req[r].at = "run", Read(r) PROVE IInv'
  <1> DEFINE t == IF Len(req[r].todo) = 1 THEN Idle ELSE Continue(r)
  <1>1. (SoundRequest(t) \/ t = Idle) /\ t.at \in {"wait", "idle"}
    BY ReturnFacts DEF IInv
  <1>2. req' = [req EXCEPT ![r] = t] /\ free' = free + 1
    BY DEF Read, Return
  <1> HIDE DEF t
  <1>3. Sound' /\ OthersKept(r) /\ req'[r] = t
    BY <1>1, <1>2, Replaced DEF IInv
  <1>4. Balanced(r) /\ free' \in Nat
    BY <1>1, <1>2, <1>3 DEF Balanced, Held, IInv, TypeOK
  <1>5. QED
    BY <1>1, <1>3, <1>4, QuietStep DEF Read, Counting, IInv, TypeOK

\* A step of a request for anime a that writes the count or the episodes of a.
LEMMA LoudStep ==
  ASSUME IInv, NEW r \in Requests, req[r].at \in Places,
         NEW a \in Animes, AnimeOf(r) = a,
         Sound', OthersKept(r), Balanced(r), TablesOK',
         req'[r].at # "refresh",
         req'[r].at \in Counting => AnimeOf(r)' = a,
         \A b \in Animes \ {a} :
             /\ b \in excused => b \in excused'
             /\ count'[b] = count[b] /\ There(b)' = There(b),
         \/ There(a)' = There(a)
         \/ \A q \in Requests \ {r} :
                req[q].at = "refresh" /\ AnimeOf(q) = a => req'[q].late,
         \/ a \in excused'
         \/ req'[r].at \in Counting
         \/ count'[a] = Cardinality(There(a)')
  PROVE  IInv'
  <1>1. Sound /\ TablesOK /\ SnapIsFresh /\ CountIsRight /\ NoneLeaks
    BY DEF IInv, TypeOK, TablesOK
  <1>2. TypeOK'
    BY DEF Sound, TypeOK, TablesOK, Busy, Places
  <1>3. req'[r].at \in Places \cup {"idle"}
    BY IdleIsNoPlace DEF Sound, Busy
  <1>4. NoneLeaks'
    BY <1>1, <1>3, MoveLeaksNothing, SoundType DEF OthersKept, Balanced, TablesOK
  <1>5. \A q \in Requests : req[q].at \in Places => AnimeOf(q) \in Animes
    BY <1>1, AnimeOfType
  <1>6. SnapIsFresh' /\ CountIsRight'
    BY <1>1, <1>5, StepKeepsCount DEF OthersKept, TablesOK
  <1>7. QED
    BY <1>2, <1>4, <1>6 DEF IInv

LEMMA UpdateAnimeInv ==
  ASSUME IInv, NEW r \in Requests, req[r].at = "run", UpdateAnime(r) PROVE IInv'
  <1> DEFINE t == IF Len(req[r].todo) = 1 THEN Idle ELSE Continue(r)
  <1>1. (SoundRequest(t) \/ t = Idle) /\ t.at \in {"wait", "idle"}
    BY ReturnFacts DEF IInv
  <1>2. req' = [req EXCEPT ![r] = t] /\ free' = free + 1 /\ episode' = episode
    BY DEF UpdateAnime, Return
  <1> HIDE DEF t
  <1>3. Sound' /\ OthersKept(r) /\ req'[r] = t
    BY <1>1, <1>2, Replaced DEF IInv
  <1>4. PICK a \in Animes : AnimeOf(r) = a
    BY AnimeOfType DEF IInv, Places
  <1>5. /\ count' = [count EXCEPT ![a] = 0] /\ excused' = excused \cup {a}
        /\ \A b : There(b)' = There(b)
    BY <1>2, <1>4 DEF UpdateAnime, There
  <1>6. Balanced(r) /\ TablesOK'
    BY <1>1, <1>2, <1>3, <1>5 DEF Balanced, Held, IInv, TypeOK, TablesOK
  <1>7. req'[r].at # "refresh" /\ req'[r].at \notin Counting /\ req[r].at \in Places
    BY <1>1, <1>3 DEF Counting, Places
  <1>8. \A b \in Animes \ {a} : (b \in excused => b \in excused') /\ count'[b] = count[b]
    BY <1>5 DEF IInv, TypeOK
  <1>9. QED
    BY <1>3, <1>4, <1>5, <1>6, <1>7, <1>8, LoudStep

\* A step that changes one episode changes no other anime.
LEMMA OneEpisode ==
  ASSUME NEW e \in Episodes, NEW a, Owner[e] = a,
         \A x \in Episodes \ {e} : episode'[x] = episode[x]
  PROVE  \A b : b # a => There(b)' = There(b)
  BY DEF There

LEMMA SoftDeleteInv ==
  ASSUME IInv, NEW r \in Requests, req[r].at = "run", SoftDelete(r) PROVE IInv'
  <1> DEFINE t == IF Len(req[r].todo) = 1 THEN Idle ELSE Continue(r)
  <1>1. (SoundRequest(t) \/ t = Idle) /\ t.at \in {"wait", "idle"}
    BY ReturnFacts DEF IInv
  <1>2. req' = [Overtaken(r) EXCEPT ![r] = t] /\ free' = free + 1 /\ count' = count
    BY DEF SoftDelete, Return
  <1> HIDE DEF t
  <1>3. /\ Sound' /\ OthersKept(r) /\ req'[r] = t
        /\ \A q \in Requests \ {r} :
               req[q].at = "refresh" /\ AnimeOf(q) = AnimeOf(r) => req'[q].late
    BY <1>1, <1>2, ReplacedLate DEF IInv
  <1>4. PICK a \in Animes : AnimeOf(r) = a
    BY AnimeOfType DEF IInv, Places
  <1>5. req[r].episode \in Episodes /\ Owner[req[r].episode] = a
    BY <1>4, SoundType, OwnerType DEF AnimeOf, IInv
  <1>6. /\ episode' \in [Episodes -> {"none", "there", "deleted"}]
        /\ \A x \in Episodes \ {req[r].episode} : episode'[x] = episode[x]
    BY <1>5 DEF SoftDelete, IInv, TypeOK
  <1>7. \A b : b # a => There(b)' = There(b)
    <2>1. PICK e \in Episodes : e = req[r].episode
      BY <1>5
    <2>2. Owner[e] = a /\ \A x \in Episodes \ {e} : episode'[x] = episode[x]
      BY <1>5, <1>6, <2>1
    <2>3. QED
      BY <2>2, OneEpisode
  <1>8. excused' = excused \cup {a}
    BY <1>4 DEF SoftDelete
  <1>9. Balanced(r) /\ TablesOK'
    BY <1>1, <1>2, <1>3, <1>6, <1>8 DEF Balanced, Held, IInv, TypeOK, TablesOK
  <1>10. req'[r].at # "refresh" /\ req'[r].at \notin Counting /\ req[r].at \in Places
    BY <1>1, <1>3 DEF Counting, Places
  <1>11. QED
    BY <1>2, <1>3, <1>4, <1>7, <1>8, <1>9, <1>10, LoudStep

\* The INSERT, whether the request goes on to the refresh or is cut off.
LEMMA InsertedInv ==
  ASSUME IInv, NEW r \in Requests, req[r].at = "run", Head(req[r].todo) = "insert",
         NEW t, t = Idle \/ t = [req[r] EXCEPT !.at = "again"],
         episode' = [episode EXCEPT ![req[r].episode] = IF @ = "none" THEN "there" ELSE @],
         req' = [Overtaken(r) EXCEPT ![r] = t],
         free' = IF t = Idle THEN free + 1 ELSE free,
         count' = count,
         excused' = IF t = Idle THEN excused \cup {AnimeOf(r)} ELSE excused
  PROVE  IInv'
  <1>1. SoundRequest(req[r]) /\ req[r].kind = "import"
    BY SoundType, HeadInsert DEF IInv
  <1> DEFINE u == [req[r] EXCEPT !.at = "again"]
  <1>2. SoundRequest(u) /\ u.at = "again" /\ u.episode = req[r].episode
    <2>1. "again" \in Places
      BY DEF Places
    <2>2. SoundRequest(u)
      BY <1>1, <2>1, MovedSound
    <2>3. QED
      BY <1>1, <2>2 DEF SoundRequest, Busy
  <1>3. t = u \/ t = Idle
    OBVIOUS
  <1> HIDE DEF u
  <1>4. /\ Sound' /\ OthersKept(r) /\ req'[r] = t
        /\ \A q \in Requests \ {r} :
               req[q].at = "refresh" /\ AnimeOf(q) = AnimeOf(r) => req'[q].late
    BY <1>2, <1>3, ReplacedLate DEF IInv
  <1>5. PICK a \in Animes : AnimeOf(r) = a
    BY AnimeOfType DEF IInv, Places
  <1>6. req[r].episode \in Episodes /\ Owner[req[r].episode] = a
    BY <1>5, SoundType, OwnerType DEF AnimeOf, IInv
  <1>7. /\ episode' \in [Episodes -> {"none", "there", "deleted"}]
        /\ \A x \in Episodes \ {req[r].episode} : episode'[x] = episode[x]
    BY <1>6 DEF IInv, TypeOK
  <1>8. \A b : b # a => There(b)' = There(b)
    <2>1. PICK e \in Episodes : e = req[r].episode
      BY <1>6
    <2>2. Owner[e] = a /\ \A x \in Episodes \ {e} : episode'[x] = episode[x]
      BY <1>6, <1>7, <2>1
    <2>3. QED
      BY <2>2, OneEpisode
  <1>9. req[r].at \in Places
    BY DEF Places
  <1>10. CASE t = Idle
    <2>1. Balanced(r) /\ TablesOK'
      BY <1>4, <1>5, <1>7, <1>10, IdleIsNoPlace
      DEF Balanced, Held, IInv, TypeOK, TablesOK
    <2>2. req'[r].at # "refresh" /\ req'[r].at \notin Counting /\ a \in excused'
      BY <1>4, <1>5, <1>10, IdleIsNoPlace DEF Counting
    <2>3. \A b \in Animes \ {a} : b \in excused => b \in excused'
      BY <1>5, <1>10
    <2>4. QED
      BY <1>4, <1>5, <1>8, <1>9, <2>1, <2>2, <2>3, LoudStep
  <1>11. CASE t = u
    <2>1. t # Idle /\ t.at = "again" /\ t.episode = req[r].episode
      BY <1>2, <1>11, IdleIsNoPlace
    <2>2. Balanced(r) /\ TablesOK'
      BY <1>4, <1>7, <2>1 DEF Balanced, Held, IInv, TypeOK, TablesOK
    <2>3. req'[r].at \in Counting /\ req'[r].at # "refresh" /\ AnimeOf(r)' = a
      BY <1>4, <1>5, <2>1 DEF Counting, AnimeOf
    <2>4. excused' = excused
      BY <2>1
    <2>5. QED
      BY <1>4, <1>5, <1>8, <1>9, <2>2, <2>3, <2>4, LoudStep
  <1>12. QED
    BY <1>3, <1>10, <1>11

\* The second connection, and the count read with it.
LEMMA AcquireSecondInv == ASSUME IInv, NEW r \in Requests, AcquireSecond(r) PROVE IInv'
  <1> DEFINE n == Cardinality(There(AnimeOf(r)))
             t == [req[r] EXCEPT !.at = "refresh", !.late = FALSE, !.snap = n]
  <1>1. SoundRequest(req[r]) /\ req[r].at = "again" /\ req[r].kind = "import"
    BY SoundType DEF AcquireSecond, IInv, SoundRequest
  <1>2. n \in Nat
    BY FS_Subset, FS_CardinalityType, TablesAreFinite DEF There
  <1>3. SoundRequest(t) /\ t.at = "refresh" /\ t.snap = n /\ t.episode = req[r].episode
    <2>1. "refresh" \in Places
      BY DEF Places
    <2>2. SoundRequest(t)
      BY <1>1, <1>2, <2>1, MovedSound
    <2>3. QED
      BY <1>1, <2>2 DEF SoundRequest, Busy
  <1>4. req' = [req EXCEPT ![r] = t] /\ UNCHANGED <<episode, count, excused>>
    BY DEF AcquireSecond, Counted
  <1>5. free' + 1 = free /\ free \in Nat /\ free' \in Nat
    BY DEF AcquireSecond, IInv, TypeOK
  <1>6. PICK a \in Animes : AnimeOf(r) = a
    BY <1>1, AnimeOfType DEF IInv, Places
  <1> HIDE DEF t
  <1>7. Sound' /\ OthersKept(r) /\ req'[r] = t
    BY <1>3, <1>4, Replaced DEF IInv
  <1>8. TypeOK'
    BY <1>4, <1>5, <1>7 DEF Sound, TypeOK, Busy, Places, IInv
  <1>9. NoneLeaks'
    <2>1. Held(req[r].at) = 1 /\ Held(req'[r].at) = 2
      BY <1>1, <1>3, <1>7 DEF Held
    <2>2. free' + Held(req'[r].at) = free + Held(req[r].at)
      <3>1. \A m \in Nat, n2 \in Nat : n2 + 1 = m => n2 + 2 = m + 1
        OBVIOUS
      <3>2. free' + 2 = free + 1
        BY <1>5, <3>1
      <3>3. QED
        BY <2>1, <3>2
    <2>3. req[r].at \in Places /\ req'[r].at \in Places
      BY <1>1, <1>3, <1>7 DEF Places
    <2>4. QED
      BY <1>5, <1>7, <2>2, <2>3, MoveLeaksNothing DEF IInv, OthersKept
  <1>10. SnapIsFresh' /\ CountIsRight'
    <2>1. \A b : There(b)' = There(b)
      BY <1>4 DEF There
    <2>2. AnimeOf(r)' = a /\ req'[r].snap = Cardinality(There(a)')
      BY <1>3, <1>6, <1>7, <2>1 DEF AnimeOf
    <2>3. \A q \in Requests : req[q].at \in Places => AnimeOf(q) \in Animes
      BY AnimeOfType DEF IInv
    <2>4. req'[r].at \in Counting
      BY <1>3, <1>7 DEF Counting
    <2>5. excused' \subseteq Animes /\ SnapIsFresh /\ CountIsRight
      BY <1>4 DEF IInv, TypeOK
    <2> HIDE DEF n
    <2>6. QED
      BY <1>4, <1>6, <1>7, <2>1, <2>2, <2>3, <2>4, <2>5, StepKeepsCount DEF OthersKept
  <1>11. QED
    BY <1>7, <1>8, <1>9, <1>10 DEF IInv

\* The count is written, whether the request is answered or cut off.
LEMMA WrittenInv ==
  ASSUME IInv, NEW r \in Requests, req[r].at = "refresh", WriteCount(r),
         free' = free + 2, req' = [req EXCEPT ![r] = Idle], episode' = episode
  PROVE  IInv'
  <1>1. Sound' /\ OthersKept(r) /\ req'[r] = Idle
    BY Replaced DEF IInv
  <1>2. req'[r].at = "idle" /\ req[r].at \in Places
    BY <1>1, IdleIsNoPlace DEF Places
  <1>3. PICK a \in Animes : AnimeOf(r) = a
    BY <1>2, AnimeOfType DEF IInv
  <1>4. /\ count' = [count EXCEPT ![a] = req[r].snap]
        /\ req[r].late => excused' = excused \cup {a}
        /\ ~req[r].late => excused' = excused \ {a}
    BY <1>3 DEF WriteCount
  <1>5. req[r].snap \in Nat /\ req[r].late \in BOOLEAN
    BY <1>2, SoundType, IdleIsNoPlace DEF IInv, Busy
  <1>6. Balanced(r) /\ TablesOK'
    BY <1>2, <1>4, <1>5 DEF Balanced, Held, IInv, TypeOK, TablesOK
  <1>7. \A b : There(b)' = There(b)
    BY DEF There
  <1>8. a \in excused' \/ count'[a] = Cardinality(There(a)')
    <2>1. CASE req[r].late
      BY <1>4, <2>1
    <2>2. CASE ~req[r].late
      <3>1. req[r].snap = Cardinality(There(a))
        BY <1>3, <2>2 DEF IInv, SnapIsFresh
      <3>2. count'[a] = req[r].snap
        BY <1>4 DEF IInv, TypeOK
      <3>3. QED
        BY <1>7, <3>1, <3>2
    <2>3. QED
      BY <2>1, <2>2
  <1>9. \A b \in Animes \ {a} : (b \in excused => b \in excused') /\ count'[b] = count[b]
    BY <1>4, <1>5 DEF IInv, TypeOK
  <1>10. req'[r].at # "refresh" /\ req'[r].at \notin Counting
    BY <1>2 DEF Counting
  <1>11. QED
    BY <1>1, <1>2, <1>3, <1>6, <1>7, <1>8, <1>9, <1>10, LoudStep

LEMMA ExecuteInv == ASSUME IInv, NEW r \in Requests, Execute(r) PROVE IInv'
  <1>1. req[r].at = "run"
    BY DEF Execute
  <1>2. CASE Insert(r)
    <2> DEFINE t == [req[r] EXCEPT !.at = "again"]
    <2>1. t # Idle
      <3>1. SoundRequest(req[r])
        BY <1>1, SoundType DEF IInv
      <3>2. t.at = "again"
        BY <3>1 DEF SoundRequest, Busy
      <3>3. QED
        BY <3>2, IdleIsNoPlace DEF Idle
    <2>2. req' = [Overtaken(r) EXCEPT ![r] = t]
      <3>1. Overtaken(r)[r] = req[r]
        BY OvertakenFacts DEF IInv
      <3>2. QED
        BY <1>2, <3>1 DEF Insert
    <2> HIDE DEF t
    <2>3. t = Idle \/ t = [req[r] EXCEPT !.at = "again"]
      BY DEF t
    <2>4. /\ Head(req[r].todo) = "insert" /\ free' = free /\ count' = count
          /\ excused' = excused
          /\ episode' = [episode EXCEPT ![req[r].episode] =
                             IF @ = "none" THEN "there" ELSE @]
      BY <1>2 DEF Insert
    <2>5. QED
      BY <1>1, <2>1, <2>2, <2>3, <2>4, InsertedInv
  <1>3. CASE UpdateAnime(r)
    BY <1>1, <1>3, UpdateAnimeInv
  <1>4. CASE SoftDelete(r)
    BY <1>1, <1>4, SoftDeleteInv
  <1>5. CASE Read(r)
    BY <1>1, <1>5, ReadInv
  <1>6. QED
    BY <1>2, <1>3, <1>4, <1>5 DEF Execute

LEMMA FailsInv ==
  ASSUME IInv, NEW r \in Requests, ExecuteFails(r) \/ RefreshFails(r) PROVE IInv'
  <1>1. CASE ExecuteFails(r)
    <2>1. Held(req[r].at) = 1 /\ req[r].at \in Places /\ req[r].at \notin Counting
      BY <1>1 DEF ExecuteFails, Held, Places, Counting
    <2>2. QED
      BY <1>1, <2>1, EndInv DEF ExecuteFails
  <1>2. CASE RefreshFails(r)
    <2>1. Held(req[r].at) = 2 /\ req[r].at \in Places
      BY <1>2 DEF RefreshFails, Held, Places
    <2>2. QED
      BY <1>2, <2>1, EndInv DEF RefreshFails
  <1>3. QED
    BY <1>1, <1>2

LEMMA TimeOutInv == ASSUME IInv, NEW r \in Requests, TimeOut(r) PROVE IInv'
  <1>1. req[r].at \in Places /\ free' = free + Held(req[r].at)
    BY SoundType DEF TimeOut, Canceled, IInv
  <1>2. CASE /\ UNCHANGED <<episode, count>>
             /\ excused' = IF req[r].at \in {"again", "refresh"}
                           THEN excused \cup {AnimeOf(r)} ELSE excused
             /\ req' = [req EXCEPT ![r] = Idle]
    BY <1>1, <1>2, EndInv DEF Counting
  <1>3. CASE /\ req[r].at = "refresh"
             /\ WriteCount(r)
             /\ req' = [req EXCEPT ![r] = Idle]
             /\ UNCHANGED episode
    <2>1. free' = free + 2
      BY <1>1, <1>3 DEF Held
    <2>2. QED
      BY <1>3, <2>1, WrittenInv
  <1>4. CASE /\ req[r].at = "run" /\ Head(req[r].todo) = "insert"
             /\ episode' = [episode EXCEPT ![req[r].episode] =
                                IF @ = "none" THEN "there" ELSE @]
             /\ excused' = excused \cup {AnimeOf(r)}
             /\ req' = [Overtaken(r) EXCEPT ![r] = Idle]
             /\ UNCHANGED count
    <2>1. free' = free + 1
      BY <1>1, <1>4 DEF Held
    <2>2. QED
      BY <1>4, <2>1, InsertedInv
  <1>5. QED
    BY <1>2, <1>3, <1>4 DEF TimeOut

LEMMA InitIInv == Init => IInv
  <1> SUFFICES ASSUME Init PROVE IInv
    OBVIOUS
  <1>1. \A r \in Requests : req[r].at = "idle"
    BY IdleIsNoPlace DEF Init
  <1>2. \A places \in {{"run", "again"}, {"refresh"}} : In(places) = {}
    BY <1>1 DEF In
  <1>3. \A a : There(a) = {}
    BY DEF Init, There
  <1>4. TypeOK /\ Sound
    BY PoolIsNotEmpty DEF Init, TypeOK, Sound
  <1>5. NoneLeaks
    BY <1>2, FS_EmptySet, PoolIsNotEmpty DEF Init, NoneLeaks
  <1>6. SnapIsFresh /\ CountIsRight
    BY <1>1, <1>3, FS_EmptySet DEF Init, SnapIsFresh, CountIsRight
  <1>7. QED
    BY <1>4, <1>5, <1>6 DEF IInv

LEMMA NextIInv == IInv /\ [Next]_vars => IInv'
  <1> SUFFICES ASSUME IInv, [Next]_vars PROVE IInv'
    OBVIOUS
  <1>1. ASSUME NEW r \in Requests,
               \/ Arrive(r) \/ Acquire(r) \/ AcquireSecond(r)
               \/ Execute(r) \/ ExecuteFails(r) \/ Refresh(r) \/ RefreshFails(r)
               \/ TimeOut(r)
        PROVE  IInv'
    <2>1. Refresh(r) => IInv'
      BY WrittenInv DEF Refresh
    <2>2. QED
      BY <1>1, <2>1, ArriveInv, AcquireInv, AcquireSecondInv, ExecuteInv, FailsInv,
         TimeOutInv
  <1>2. CASE UNCHANGED vars
    <2>1. \A b : There(b)' = There(b)
      BY <1>2 DEF vars, There
    <2>2. TypeOK' /\ Sound'
      BY <1>2 DEF IInv, TypeOK, Sound, vars
    <2>3. NoneLeaks' /\ SnapIsFresh' /\ CountIsRight'
      BY <1>2 DEF IInv, NoneLeaks, SnapIsFresh, CountIsRight, In, AnimeOf, There, vars
    <2>4. QED
      BY <2>2, <2>3 DEF IInv
  <1>3. QED
    BY <1>1, <1>2 DEF Next

-----------------------------------------------------------------------------
(* 6. The results.                                                         *)

\* The strengthening holds in every state.
THEOREM ConnectionsInductive == Spec => []IInv
  <1>1. QED
    BY InitIInv, NextIInv, PTL DEF Spec

\* The variables of the pool have their types.
THEOREM ConnectionsTypeCorrect == Spec => []TypeOK
  <1>1. IInv => TypeOK
    BY DEF IInv
  <1>2. QED
    BY <1>1, ConnectionsInductive, PTL

\* No connection is lost, however many requests there are and however they end:
\* the pool is as large as it was (db.go:22, episode_repo.go:50).
THEOREM NoConnectionLeaks == Spec => []NoneLeaks
  <1>1. IInv => NoneLeaks
    BY DEF IInv
  <1>2. QED
    BY <1>1, ConnectionsInductive, PTL

\* episodes_count is right for every anime that is not excused and has no
\* import under way, for any number of requests that refresh it in any order
\* (episode_repo.go:46-58).
THEOREM CountedRight == Spec => []CountIsRight
  <1>1. IInv => CountIsRight
    BY DEF IInv
  <1>2. QED
    BY <1>1, ConnectionsInductive, PTL

\* In a pool of any size, only as many imports as it has connections can all
\* wait for each other (episode_repo.go:46).
THEOREM OnlyImportsStall == Spec => []StallTakesImports
  <1>1. IInv => StallTakesImports
    <2> SUFFICES ASSUME IInv, Stalled
                 PROVE  Cardinality({r \in In({"again"}) : req[r].kind = "import"}) >= MaxConns
      BY DEF StallTakesImports
    <2>1. In({"run", "again"}) = {r \in In({"again"}) : req[r].kind = "import"}
      <3>1. \A r \in Requests : req[r].at # "run"
        BY DEF Stalled, In
      <3>2. \A r \in Requests : req[r].at = "again" => req[r].kind = "import"
        BY SoundType DEF IInv, SoundRequest
      <3>3. QED
        BY <3>1, <3>2 DEF In
    <2>2. In({"refresh"}) = {} /\ free = 0
      BY DEF Stalled, In
    <2>3. IsFiniteSet(In({"run", "again"}))
      BY FS_Subset, TablesAreFinite DEF In
    <2>4. Cardinality(In({"run", "again"})) \in Nat
      BY <2>3, FS_CardinalityType
    <2>5. Cardinality(In({"run", "again"})) = MaxConns
      BY <2>2, <2>4, FS_EmptySet, PoolIsNotEmpty DEF IInv, NoneLeaks
    <2>6. QED
      BY <2>1, <2>5, PoolIsNotEmpty, SMTT(30)
  <1>2. QED
    BY <1>1, ConnectionsInductive, PTL

=============================================================================
