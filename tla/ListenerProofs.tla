--------------------------- MODULE ListenerProofs ---------------------------
(***************************************************************************)
(* Proofs about module Listener, for any number of coroutines, messages,   *)
(* animes, numbers and registrations of the channel, any crashes, and      *)
(* whether or not the channel is the storage channel.                      *)
(*                                                                         *)
(* The invariant has three parts.  Posts: what a task is about to import is*)
(* what its message still says, or the message is in raced, and what the   *)
(* API was told to erase is not posted any more.  Storage: every copy in   *)
(* use was made; and where messages are forwarded it has one use, and a    *)
(* copy that a deletion has listed is of no use but to the anime deleted.  *)
(* Contents: the copy a task holds is of what the task will store it as.   *)
(***************************************************************************)
EXTENDS Listener, FiniteSetTheorems, WellFoundedInduction, TLAPS

\* A task that imports a message, or is about to import the next one.
Importing(x) == x.pc \in {"forward", "anime", "relay", "episode"}

\* The copies a task will store; those a deletion has listed.
Held(x) == IF x.pc \in {"anime", "episode"} THEN x.copies ELSE {}
Marked(x) == IF x.pc \in {"list", "purge"} THEN x.copies ELSE {}

\* The messages a task has read and what they said.
Pending(x) == x.batch \cup (IF Importing(x) THEN {<<x.msg, x.text>>} ELSE {})

\* The locals of a task at each call.
Shape(x) ==
    /\ x \in Task
    /\ Importing(x) => x.row # NULL /\ x.msg # NULL /\ x.text # NULL
                       /\ x.text.kind # "other"
    /\ x.pc = "forward" => x.text.kind # "announcement"
    /\ x.pc = "relay" => x.text.kind # "episode"
    /\ x.pc = "anime" => IF x.text.kind = "announcement" THEN x.copies = {}
                         ELSE \E c \in Copies : x.copies = {c}
    /\ x.pc = "episode" => x.number # NULL /\ \E c \in Copies : x.copies = {c}
    /\ x.pc = "episode" /\ x.text.kind = "episode" => x.text.numbers = {x.number}
    /\ x.pc \in {"relay", "episode", "list", "purge", "drop"} => x.anime # NULL
    /\ x.pc = "erase" => x.row # NULL /\ x.msg # NULL
    /\ \A p \in x.batch : p[2].kind # "other"
    /\ x.batch # {} => x.row # NULL

\* What was read of a message is still posted, or the message was raced; in
\* the storage channel it is what the message shows, or that was edited.
Read(p) ==
    /\ post[p[1]] = p[2] \/ p[1] \in raced
    /\ SourceIsStorage => /\ copies[p[1]] # NULL
                          /\ copies[p[1]].shows = p[2] \/ copies[p[1]].edited

Fresh(x) == \A p \in Pending(x) : Read(p)

\* A deleted message stays deleted: its id is not used again.
Withdrawn(m) == m \in posted /\ post[m] = NULL

\* The uses that the deletion of the animes in S may take a copy from.
UsesBy(S) == {<<"episode", k>> : k \in S \X Numbers} \cup {<<"poster", a>> : a \in S}

\* MadeFor, with the raced messages as a parameter.
Explained(copy, title, n, R) ==
    \/ copy.shows = File(title, n)
    \/ copy.link = <<title, n>>
    \/ copy.link = NULL /\ copy.of \in R
    \/ copy.edited

\* A copy stays what it is, or is edited.
Keeps(old, new) ==
    /\ new # NULL /\ new.link = old.link /\ new.of = old.of
    /\ new.edited \/ (new.shows = old.shows /\ new.edited = old.edited)

CopiesKept == \A c \in Copies : copies[c] # NULL => Keeps(copies[c], copies'[c])

\* A task works on an anime that is there, under the title of its message.
OnAnime(x) ==
    /\ x.pc \in {"relay", "episode", "list", "purge", "drop"} => animes[x.anime] # NULL
    /\ x.pc \in {"relay", "episode"} => animes[x.anime].title = x.text.title

\* The copies a task holds are of what it will store them as; those it has
\* marked for deletion are of no use but to its anime.
HandsOK(x) ==
    /\ x.pc = "anime" /\ x.text.kind = "episode"
       => \A c \in x.copies : \A n \in x.text.numbers :
             Explained(copies[c], x.text.title, n, raced)
    /\ x.pc = "episode"
       => \A c \in x.copies : Explained(copies[c], x.text.title, x.number, raced)
    /\ ~SourceIsStorage
       => \A c \in Marked(x) : copies[c] # NULL /\ Uses(c) \subseteq UsesBy({x.anime})

TaskOK(h) ==
    /\ Shape(task[h])
    /\ Fresh(task[h])
    /\ task[h].pc = "erase" => Withdrawn(task[h].msg)
    /\ OnAnime(task[h])
    /\ HandsOK(task[h])

\* Every message of the storage channel is a post of it, and shows it.
PostsAreCopies ==
    SourceIsStorage =>
        \A m \in Messages : /\ m \in posted <=> copies[m] # NULL
                            /\ post[m] # NULL => copies[m].shows = post[m]

Posts ==
    /\ \A m \in Messages : post[m] # NULL => m \in posted
    /\ PostsAreCopies
    /\ \A p \in erased : Withdrawn(p[2])
    /\ ErasureSticks

Storage ==
    /\ \A c \in Copies : copies[c] = NULL => Uses(c) = {}
    /\ ~SourceIsStorage =>
          /\ \A c \in Copies : \A u, v \in Uses(c) : u = v
          /\ \A c \in gone : copies[c] # NULL /\ Uses(c) \subseteq UsesBy(purged)

Contents ==
    \A k \in AnimeIds \X Numbers : episodes[k] # NULL =>
        /\ animes[k[1]] # NULL
        /\ Explained(copies[episodes[k].copy], animes[k[1]].title, k[2], raced)

IInv ==
    /\ Types
    /\ \A h \in Handlers : TaskOK(h)
    /\ Posts
    /\ Storage
    /\ Contents

-----------------------------------------------------------------------------
(* 1. The locals of one task                                               *)

\* A task holds no copy but the message of the storage channel it imports.
HoldsOwn(y) ==
    Held(y) = {} \/ (SourceIsStorage /\ y.pc = "anime" /\ Held(y) = {y.msg})

\* A task moves on from x to y without a copy in its hands.
Continues(x, y) ==
    /\ Shape(y)
    /\ HoldsOwn(y) /\ Marked(y) = {}
    /\ Pending(y) \subseteq Pending(x)
    /\ y.pc \in {"idle", "forward", "anime", "relay"}
    /\ y.pc = "relay" => Importing(x) /\ y.anime = x.anime /\ y.text = x.text

\* A set of numbers has a least one.
LEMMA LeastNumber ==
    ASSUME NEW S \in SUBSET Nat, S # {}
    PROVE  \E n \in S : \A m \in S : n <= m
<1> DEFINE R == {p \in Nat \X Nat : p[1] < p[2]}
<1>1. IsWellFoundedOn(R, Nat)
  BY NatLessThanWellFounded, Zenon DEF OpToRel
<1>2. PICK n \in S : \A m \in S : <<m, n>> \notin R
  <2> HIDE DEF R
  <2> QED
    BY <1>1, WFMin, Zenon
<1>3. \A m \in S : ~ (m < n)
  BY <1>2
<1> QED
  BY <1>3

\* The messages of a batch are taken in the order of their ids.
LEMMA OldestInBatch ==
    ASSUME NEW batch \in SUBSET (Messages \X Texts), batch # {}
    PROVE  (CHOOSE p \in batch : \A q \in batch : p[1] <= q[1]) \in batch
<1> DEFINE ids == {p[1] : p \in batch}
<1>1. ids \in SUBSET Nat /\ ids # {}
  BY MessagesAreNumbered
<1>2. PICK n \in ids : \A m \in ids : n <= m
  <2> HIDE DEF ids
  <2> QED
    BY <1>1, LeastNumber
<1>3. \E p \in batch : \A q \in batch : p[1] <= q[1]
  BY <1>2
<1> QED
  BY <1>3

LEMMA IdleFits ==
    Shape(Idle) /\ Held(Idle) = {} /\ HoldsOwn(Idle) /\ Marked(Idle) = {} /\ Pending(Idle) = {}
BY DEF Shape, Held, HoldsOwn, Marked, Pending, Importing, Idle, Task

LEMMA TextFits ==
    ASSUME NEW t \in Texts
    PROVE  /\ t \in [kind : Kinds, title : Titles, numbers : SUBSET Numbers]
           /\ t # NULL
           /\ t.kind = "episode" => \E n \in Numbers : t.numbers = {n}
BY TextsAreRead, NullIsNothing

\* A message is taken up.
LEMMA ImportFits ==
    ASSUME NEW x \in Task, NEW m \in Messages, NEW t \in Texts, t.kind # "other",
           x.row # NULL, \A p \in x.batch : p[2].kind # "other"
    PROVE  LET y == Import(x, m, t) IN
           /\ Shape(y)
           /\ HoldsOwn(y) /\ Marked(y) = {}
           /\ Pending(y) = x.batch \cup {<<m, t>>}
           /\ y.pc \in {"forward", "anime"}
<1> DEFINE y == Import(x, m, t)
<1>1. PICK pc, todo, own :
         /\ pc = IF t.kind = "announcement" \/ SourceIsStorage THEN "anime" ELSE "forward"
         /\ todo = IF t.kind = "episode" THEN {} ELSE t.numbers
         /\ own = IF t.kind # "announcement" /\ SourceIsStorage THEN {m} ELSE {}
  OBVIOUS
<1>2. y = [x EXCEPT !.pc = pc, !.msg = m, !.text = t, !.number = NULL, !.anime = NULL,
                    !.todo = todo, !.copies = own]
  BY <1>1 DEF Import
<1>3. pc \in {"anime", "forward"} /\ todo \subseteq Numbers /\ own \subseteq Copies
  BY <1>1, TextFits, OneChannelOrTwo
<1> HIDE DEF y
<1>4. /\ y \in Task
      /\ y.pc = pc /\ y.row = x.row /\ y.msg = m /\ y.text = t /\ y.batch = x.batch
      /\ y.copies = own
  BY <1>2, <1>3 DEF Task
<1>5. m # NULL /\ t # NULL /\ (own # {} => m \in Copies)
  BY <1>1, <1>3, NullIsNothing
<1> QED
  BY <1>1, <1>4, <1>5 DEF y, Shape, Held, HoldsOwn, Marked, Pending, Importing

LEMMA NextMessageFits ==
    ASSUME NEW x, Shape(x)
    PROVE  Continues(x, NextMessage(x)) /\ NextMessage(x).pc # "relay"
<1>1. CASE x.batch = {}
  BY <1>1, IdleFits DEF NextMessage, Continues, Idle
<1>2. CASE x.batch # {}
  <2> DEFINE p == CHOOSE p \in x.batch : \A q \in x.batch : p[1] <= q[1]
             z == [x EXCEPT !.batch = @ \ {p}]
  <2>1. p \in x.batch
    BY <1>2, OldestInBatch DEF Shape, Task
  <2>2. /\ p[1] \in Messages /\ p[2] \in Texts /\ p[2].kind # "other"
        /\ p = <<p[1], p[2]>>
    BY <2>1 DEF Shape, Task
  <2>3. z \in Task /\ z.row # NULL /\ z.batch = x.batch \ {p}
    BY <1>2 DEF Shape, Task
  <2>4. NextMessage(x) = Import(z, p[1], p[2])
    BY <1>2 DEF NextMessage
  <2> HIDE DEF z
  <2>5. Pending(Import(z, p[1], p[2])) \subseteq x.batch
    <3> HIDE DEF p
    <3> QED
      BY <2>1, <2>2, <2>3, ImportFits DEF Shape
  <2> HIDE DEF p
  <2> QED
    BY <2>2, <2>3, <2>4, <2>5, ImportFits DEF Continues, Shape, Pending
<1> QED
  BY <1>1, <1>2

\* A link is done with: the next one, or the next message.
LEMMA NextLinkFits ==
    ASSUME NEW x, Shape(x), Importing(x), x.text.kind # "episode", x.anime # NULL,
           NEW rest \in SUBSET Numbers
    PROVE  Continues(x, NextLink(x, rest))
<1>1. CASE rest = {}
  BY <1>1, NextMessageFits DEF NextLink
<1>2. CASE rest # {}
  <2> DEFINE y == [x EXCEPT !.pc = "relay", !.todo = rest, !.number = NULL, !.copies = {}]
  <2>1. NextLink(x, rest) = y
    BY <1>2 DEF NextLink
  <2>2. y \in Task
    BY DEF Shape, Task
  <2>3. /\ y.pc = "relay" /\ y.row = x.row /\ y.msg = x.msg /\ y.text = x.text
        /\ y.batch = x.batch /\ y.anime = x.anime
    BY DEF Shape, Task
  <2> HIDE DEF y
  <2> QED
    BY <2>1, <2>2, <2>3 DEF Continues, Shape, Held, HoldsOwn, Marked, Pending, Importing
<1> QED
  BY <1>1, <1>2

-----------------------------------------------------------------------------
(* 2. What a step leaves alone                                             *)

\* Who uses a copy.
LEMMA Users ==
    ASSUME Types, NEW c
    PROVE  /\ \A k \in AnimeIds \X Numbers :
                 episodes[k] # NULL /\ episodes[k].copy = c => <<"episode", k>> \in Uses(c)
           /\ \A a \in AnimeIds :
                 animes[a] # NULL /\ animes[a].poster = c => <<"poster", a>> \in Uses(c)
           /\ \A h \in Handlers : c \in Held(task[h]) => <<"task", h>> \in Uses(c)
<1>1. DOMAIN episodes = AnimeIds \X Numbers
  BY DEF Types
<1> QED
  BY <1>1 DEF Uses, Held

\* The copies in use were made, and so were those that are marked.
LEMMA UsedCopies ==
    ASSUME IInv
    PROVE  /\ \A h \in Handlers : \A c \in Held(task[h]) : c \in Copies /\ copies[c] # NULL
           /\ \A k \in AnimeIds \X Numbers : episodes[k] # NULL =>
                 episodes[k].copy \in Copies /\ copies[episodes[k].copy] # NULL
<1>1. \A h \in Handlers : \A c \in Held(task[h]) : c \in Copies /\ <<"task", h>> \in Uses(c)
  BY DEF IInv, TaskOK, Shape, Task, Held, Uses
<1>2. DOMAIN episodes = AnimeIds \X Numbers
  BY DEF IInv, Types
<1>3. \A k \in AnimeIds \X Numbers : episodes[k] # NULL =>
         episodes[k].copy \in Copies /\ <<"episode", k>> \in Uses(episodes[k].copy)
  BY <1>2 DEF IInv, Types, EpisodeRow, Uses
<1> QED
  BY <1>1, <1>3 DEF IInv, Storage

\* The file of a video post.
LEMMA TextIsFile ==
    ASSUME NEW t \in Texts, t.kind = "episode", NEW n \in t.numbers
    PROVE  n \in Numbers /\ t.numbers = {n} /\ t = File(t.title, n)
<1>1. t.numbers = {n} /\ n \in Numbers
  BY TextFits
<1> QED
  BY <1>1, TextFits DEF File

\* What a copy is, it is after it was kept.
LEMMA StillExplained ==
    ASSUME NEW old, NEW new, Keeps(old, new), NEW t, NEW n, NEW R, NEW S, R \subseteq S,
           Explained(old, t, n, R)
    PROVE  Explained(new, t, n, S)
BY DEF Keeps, Explained

LEMMA StillRead ==
    ASSUME CopiesKept, Copies = Messages \/ ~SourceIsStorage, NEW p, p[1] \in Messages,
           raced \subseteq raced', Read(p),
           post[p[1]] = p[2] => post'[p[1]] = p[2] \/ p[1] \in raced'
    PROVE  Read(p)'
BY DEF Read, CopiesKept, Keeps

\* No copy is overwritten but by its own edit.
LEMMA CopiesUnchanged == copies' = copies => CopiesKept
BY DEF CopiesKept, Keeps

\* A task that does not move, in a step that deletes no post it works on,
\* overwrites no copy, and gives no marked copy a new use.
LEMMA OtherTask ==
    ASSUME IInv, NEW g \in Handlers, task'[g] = task[g],
           raced \subseteq raced', posted \subseteq posted',
           \A p \in Pending(task[g]) :
               post[p[1]] = p[2] => post'[p[1]] = p[2] \/ p[1] \in raced',
           \A m \in posted : post[m] = NULL => post'[m] = NULL,
           CopiesKept,
           \A a \in AnimeIds : animes[a] # NULL =>
               animes'[a] # NULL /\ animes'[a].title = animes[a].title,
           ~SourceIsStorage => \A c \in Marked(task[g]) : Uses(c)' \subseteq Uses(c)
    PROVE  TaskOK(g)'
<1> DEFINE x == task[g]
<1>1. Shape(x) /\ Fresh(x) /\ (x.pc = "erase" => Withdrawn(x.msg)) /\ OnAnime(x) /\ HandsOK(x)
  BY DEF IInv, TaskOK
<1>2. Shape(task[g])'
  BY <1>1 DEF Shape, Importing
<1>3. Fresh(task[g])'
  <2>1. Pending(task[g])' = Pending(x)
    BY DEF Pending, Importing
  <2>2. \A p \in Pending(x) : p[1] \in Messages
    BY <1>1 DEF Shape, Task, Pending, Importing
  <2>3. \A p \in Pending(x) : Read(p)'
    BY <1>1, <2>2, StillRead, OneChannelOrTwo DEF Fresh
  <2> QED
    BY <2>1, <2>3 DEF Fresh
<1>4. (task[g].pc = "erase" => Withdrawn(task[g].msg))'
  BY <1>1 DEF Withdrawn
<1>5. x.pc \in {"relay", "episode", "list", "purge", "drop"} => x.anime \in AnimeIds
  BY <1>1 DEF Shape, Task
<1>6. OnAnime(task[g])'
  BY <1>1, <1>5 DEF OnAnime
<1>7. \A c \in Held(x) : c \in Copies /\ Keeps(copies[c], copies'[c])
  BY UsedCopies DEF CopiesKept
<1>8. ~SourceIsStorage => \A c \in Marked(x) : c \in Copies /\ copies[c] # NULL /\ copies'[c] # NULL
  BY <1>1 DEF Shape, Task, Marked, HandsOK, CopiesKept, Keeps
<1>9. HandsOK(task[g])'
  <2>1. \A c \in Held(x) : \A t, n : Explained(copies[c], t, n, raced)
                                     => Explained(copies'[c], t, n, raced')
    BY <1>7, StillExplained
  <2>2. Marked(task[g])' = Marked(x)
    BY DEF Marked
  <2>3. ~SourceIsStorage => \A c \in Marked(task[g])' :
           copies'[c] # NULL /\ Uses(c)' \subseteq UsesBy({x.anime})
    BY <1>1, <1>8, <2>2 DEF HandsOK
  <2>4. x.pc \in {"anime", "episode"} => Held(x) = x.copies
    BY DEF Held
  <2>5. x.pc = "anime" /\ x.text.kind = "episode"
        => \A c \in x.copies : \A n \in x.text.numbers :
              Explained(copies'[c], x.text.title, n, raced')
    BY <1>1, <2>1, <2>4 DEF HandsOK
  <2>6. x.pc = "episode" => \A c \in x.copies :
           Explained(copies'[c], x.text.title, x.number, raced')
    BY <1>1, <2>1, <2>4 DEF HandsOK
  <2> QED
    BY <2>3, <2>5, <2>6 DEF HandsOK, Explained, File, Marked
<1> QED
  BY <1>2, <1>3, <1>4, <1>6, <1>9 DEF TaskOK

\* A task that moves on with no copy in its hands but what it is to import.
LEMMA EmptyHands ==
    ASSUME NEW h \in Handlers, NEW y, task'[h] = y,
           Shape(y), HoldsOwn(y), Marked(y) = {},
           \A p \in Pending(y) : Read(p)',
           y.pc = "erase" => y.msg \in posted' /\ post'[y.msg] = NULL,
           y.pc \in {"relay", "drop"} => animes'[y.anime] # NULL,
           y.pc = "relay" => animes'[y.anime].title = y.text.title,
           y.pc \notin {"list", "purge"}
    PROVE  TaskOK(h)'
<1>1. y.pc # "episode"
  BY DEF Shape, Held, HoldsOwn, Importing
<1>2. Shape(task[h])'
  BY DEF Shape, Importing
<1>3. Fresh(task[h])'
  <2>1. Pending(task[h])' = Pending(y)
    BY DEF Pending, Importing
  <2> QED
    BY <2>1 DEF Fresh
<1>4. OnAnime(task[h])'
  BY <1>1 DEF OnAnime
<1>5. ASSUME y.pc = "anime", y.text.kind = "episode", NEW c \in y.copies,
             NEW n \in y.text.numbers
      PROVE  Explained(copies'[c], y.text.title, n, raced')
  <2>1. SourceIsStorage /\ c = y.msg
    BY <1>5 DEF HoldsOwn, Held
  <2>2. <<y.msg, y.text>> \in Pending(y)
    BY <1>5 DEF Pending, Importing
  <2>3. y.text = File(y.text.title, n)
    BY <1>5, TextIsFile DEF Shape, Task, Importing
  <2>4. copies'[c].shows = y.text \/ copies'[c].edited
    BY <2>1, <2>2 DEF Read
  <2> QED
    BY <2>3, <2>4 DEF Explained
<1>6. HandsOK(task[h])'
  <2>1. Marked(task[h])' = {}
    BY DEF Marked
  <2> QED
    BY <1>1, <1>5, <2>1 DEF HandsOK, Explained, File
<1> QED
  BY <1>2, <1>3, <1>4, <1>6 DEF TaskOK, Withdrawn

\* A copy gets no new use, but in the storage channel, where it is made.
NoNewUse(c) == Uses(c)' \subseteq Uses(c) \/ (SourceIsStorage /\ copies'[c] # NULL)

\* It gets none if no episode, poster or task takes it.
LEMMA UsesKept ==
    ASSUME Types, Types', NEW c,
           \A k \in AnimeIds \X Numbers : episodes'[k] # NULL /\ episodes'[k].copy = c
               => episodes[k] # NULL /\ episodes[k].copy = c,
           \A a \in AnimeIds : animes'[a] # NULL /\ animes'[a].poster = c
               => animes[a] # NULL /\ animes[a].poster = c,
           \A g \in Handlers : c \in Held(task'[g])
               => c \in Held(task[g]) \/ (SourceIsStorage /\ copies'[c] # NULL)
    PROVE  NoNewUse(c)
<1>1. DOMAIN episodes = AnimeIds \X Numbers /\ DOMAIN episodes' = AnimeIds \X Numbers
  BY DEF Types
<1>2. CASE SourceIsStorage /\ copies'[c] # NULL
  BY <1>2 DEF NoNewUse
<1>3. CASE \A g \in Handlers : c \in Held(task'[g]) => c \in Held(task[g])
  BY <1>1, <1>3 DEF NoNewUse, Uses, Held
<1> QED
  BY <1>2, <1>3

\* A task takes no copy but what it is to import.
HoldsOn(x, y) ==
    \A c \in Held(y) : c \in Held(x) \/ (SourceIsStorage /\ copies'[c] # NULL)

LEMMA OwnHands ==
    ASSUME NEW x, NEW y, HoldsOwn(y), \A p \in Pending(y) : Read(p)'
    PROVE  HoldsOn(x, y)
<1>1. y.pc = "anime" => <<y.msg, y.text>> \in Pending(y)
  BY DEF Pending, Importing
<1> QED
  BY <1>1 DEF HoldsOwn, HoldsOn, Read

\* If no copy gets a new use, a copy that may be deleted still may.
LEMMA StorageKept ==
    ASSUME IInv, \A c \in Copies : NoNewUse(c), CopiesKept,
           gone' = gone \/ SourceIsStorage, purged \subseteq purged'
    PROVE  Storage'
<1>1. \A c \in Copies : copies'[c] = NULL => Uses(c)' = {}
  BY DEF IInv, Storage, NoNewUse, CopiesKept, Keeps
<1>2. ASSUME ~SourceIsStorage PROVE \A c \in Copies : \A u, v \in Uses(c)' : u = v
  BY <1>2 DEF IInv, Storage, NoNewUse
<1>3. ASSUME ~SourceIsStorage
      PROVE  \A c \in gone' : copies'[c] # NULL /\ Uses(c)' \subseteq UsesBy(purged')
  <2>1. UsesBy(purged) \subseteq UsesBy(purged')
    BY DEF UsesBy
  <2> QED
    BY <1>3, <2>1 DEF IInv, Storage, Types, NoNewUse, CopiesKept, Keeps
<1> QED
  BY <1>1, <1>2, <1>3 DEF Storage, UsesBy

\* A copy that no deletion took may get a new use in the place of its old ones.
LEMMA StorageMoved ==
    ASSUME IInv, NEW d \in Copies, copies'[d] # NULL,
           ~SourceIsStorage => d \notin gone /\ \E u : Uses(d)' \subseteq {u},
           \A c \in Copies : c # d => NoNewUse(c),
           CopiesKept, gone' = gone, purged' = purged
    PROVE  Storage'
<1>1. \A c \in Copies : copies'[c] = NULL => Uses(c)' = {}
  BY DEF IInv, Storage, NoNewUse, CopiesKept, Keeps
<1>2. ASSUME ~SourceIsStorage PROVE \A c \in Copies : \A v, w \in Uses(c)' : v = w
  BY <1>2 DEF IInv, Storage, NoNewUse
<1>3. ASSUME ~SourceIsStorage
      PROVE  \A c \in gone' : copies'[c] # NULL /\ Uses(c)' \subseteq UsesBy(purged')
  BY <1>3 DEF IInv, Storage, Types, NoNewUse, CopiesKept, Keeps
<1> QED
  BY <1>1, <1>2, <1>3 DEF Storage, UsesBy

\* The episodes keep showing what they did.
LEMMA ContentsKept ==
    ASSUME IInv, raced \subseteq raced', CopiesKept,
           \A k \in AnimeIds \X Numbers : episodes'[k] # NULL =>
               episodes[k] # NULL /\ episodes'[k].copy = episodes[k].copy,
           \A a \in AnimeIds : animes[a] # NULL =>
               animes'[a] # NULL /\ animes'[a].title = animes[a].title
    PROVE  Contents'
<1>1. ASSUME NEW k \in AnimeIds \X Numbers, episodes'[k] # NULL
      PROVE  /\ animes'[k[1]] # NULL
             /\ Explained(copies'[episodes'[k].copy], animes'[k[1]].title, k[2], raced')
  <2> DEFINE c == episodes[k].copy
  <2>1. episodes'[k].copy = c /\ c \in Copies /\ Keeps(copies[c], copies'[c])
    BY <1>1, UsedCopies DEF CopiesKept
  <2>2. animes[k[1]] # NULL /\ Explained(copies[c], animes[k[1]].title, k[2], raced)
    BY <1>1 DEF IInv, Contents
  <2>3. animes'[k[1]] # NULL /\ animes'[k[1]].title = animes[k[1]].title
    BY <2>2
  <2> HIDE DEF c
  <2>4. Explained(copies'[c], animes[k[1]].title, k[2], raced')
    BY <2>1, <2>2, StillExplained
  <2> QED
    BY <2>1, <2>3, <2>4
<1> QED
  BY <1>1 DEF Contents, Explained, File

\* What the API erased stays erased if no episode is brought back.
LEMMA PostsKept ==
    ASSUME IInv, episodes' = episodes, erased' = erased, raced \subseteq raced',
           posted \subseteq posted', \A m \in posted : post[m] = NULL => post'[m] = NULL,
           \A m \in Messages : post'[m] # NULL => m \in posted', PostsAreCopies'
    PROVE  Posts'
BY DEF IInv, Posts, Withdrawn, ErasureSticks, Undeleted

LEMMA PostsUnchanged ==
    ASSUME IInv, UNCHANGED <<post, posted, copies, episodes, erased>>, raced \subseteq raced'
    PROVE  Posts'
<1>1. PostsAreCopies'
  BY DEF IInv, Posts, PostsAreCopies
<1>2. \A m \in Messages : post'[m] # NULL => m \in posted'
  BY DEF IInv, Posts
<1> QED
  BY <1>1, <1>2, PostsKept

\* Tasks move on and nothing else changes but the registration of the channel.
LEMMA TasksMove ==
    ASSUME IInv, Types', UNCHANGED <<telegram, animes, episodes, history>>,
           \A g \in Handlers : TaskOK(g)' /\ HoldsOn(task[g], task'[g])
    PROVE  IInv'
<1> USE DEF telegram, history
<1>1. \A c \in Copies : NoNewUse(c)
  BY UsesKept DEF IInv, HoldsOn
<1>2. Storage'
  BY <1>1, StorageKept, CopiesUnchanged
<1>3. Contents' /\ Posts'
  BY ContentsKept, PostsUnchanged, CopiesUnchanged
<1> QED
  BY <1>2, <1>3 DEF IInv

LEMMA InitInv == Init => IInv
<1> SUFFICES ASSUME Init PROVE IInv
  OBVIOUS
<1>1. Types
  BY IdleFits DEF Init, Types, Shape
<1>2. \A h \in Handlers : TaskOK(h)
  BY IdleFits DEF Init, TaskOK, Fresh, OnAnime, HandsOK, Idle
<1>3. Posts /\ Contents
  BY OneChannelOrTwo DEF Init, Posts, PostsAreCopies, Contents, ErasureSticks, Undeleted
<1>4. \A c \in Copies : Uses(c) = {}
  BY DEF Init, Uses, Idle
<1> QED
  BY <1>1, <1>2, <1>3, <1>4 DEF IInv, Storage, Init

-----------------------------------------------------------------------------
(* 3. The steps                                                            *)

\* The task that moves and those that do not.
LEMMA Moved ==
    ASSUME IInv, NEW h \in Handlers, NEW y, Set(h, y)
    PROVE  /\ task'[h] = y
           /\ \A g \in Handlers : g # h => task'[g] = task[g]
           /\ y \in Task => task' \in [Handlers -> Task]
BY DEF IInv, Types, Set

\* Its import goes on to the next link or message.
LEMMA Onward ==
    ASSUME IInv, NEW h \in Handlers, NEW y, Set(h, y), Continues(task[h], y),
           y.pc = "relay" => task[h].pc \in {"relay", "episode"},
           UNCHANGED <<post, copies, raced, animes>>
    PROVE  TaskOK(h)' /\ HoldsOn(task[h], y)
<1>1. Fresh(task[h]) /\ OnAnime(task[h])
  BY DEF IInv, TaskOK
<1>2. task'[h] = y
  BY Moved
<1>3. y.pc = "relay" => animes[y.anime] # NULL /\ animes[y.anime].title = y.text.title
  BY <1>1 DEF Continues, OnAnime
<1>4. \A p \in Pending(y) : Read(p)'
  BY <1>1 DEF Continues, Fresh, Read
<1> QED
  BY <1>2, <1>3, <1>4, EmptyHands, OwnHands DEF Continues

\* A step of one task that no other task sees.
LEMMA OneTaskMoves ==
    ASSUME IInv, NEW h \in Handlers, NEW y, Set(h, y), y \in Task, TaskOK(h)',
           HoldsOn(task[h], y),
           UNCHANGED <<telegram, tables, active, history>>
    PROVE  IInv'
<1> USE DEF telegram, tables, history
<1>1. Types'
  BY Moved DEF IInv, Types
<1>2. \A g \in Handlers : HoldsOn(task[g], task'[g])
  BY Moved DEF HoldsOn
<1>3. \A c \in Copies : NoNewUse(c)
  BY <1>1, <1>2, UsesKept DEF IInv, HoldsOn
<1>4. ASSUME NEW g \in Handlers, g # h PROVE TaskOK(g)'
  <2>1. task'[g] = task[g] /\ \A c \in Marked(task[g]) : c \in Copies
    BY <1>4, Moved DEF IInv, TaskOK, Shape, Task, Marked
  <2> QED
    BY <1>3, <2>1, OtherTask, CopiesUnchanged DEF NoNewUse
<1> QED
  BY <1>1, <1>2, <1>4, TasksMove

LEMMA CallFailsInv == ASSUME IInv, NEW h \in Handlers, CallFails(h) PROVE IInv'
<1> DEFINE x == task[h]
<1>1. Shape(x) /\ x \in Task
  BY DEF IInv, TaskOK, Shape
<1>2. CASE Set(h, Idle)
  <2>1. TaskOK(h)'
    BY <1>2, Moved, IdleFits, EmptyHands DEF Idle
  <2> QED
    BY <1>2, <2>1, IdleFits, OneTaskMoves DEF CallFails, Shape, HoldsOn
<1>3. CASE Set(h, NextMessage(x))
  <2>1. Continues(x, NextMessage(x)) /\ NextMessage(x).pc # "relay"
    BY <1>1, NextMessageFits
  <2>2. TaskOK(h)' /\ HoldsOn(x, NextMessage(x))
    BY <1>3, <2>1, Onward DEF CallFails, telegram, tables, history
  <2> QED
    BY <1>3, <2>1, <2>2, OneTaskMoves DEF CallFails, Continues, Shape
<1>4. CASE /\ x.pc = "relay" \/ (x.pc = "episode" /\ x.text.kind # "episode")
           /\ \E rest \in SUBSET x.todo : Set(h, NextLink(x, rest))
  <2>1. PICK rest \in SUBSET x.todo : Set(h, NextLink(x, rest))
    BY <1>4
  <2>2. x.todo \in SUBSET Numbers
    BY <1>1 DEF Task
  <2>3. Continues(x, NextLink(x, rest))
    BY <1>1, <1>4, <2>2, NextLinkFits DEF Shape, Importing
  <2>4. TaskOK(h)' /\ HoldsOn(x, NextLink(x, rest))
    BY <1>4, <2>1, <2>3, Onward DEF CallFails, telegram, tables, history
  <2> QED
    BY <2>1, <2>3, <2>4, OneTaskMoves DEF CallFails, Continues, Shape
<1> QED
  BY <1>2, <1>3, <1>4 DEF CallFails

LEMMA BackfillInv == ASSUME IInv, NEW h \in Handlers, Backfill(h) PROVE IInv'
<1> DEFINE page == {p \in Messages \X Texts : post[p[1]] = p[2] /\ p[2].kind # "other"}
           x == [Idle EXCEPT !.row = registered, !.batch = page]
           y == NextMessage(x)
<1>1. Set(h, y)
  BY DEF Backfill
<1>2. /\ x \in Task /\ x.pc = "idle" /\ x.row # NULL /\ x.batch = page
  BY DEF Backfill, IInv, Types, Idle, Task
<1>3. Shape(x) /\ Pending(x) = page
  BY <1>2 DEF Shape, Pending, Importing
<1>4. Continues(x, y) /\ y.pc # "relay"
  <2> HIDE DEF x
  <2> QED
    BY <1>3, NextMessageFits
<1>5. ASSUME NEW p \in Pending(y) PROVE Read(p)'
  <2>1. p \in page
    <3> HIDE DEF x, y
    <3> QED
      BY <1>3, <1>4, <1>5 DEF Continues
  <2>2. p[1] \in Messages /\ post[p[1]] = p[2] /\ post[p[1]] # NULL
    BY <2>1, NullIsNothing
  <2>3. SourceIsStorage => copies[p[1]] # NULL /\ copies[p[1]].shows = p[2]
    BY <2>2 DEF IInv, Posts, PostsAreCopies
  <2> QED
    BY <2>2, <2>3 DEF Read, Backfill, telegram
<1> HIDE DEF y
<1>6. TaskOK(h)' /\ HoldsOn(task[h], y)
  BY <1>1, <1>4, <1>5, Moved, EmptyHands, OwnHands DEF Backfill, telegram, Continues
<1> QED
  BY <1>1, <1>4, <1>6, OneTaskMoves DEF Backfill, Continues, Shape

LEMMA RemoveAnimeInv ==
    ASSUME IInv, NEW h \in Handlers, NEW a \in AnimeIds, RemoveAnime(h, a)
    PROVE  IInv'
<1> DEFINE y == [Idle EXCEPT !.pc = "list", !.anime = a,
                             !.copies = {animes[a].poster} \ {NULL}]
<1> USE DEF RemoveAnime, telegram, tables, history
<1>1. Set(h, y)
  OBVIOUS
<1>2. animes[a] \in AnimeRow /\ animes[a] # NULL
  BY DEF Listed, IInv, Types
<1>3. /\ y \in Task /\ y.pc = "list" /\ y.anime = a /\ y.batch = {}
      /\ y.copies = {animes[a].poster} \ {NULL}
  BY <1>2 DEF Idle, Task, AnimeRow
<1> HIDE DEF y
<1>4. Shape(y) /\ Pending(y) = {} /\ Held(y) = {} /\ Marked(y) = y.copies
  BY <1>3, NullIsNothing DEF Shape, Pending, Held, Marked, Importing
<1>5. task'[h] = y
  BY <1>1, Moved
<1>6. Types'
  BY <1>1, <1>3, Moved DEF IInv, Types
<1>7. HoldsOn(task[h], y) /\ \A c \in Copies : NoNewUse(c)
  <2>1. \A g \in Handlers : Held(task'[g]) \subseteq Held(task[g])
    BY <1>1, <1>4, Moved
  <2> QED
    BY <1>4, <1>6, <2>1, UsesKept DEF IInv, HoldsOn
<1>8. ~SourceIsStorage => \A c \in y.copies :
         c \in Copies /\ copies[c] # NULL /\ Uses(c) \subseteq UsesBy({a})
  <2> SUFFICES ASSUME ~SourceIsStorage, NEW c \in y.copies
               PROVE  c \in Copies /\ copies[c] # NULL /\ Uses(c) \subseteq UsesBy({a})
    OBVIOUS
  <2>1. c \in Copies /\ <<"poster", a>> \in Uses(c)
    BY <1>2, <1>3 DEF AnimeRow, Uses
  <2>2. Uses(c) = {<<"poster", a>>} /\ copies[c] # NULL
    BY <2>1 DEF IInv, Storage
  <2> QED
    BY <2>1, <2>2 DEF UsesBy
<1>9. TaskOK(h)'
  <2>1. Shape(task[h])' /\ Fresh(task[h])' /\ OnAnime(task[h])'
    BY <1>2, <1>3, <1>4, <1>5 DEF Shape, Fresh, OnAnime, Pending, Importing
  <2>2. HandsOK(task[h])'
    BY <1>3, <1>4, <1>5, <1>7, <1>8 DEF HandsOK, Marked, UsesBy, NoNewUse
  <2> QED
    BY <1>3, <1>5, <2>1, <2>2 DEF TaskOK
<1> QED
  BY <1>1, <1>3, <1>7, <1>9, OneTaskMoves

\* A task gets a fresh copy in its hands.
LEMMA CopyStored ==
    ASSUME IInv, NEW h \in Handlers, NEW c \in Copies, NEW copy \in Copy,
           Store(c, copy), NEW y, Set(h, y), Shape(y), y.copies = {c},
           Pending(y) \subseteq Pending(task[h]),
           \/ /\ y.pc = "anime"
              /\ y.text.kind = "episode"
                 => \A n \in y.text.numbers : Explained(copy, y.text.title, n, raced)
           \/ /\ y.pc = "episode" /\ Explained(copy, y.text.title, y.number, raced)
              /\ task[h].pc = "relay" /\ y.anime = task[h].anime /\ y.text = task[h].text,
           UNCHANGED <<gone, tables, active, history>>
    PROVE  IInv'
<1> USE DEF tables, history
<1>1. /\ copies[c] = NULL /\ copy # NULL
      /\ copies' = [copies EXCEPT ![c] = copy]
      /\ copies \in [Copies -> Copy \cup {NULL}]
  BY NullIsNoRow DEF Store, IInv, Types
<1>2. /\ copies'[c] = copy /\ copies'[c] # NULL
      /\ \A d \in Copies : d # c => copies'[d] = copies[d]
      /\ CopiesKept
  BY <1>1 DEF CopiesKept, Keeps
<1>3. /\ posted \subseteq posted' /\ posted' \subseteq Messages
      /\ post' \in [Messages -> Texts \cup {NULL}]
      /\ \A m \in posted : m \in Messages /\ post'[m] = post[m]
      /\ \A m \in Messages : post'[m] # NULL => m \in posted'
      /\ PostsAreCopies'
  <2>1. CASE SourceIsStorage
    <3>1. Copies = Messages /\ c \notin posted /\ copy.shows \in Texts
      BY <1>1, <2>1, OneChannelOrTwo DEF IInv, Posts, PostsAreCopies, Copy
    <3>2. post' = [post EXCEPT ![c] = copy.shows] /\ posted' = posted \cup {c}
      BY <2>1 DEF Store
    <3> QED
      BY <1>2, <2>1, <3>1, <3>2 DEF IInv, Types, Posts, PostsAreCopies
  <2>2. CASE ~SourceIsStorage
    BY <2>2 DEF Store, IInv, Types, Posts, PostsAreCopies
  <2> QED
    BY <2>1, <2>2
<1>4. task'[h] = y /\ \A g \in Handlers : g # h => task'[g] = task[g]
  BY Moved
<1>5. Types'
  BY <1>1, <1>3, Moved DEF IInv, Types, Shape
<1>6. /\ Uses(c) = {}
      /\ ~SourceIsStorage => c \notin gone /\ \A g \in Handlers : c \notin Marked(task[g])
  BY <1>1 DEF IInv, Storage, TaskOK, HandsOK
<1>7. Uses(c)' \subseteq {<<"task", h>>}
  <2>1. DOMAIN episodes' = AnimeIds \X Numbers
    BY <1>5 DEF Types
  <2>2. /\ \A k \in AnimeIds \X Numbers : episodes[k] # NULL => episodes[k].copy # c
        /\ \A a \in AnimeIds : animes[a] # NULL => animes[a].poster # c
        /\ \A g \in Handlers : c \notin Held(task[g])
    BY <1>6, Users DEF IInv
  <2> QED
    BY <1>4, <2>1, <2>2 DEF Uses, Held
<1>8. ASSUME NEW d \in Copies, d # c PROVE Uses(d)' \subseteq Uses(d)
  <2>1. \A g \in Handlers : d \in Held(task'[g]) => d \in Held(task[g])
    BY <1>4, <1>8 DEF Held
  <2>2. DOMAIN episodes = AnimeIds \X Numbers /\ DOMAIN episodes' = AnimeIds \X Numbers
    BY <1>5 DEF IInv, Types
  <2> QED
    BY <2>1, <2>2 DEF Uses, Held
<1>9. Storage'
  BY <1>2, <1>6, <1>7, <1>8, StorageMoved DEF NoNewUse
<1>10. Contents' /\ Posts'
  <2>1. Contents'
    BY <1>2, ContentsKept
  <2>2. Posts'
    BY <1>3, PostsKept
  <2> QED
    BY <2>1, <2>2
<1>11. \A g \in Handlers : \A p \in Pending(task[g]) :
          /\ p[1] \in Messages
          /\ post[p[1]] = p[2] => post'[p[1]] = p[2]
  <2> SUFFICES ASSUME NEW g \in Handlers, NEW p \in Pending(task[g])
               PROVE  p[1] \in Messages /\ (post[p[1]] = p[2] => post'[p[1]] = p[2])
    OBVIOUS
  <2>1. Shape(task[g])
    BY DEF IInv, TaskOK
  <2>2. p[1] \in Messages /\ p[2] \in Texts
    BY <2>1 DEF Shape, Task, Pending, Importing
  <2>3. post[p[1]] = p[2] => p[1] \in posted
    BY <2>2, NullIsNothing DEF IInv, Posts
  <2> QED
    BY <1>3, <2>2, <2>3
<1>12. ASSUME NEW g \in Handlers, g # h PROVE TaskOK(g)'
  <2>1. ~SourceIsStorage => \A d \in Marked(task[g]) : Uses(d)' \subseteq Uses(d)
    BY <1>6, <1>8 DEF IInv, TaskOK, Shape, Task, Marked
  <2> QED
    BY <1>2, <1>3, <1>4, <1>11, <1>12, <2>1, OtherTask
<1>13. TaskOK(h)'
  <2>1. Fresh(task[h]) /\ OnAnime(task[h])
    BY DEF IInv, TaskOK
  <2>2. Shape(task[h])'
    BY <1>4 DEF Shape, Importing
  <2>3. Fresh(task[h])'
    <3>1. Pending(task[h])' = Pending(y)
      BY <1>4 DEF Pending, Importing
    <3>2. \A p \in Pending(y) : Read(p)'
      BY <1>2, <1>11, <2>1, StillRead, OneChannelOrTwo DEF Fresh
    <3> QED
      BY <3>1, <3>2 DEF Fresh
  <2>4. OnAnime(task[h])'
    BY <1>4, <2>1 DEF OnAnime
  <2>5. HandsOK(task[h])'
    BY <1>2, <1>4, SMTT(30) DEF HandsOK, Marked, Explained, File
  <2> QED
    BY <1>4, <2>2, <2>3, <2>4, <2>5 DEF TaskOK
<1> QED
  BY <1>5, <1>9, <1>10, <1>12, <1>13 DEF IInv

LEMMA ForwardInv ==
    ASSUME IInv, NEW h \in Handlers, NEW c \in Copies, Forward(h, c)
    PROVE  IInv'
<1> DEFINE x == task[h]
           y == [x EXCEPT !.pc = "anime", !.copies = {c}]
<1>1. Shape(x) /\ x \in Task /\ x.pc = "forward" /\ Fresh(x)
  BY DEF IInv, TaskOK, Shape, Forward
<1>2. x.msg \in Messages /\ x.text \in Texts /\ x.text # NULL /\ x.msg # NULL
  BY <1>1 DEF Shape, Importing, Task
<1>3. post[x.msg] \in Texts /\ (post[x.msg] = x.text \/ x.msg \in raced)
  <2>1. <<x.msg, x.text>> \in Pending(x)
    BY <1>1 DEF Pending, Importing
  <2> QED
    BY <1>1, <1>2, <2>1 DEF Fresh, Read, Forward, IInv, Types
<1>4. /\ y \in Task /\ y.pc = "anime" /\ y.copies = {c} /\ y.text = x.text
      /\ y.msg = x.msg /\ y.row = x.row /\ y.batch = x.batch
  BY <1>1 DEF Task
<1>5. PICK copy : copy = Made(post[x.msg], x.msg, NULL)
  OBVIOUS
<1>6. Set(h, y) /\ Store(c, copy)
  BY <1>5 DEF Forward
<1>7. copy \in Copy /\ copy.shows = post[x.msg] /\ copy.link = NULL /\ copy.of = x.msg
  BY <1>2, <1>3, <1>5 DEF Made, Copy
<1> HIDE DEF y
<1>8. Shape(y) /\ Pending(y) = Pending(x)
  BY <1>1, <1>2, <1>4 DEF Shape, Pending, Importing
<1>9. y.text.kind = "episode"
      => \A n \in y.text.numbers : Explained(copy, y.text.title, n, raced)
  BY <1>2, <1>3, <1>4, <1>7, TextIsFile DEF Explained
<1> QED
  BY <1>4, <1>6, <1>7, <1>8, <1>9, CopyStored DEF Forward

LEMMA RelayInv ==
    ASSUME IInv, NEW h \in Handlers, NEW c \in Copies, NEW n \in Numbers, Relay(h, c, n)
    PROVE  IInv'
<1> DEFINE x == task[h]
           y == [x EXCEPT !.pc = "episode", !.number = n, !.todo = @ \ {n}, !.copies = {c}]
<1>1. Shape(x) /\ x \in Task /\ x.pc = "relay"
  BY DEF IInv, TaskOK, Shape, Relay
<1>2. /\ x.msg \in Messages /\ x.text \in Texts /\ x.text # NULL /\ x.msg # NULL
      /\ x.text.kind # "episode" /\ x.anime # NULL
  BY <1>1 DEF Shape, Importing, Task
<1>3. /\ y \in Task /\ y.pc = "episode" /\ y.copies = {c} /\ y.text = x.text /\ y.anime = x.anime
      /\ y.msg = x.msg /\ y.row = x.row /\ y.batch = x.batch /\ y.number = n
  BY <1>1 DEF Task
<1>4. PICK file \in Videos : Store(c, Fetched(x, n, file))
  BY DEF Relay
<1>5. PICK copy : copy = Fetched(x, n, file)
  OBVIOUS
<1>6. copy \in Copy /\ copy.link = <<x.text.title, n>>
  BY <1>2, <1>5, TextFits DEF Fetched, Made, Copy, Videos
<1>7. Set(h, y) /\ Store(c, copy)
  BY <1>4, <1>5 DEF Relay
<1> HIDE DEF y
<1>8. Shape(y) /\ Pending(y) = Pending(x)
  BY <1>1, <1>2, <1>3, NullIsNothing DEF Shape, Pending, Importing
<1>9. Explained(copy, y.text.title, y.number, raced)
  BY <1>3, <1>6 DEF Explained
<1> QED
  BY <1>1, <1>3, <1>6, <1>7, <1>8, <1>9, CopyStored DEF Relay

\* Where messages are forwarded, a held copy has no other use, and no deletion
\* is about to take it.
LEMMA HeldCopy ==
    ASSUME IInv, NEW h \in Handlers, NEW c \in Held(task[h])
    PROVE  /\ c \in Copies /\ copies[c] # NULL
           /\ ~SourceIsStorage =>
                 /\ Uses(c) = {<<"task", h>>}
                 /\ c \notin gone
                 /\ \A g \in Handlers : c \notin Marked(task[g])
<1>1. c \in Copies /\ copies[c] # NULL
  BY UsedCopies
<1>2. ~SourceIsStorage => Uses(c) = {<<"task", h>>}
  <2>1. <<"task", h>> \in Uses(c)
    BY Users DEF IInv
  <2> QED
    BY <1>1, <2>1 DEF IInv, Storage
<1>3. \A S : <<"task", h>> \notin UsesBy(S)
  BY DEF UsesBy
<1> QED
  BY <1>1, <1>2, <1>3 DEF IInv, Storage, TaskOK, HandsOK

\* The anime is known: its video is stored next, or its links are followed.
LEMMA AfterAnimeFits ==
    ASSUME NEW x, Shape(x), x.pc = "anime", NEW a \in AnimeIds
    PROVE  LET y == AfterAnime(x, a) IN
           /\ Shape(y) /\ Pending(y) \subseteq Pending(x) /\ Marked(y) = {}
           /\ y.pc \in {"idle", "forward", "anime", "relay", "episode"}
           /\ y.pc \in {"relay", "episode"} => y.anime = a /\ y.text = x.text
           /\ IF y.pc = "episode"
              THEN /\ y.copies = x.copies /\ x.text.kind = "episode"
                   /\ y.number \in x.text.numbers
              ELSE HoldsOwn(y)
<1> DEFINE y == AfterAnime(x, a)
<1>1. x \in Task /\ x.text \in Texts /\ a # NULL /\ Importing(x)
  BY NullIsNothing DEF Shape, Task, Importing
<1>2. CASE x.text.kind = "episode"
  <2> DEFINE n == CHOOSE n \in Numbers : n \in x.text.numbers
             z == [x EXCEPT !.pc = "episode", !.anime = a, !.number = n]
  <2>1. x.text.numbers = {n} /\ n \in Numbers
    BY <1>1, <1>2, TextFits
  <2>2. y = z
    BY <1>2 DEF AfterAnime
  <2> HIDE DEF n, y
  <2>3. /\ z \in Task /\ z.pc = "episode" /\ z.anime = a /\ z.number = n /\ z.text = x.text
        /\ z.copies = x.copies /\ z.batch = x.batch /\ z.row = x.row /\ z.msg = x.msg
    BY <1>1, <2>1 DEF Task
  <2>4. n # NULL
    BY <2>1, NullIsNothing
  <2> HIDE DEF z
  <2> QED
    BY <1>1, <1>2, <2>1, <2>2, <2>3, <2>4 DEF y, Shape, Pending, Importing, Marked
<1>3. CASE x.text.kind # "episode"
  <2> DEFINE z == [x EXCEPT !.anime = a]
  <2>1. y = NextLink(z, x.todo)
    BY <1>3 DEF AfterAnime
  <2>2. /\ z \in Task /\ z.pc = "anime" /\ z.anime = a /\ z.text = x.text /\ z.copies = x.copies
        /\ z.batch = x.batch /\ z.row = x.row /\ z.msg = x.msg
    BY <1>1 DEF Shape, Task
  <2> HIDE DEF z, y
  <2>3. Shape(z) /\ Importing(z) /\ Pending(z) = Pending(x)
    BY <1>1, <2>2 DEF Shape, Importing, Pending
  <2>4. Continues(z, NextLink(z, x.todo))
    BY <1>1, <1>3, <2>2, <2>3, NextLinkFits DEF Task
  <2> QED
    BY <2>1, <2>2, <2>3, <2>4 DEF y, Continues
<1> QED
  BY <1>2, <1>3

\* What UpsertAnime does to the rows: one has the title of the message then,
\* and at most that one takes a poster, from the task.
LEMMA UpsertAnimeRows ==
    ASSUME IInv, NEW h \in Handlers, NEW a \in AnimeIds, UpsertAnime(h, a)
    PROVE  /\ animes' \in [AnimeIds -> AnimeRow \cup {NULL}]
           /\ animes'[a] # NULL /\ animes'[a].title = task[h].text.title
           /\ \A b \in AnimeIds : animes[b] # NULL =>
                 animes'[b] # NULL /\ animes'[b].title = animes[b].title
           /\ \A b \in AnimeIds : animes'[b] # NULL /\ animes'[b].poster # NULL =>
                 \/ animes[b] # NULL /\ animes[b].poster = animes'[b].poster
                 \/ /\ b = a /\ task[h].text.kind = "poster"
                    /\ animes'[b].poster \in task[h].copies
<1> DEFINE x == task[h]
<1>1. x.text \in Texts /\ x.pc = "anime" /\ animes \in [AnimeIds -> AnimeRow \cup {NULL}]
  BY DEF IInv, TaskOK, Types, Shape, Importing, Task, UpsertAnime
<1>2. CASE /\ a \in Titled(x.text.title)
           /\ animes' = [animes EXCEPT ![a].poster =
                 IF x.text.kind = "poster" THEN CHOOSE c \in Copies : c \in x.copies ELSE @]
  <2>1. animes[a] \in AnimeRow /\ animes[a] # NULL /\ animes[a].title = x.text.title
    BY <1>1, <1>2 DEF Titled, Listed
  <2>2. x.text.kind = "poster" => \E c \in Copies : c \in x.copies
    BY <1>1 DEF IInv, TaskOK, Shape
  <2>3. PICK p : p = IF x.text.kind = "poster" THEN CHOOSE c \in Copies : c \in x.copies
                     ELSE animes[a].poster
    OBVIOUS
  <2>4. p \in Copies \cup {NULL} /\ (x.text.kind = "poster" => p \in x.copies)
    BY <2>1, <2>2, <2>3 DEF AnimeRow
  <2>5. animes' = [animes EXCEPT ![a].poster = p]
    BY <1>2, <2>3
  <2>6. PICK r : r = [animes[a] EXCEPT !.poster = p]
    OBVIOUS
  <2>7. r \in AnimeRow /\ r # NULL /\ r.title = x.text.title /\ r.poster = p
    BY <2>1, <2>4, <2>6, NullIsNoRow DEF AnimeRow
  <2>8. animes' = [animes EXCEPT ![a] = r]
    BY <2>5, <2>6
  <2> QED
    BY <1>1, <2>1, <2>3, <2>4, <2>7, <2>8
<1>3. CASE /\ animes[a] = NULL
           /\ animes' = [animes EXCEPT ![a] =
                  [title |-> x.text.title, poster |-> NULL, deleted |-> FALSE]]
  <2>1. PICK r : r = [title |-> x.text.title, poster |-> NULL, deleted |-> FALSE]
    OBVIOUS
  <2>2. x.text.title \in Titles
    BY <1>1, TextFits
  <2>3. r \in AnimeRow /\ r.title = x.text.title /\ r.poster = NULL
    BY <2>1, <2>2 DEF AnimeRow
  <2>4. r # NULL
    BY <2>3, NullIsNoRow
  <2> QED
    BY <1>1, <1>3, <2>1, <2>3, <2>4
<1> QED
  BY <1>2, <1>3 DEF UpsertAnime

LEMMA UpsertAnimeInv ==
    ASSUME IInv, NEW h \in Handlers, NEW a \in AnimeIds, UpsertAnime(h, a)
    PROVE  IInv'
<1> DEFINE x == task[h]
           y == AfterAnime(x, a)
<1> USE DEF telegram, history
<1>1. Shape(x) /\ x.pc = "anime" /\ Set(h, y)
  BY DEF IInv, TaskOK, UpsertAnime
<1>2. UNCHANGED <<telegram, episodes, registered, retired, active, history>>
  BY DEF UpsertAnime
<1>3. /\ animes' \in [AnimeIds -> AnimeRow \cup {NULL}]
      /\ \A b \in AnimeIds : animes[b] # NULL =>
            animes'[b] # NULL /\ animes'[b].title = animes[b].title
  BY UpsertAnimeRows
<1>4. /\ Shape(y) /\ Pending(y) \subseteq Pending(x) /\ Marked(y) = {}
      /\ y.pc \in {"idle", "forward", "anime", "relay", "episode"}
      /\ y.pc \in {"relay", "episode"} => y.anime = a /\ y.text = x.text
      /\ IF y.pc = "episode" THEN /\ y.copies = x.copies /\ x.text.kind = "episode"
                                  /\ y.number \in x.text.numbers
                             ELSE HoldsOwn(y)
  BY <1>1, AfterAnimeFits
<1> HIDE DEF y
<1>5. task'[h] = y /\ \A g \in Handlers : g # h => task'[g] = task[g]
  BY <1>1, Moved
<1>6. Types'
  BY <1>1, <1>2, <1>3, <1>4, Moved DEF IInv, Types, Shape
<1>7. \A p \in Pending(y) : Read(p)'
  BY <1>2, <1>4 DEF IInv, TaskOK, Fresh, Read
<1>8. HoldsOn(x, y)
  BY <1>1, <1>4, <1>7, OwnHands DEF Held, HoldsOn
<1>9. ASSUME NEW c \in Copies, ~(x.text.kind = "poster" /\ c \in x.copies)
      PROVE  NoNewUse(c)
  <2>1. \A b \in AnimeIds : animes'[b] # NULL /\ animes'[b].poster = c =>
           animes[b] # NULL /\ animes[b].poster = c
    BY <1>9, UpsertAnimeRows, NullIsNothing
  <2>2. \A g \in Handlers : c \in Held(task'[g])
           => c \in Held(task[g]) \/ (SourceIsStorage /\ copies'[c] # NULL)
    BY <1>5, <1>8 DEF HoldsOn
  <2> QED
    BY <1>2, <1>6, <2>1, <2>2, UsesKept DEF IInv
<1>10. ASSUME NEW c \in Copies, x.text.kind = "poster", c \in x.copies
       PROVE  /\ copies[c] # NULL
              /\ ~SourceIsStorage => /\ Uses(c)' \subseteq {<<"poster", a>>} /\ c \notin gone
                                     /\ \A g \in Handlers : c \notin Marked(task[g])
  <2>1. c \in Held(x)
    BY <1>1, <1>10 DEF Held
  <2>2. /\ copies[c] # NULL
        /\ ~SourceIsStorage => /\ Uses(c) = {<<"task", h>>} /\ c \notin gone
                               /\ \A g \in Handlers : c \notin Marked(task[g])
    BY <2>1, HeldCopy
  <2>3. ASSUME ~SourceIsStorage PROVE Uses(c)' \subseteq {<<"poster", a>>}
    <3>1. Held(y) = {}
      BY <1>4, <1>10, <2>3 DEF HoldsOwn
    <3>2. /\ \A k : <<"episode", k>> \notin Uses(c)
          /\ \A b : <<"poster", b>> \notin Uses(c)
          /\ \A g : <<"task", g>> \in Uses(c) => g = h
      BY <2>2, <2>3
    <3>3. /\ \A k \in AnimeIds \X Numbers : episodes[k] # NULL => episodes[k].copy # c
          /\ \A b \in AnimeIds : animes[b] # NULL => animes[b].poster # c
          /\ \A g \in Handlers : g # h => c \notin Held(task[g])
      BY <3>2, Users DEF IInv
    <3>4. \A b \in AnimeIds : animes'[b] # NULL /\ animes'[b].poster = c => b = a
      BY <3>3, UpsertAnimeRows, NullIsNothing
    <3>5. DOMAIN episodes' = AnimeIds \X Numbers
      BY <1>6 DEF Types
    <3>6. \A g \in Handlers : c \notin Held(task'[g])
      BY <1>5, <3>1, <3>3
    <3> QED
      BY <1>2, <3>3, <3>4, <3>5, <3>6 DEF Uses, Held
  <2> QED
    BY <2>2, <2>3
<1>11. Storage'
  <2>1. CASE x.text.kind = "poster"
    <3>1. PICK c \in Copies : x.copies = {c}
      BY <1>1, <2>1 DEF Shape
    <3>2. /\ copies'[c] # NULL
          /\ ~SourceIsStorage => Uses(c)' \subseteq {<<"poster", a>>} /\ c \notin gone
          /\ \A d \in Copies : c # d => NoNewUse(d)
      BY <1>2, <1>9, <1>10, <2>1, <3>1
    <3> QED
      BY <1>2, <3>2, StorageMoved, CopiesUnchanged
  <2>2. CASE x.text.kind # "poster"
    <3>1. \A c \in Copies : NoNewUse(c)
      BY <1>9, <2>2
    <3> QED
      BY <1>2, <3>1, StorageKept, CopiesUnchanged
  <2> QED
    BY <2>1, <2>2
<1>12. Contents' /\ Posts'
  BY <1>2, <1>3, ContentsKept, PostsUnchanged, CopiesUnchanged
<1>13. ASSUME NEW g \in Handlers, g # h PROVE TaskOK(g)'
  <2>1. \A c \in Marked(task[g]) : c \in Copies
    BY DEF IInv, TaskOK, Shape, Task, Marked
  <2>2. ~SourceIsStorage => \A c \in Marked(task[g]) : Uses(c)' \subseteq Uses(c)
    BY <1>9, <1>10, <2>1 DEF NoNewUse
  <2> QED
    BY <1>2, <1>3, <1>5, <1>13, <2>2, OtherTask, CopiesUnchanged
<1>14. TaskOK(h)'
  <2>1. HandsOK(x)
    BY DEF IInv, TaskOK
  <2>2. animes'[a] # NULL /\ animes'[a].title = x.text.title
    BY UpsertAnimeRows
  <2>3. CASE y.pc # "episode"
    BY <1>2, <1>4, <1>5, <1>7, <2>2, <2>3, EmptyHands
  <2>4. CASE y.pc = "episode"
    <3>1. Shape(task[h])'
      BY <1>4, <1>5 DEF Shape, Importing
    <3>2. Fresh(task[h])'
      <4>1. Pending(task[h])' = Pending(y)
        BY <1>5 DEF Pending, Importing
      <4> QED
        BY <1>7, <4>1 DEF Fresh
    <3>3. OnAnime(task[h])'
      BY <1>4, <1>5, <2>2, <2>4 DEF OnAnime
    <3>4. \A c \in y.copies : Explained(copies[c], y.text.title, y.number, raced)
      BY <1>1, <1>4, <2>1, <2>4 DEF HandsOK
    <3>5. HandsOK(task[h])'
      BY <1>2, <1>5, <2>4, <3>4 DEF HandsOK, Marked, Explained, File
    <3> QED
      BY <1>5, <2>4, <3>1, <3>2, <3>3, <3>5 DEF TaskOK
  <2> QED
    BY <2>3, <2>4
<1> QED
  BY <1>6, <1>11, <1>12, <1>13, <1>14 DEF IInv

\* The row of the episode takes the copy; a row that is there keeps the rest.
LEMMA UpsertEpisodeRow ==
    ASSUME IInv, NEW h \in Handlers, NEW c \in Copies, UpsertEpisode(h, c)
    PROVE  LET x == task[h]
               k == <<x.anime, x.number>> IN
           /\ k \in AnimeIds \X Numbers
           /\ \E r \in EpisodeRow :
                 /\ r # NULL /\ r.copy = c
                 /\ episodes' = [episodes EXCEPT ![k] = r]
                 /\ \/ /\ episodes[k] # NULL
                       /\ r.row = episodes[k].row /\ r.msg = episodes[k].msg
                       /\ r.link = episodes[k].link /\ r.deleted = episodes[k].deleted
                    \/ r.row = x.row /\ r.msg = x.msg
<1> DEFINE x == task[h]
           k == <<x.anime, x.number>>
<1>1. /\ x \in Task /\ x.anime \in AnimeIds /\ x.number \in Numbers
      /\ x.row \in Rows /\ x.msg \in Messages
  BY DEF IInv, TaskOK, Shape, Importing, Task, UpsertEpisode
<1>2. k \in AnimeIds \X Numbers /\ episodes \in [AnimeIds \X Numbers -> EpisodeRow \cup {NULL}]
  BY <1>1 DEF IInv, Types
<1>3. CASE episodes[k] # NULL /\ episodes' = [episodes EXCEPT ![k] = Reimported(@, c)]
  <2>1. PICK r : r = Reimported(episodes[k], c)
    OBVIOUS
  <2>2. episodes[k] \in EpisodeRow
    BY <1>2, <1>3
  <2>3. /\ r \in EpisodeRow /\ r.copy = c
        /\ r.row = episodes[k].row /\ r.msg = episodes[k].msg
        /\ r.link = episodes[k].link /\ r.deleted = episodes[k].deleted
    <3> HIDE DEF k
    <3> QED
      BY <2>1, <2>2 DEF Reimported, EpisodeRow
  <2>4. r # NULL
    BY <2>3, NullIsNoRow
  <2>5. episodes' = [episodes EXCEPT ![k] = r]
    BY <1>3, <2>1
  <2> QED
    BY <1>2, <1>3, <2>3, <2>4, <2>5
<1>4. CASE episodes' = [episodes EXCEPT ![k] =
              [row |-> x.row, msg |-> x.msg, link |-> Link(x), copy |-> c, deleted |-> FALSE]]
  <2>1. PICK r : r = [row |-> x.row, msg |-> x.msg, link |-> Link(x),
                      copy |-> c, deleted |-> FALSE]
    OBVIOUS
  <2>2. r \in EpisodeRow /\ r.copy = c /\ r.row = x.row /\ r.msg = x.msg
    BY <1>1, <2>1 DEF EpisodeRow, Link
  <2>3. r # NULL
    BY <2>2, NullIsNoRow
  <2> QED
    BY <1>2, <1>4, <2>1, <2>2, <2>3
<1> QED
  BY <1>3, <1>4 DEF UpsertEpisode

LEMMA AfterEpisodeFits ==
    ASSUME NEW x, Shape(x), x.pc = "episode"
    PROVE  Continues(x, AfterEpisode(x))
<1>1. CASE x.text.kind = "episode"
  BY <1>1, NextMessageFits DEF AfterEpisode
<1>2. CASE x.text.kind # "episode"
  BY <1>2, NextLinkFits DEF AfterEpisode, Shape, Importing, Task
<1> QED
  BY <1>1, <1>2

LEMMA UpsertEpisodeInv ==
    ASSUME IInv, NEW h \in Handlers, NEW c \in Copies, UpsertEpisode(h, c)
    PROVE  IInv'
<1> DEFINE x == task[h]
           k == <<x.anime, x.number>>
           y == AfterEpisode(x)
<1> USE DEF telegram, history
<1>1. Shape(x) /\ x.pc = "episode" /\ c \in Held(x) /\ Set(h, y)
  BY DEF IInv, TaskOK, UpsertEpisode, Held
<1>2. UNCHANGED <<telegram, animes, registered, retired, active, history>>
  BY DEF UpsertEpisode
<1>3. k \in AnimeIds \X Numbers
  BY UpsertEpisodeRow
<1>4. PICK r \in EpisodeRow :
         /\ r # NULL /\ r.copy = c
         /\ episodes' = [episodes EXCEPT ![k] = r]
         /\ \/ /\ episodes[k] # NULL
               /\ r.row = episodes[k].row /\ r.msg = episodes[k].msg
               /\ r.link = episodes[k].link /\ r.deleted = episodes[k].deleted
            \/ r.row = x.row /\ r.msg = x.msg
  BY UpsertEpisodeRow
<1>5. Continues(x, y)
  BY <1>1, AfterEpisodeFits
<1>6. k[1] = x.anime /\ k[2] = x.number
  OBVIOUS
<1> HIDE DEF k, y
<1>7. task'[h] = y /\ \A g \in Handlers : g # h => task'[g] = task[g]
  BY <1>1, Moved
<1>8. /\ episodes' \in [AnimeIds \X Numbers -> EpisodeRow \cup {NULL}]
      /\ episodes'[k] = r
      /\ \A j \in AnimeIds \X Numbers : j # k => episodes'[j] = episodes[j]
  BY <1>3, <1>4 DEF IInv, Types
<1>9. Types'
  BY <1>1, <1>2, <1>5, <1>8, Moved DEF IInv, Types, Continues, Shape
<1>10. /\ c \in Copies /\ copies[c] # NULL
       /\ ~SourceIsStorage => /\ Uses(c) = {<<"task", h>>} /\ c \notin gone
                              /\ \A g \in Handlers : c \notin Marked(task[g])
  BY <1>1, HeldCopy
<1>11. TaskOK(h)' /\ HoldsOn(x, y)
  BY <1>1, <1>2, <1>5, Onward
<1>12. ASSUME ~SourceIsStorage PROVE Uses(c)' \subseteq {<<"episode", k>>}
  <2>1. /\ \A j : <<"episode", j>> \notin Uses(c)
        /\ \A b : <<"poster", b>> \notin Uses(c)
        /\ \A g : <<"task", g>> \in Uses(c) => g = h
    BY <1>10, <1>12
  <2>2. /\ \A j \in AnimeIds \X Numbers : episodes[j] # NULL => episodes[j].copy # c
        /\ \A b \in AnimeIds : animes[b] # NULL => animes[b].poster # c
        /\ \A g \in Handlers : g # h => c \notin Held(task[g])
    BY <2>1, Users DEF IInv
  <2>3. \A g \in Handlers : c \notin Held(task'[g])
    BY <1>5, <1>7, <1>12, <2>2 DEF Continues, HoldsOwn
  <2>4. DOMAIN episodes' = AnimeIds \X Numbers
    BY <1>8
  <2> QED
    BY <1>2, <1>8, <2>2, <2>3, <2>4 DEF Uses, Held
<1>13. ASSUME NEW d \in Copies, d # c PROVE NoNewUse(d)
  <2>1. \A j \in AnimeIds \X Numbers : episodes'[j] # NULL /\ episodes'[j].copy = d =>
           episodes[j] # NULL /\ episodes[j].copy = d
    BY <1>4, <1>8, <1>13
  <2>2. \A g \in Handlers : d \in Held(task'[g])
           => d \in Held(task[g]) \/ (SourceIsStorage /\ copies'[d] # NULL)
    BY <1>7, <1>11 DEF HoldsOn
  <2> QED
    BY <1>2, <1>9, <2>1, <2>2, UsesKept DEF IInv
<1>14. Storage'
  BY <1>2, <1>10, <1>12, <1>13, StorageMoved, CopiesUnchanged
<1>15. Fresh(x) /\ OnAnime(x) /\ HandsOK(x)
  BY DEF IInv, TaskOK
<1>16. Contents'
  <2>1. animes[k[1]] # NULL /\ animes[k[1]].title = x.text.title
    BY <1>1, <1>6, <1>15 DEF OnAnime
  <2>2. Explained(copies[c], animes[k[1]].title, k[2], raced)
    BY <1>1, <1>6, <1>15, <2>1 DEF HandsOK, Held
  <2>3. \A j \in AnimeIds \X Numbers : episodes'[j] # NULL =>
           /\ animes[j[1]] # NULL
           /\ Explained(copies[episodes'[j].copy], animes[j[1]].title, j[2], raced)
    BY <1>4, <1>8, <2>1, <2>2 DEF IInv, Contents
  <2> QED
    BY <1>2, <2>3 DEF Contents, Explained, File
<1>17. Posts'
  <2>1. x.msg \in Messages /\ x.text # NULL /\ <<x.msg, x.text>> \in Pending(x)
    BY <1>1 DEF Shape, Importing, Pending, Task
  <2>2. <<x.row, x.msg>> \in erased => x.msg \in raced
    BY <1>15, <2>1 DEF IInv, Posts, Withdrawn, Fresh, Read
  <2>3. \A j \in AnimeIds \X Numbers : Undeleted(j)' /\ episodes'[j].link = NULL
           => <<episodes'[j].row, episodes'[j].msg>> \notin erased \/ episodes'[j].msg \in raced
    <3> TAKE j \in AnimeIds \X Numbers
    <3>1. CASE j # k
      BY <1>8, <3>1 DEF IInv, Posts, ErasureSticks, Undeleted, Types
    <3>2. CASE j = k
      BY <1>4, <1>8, <2>2, <3>2 DEF IInv, Posts, ErasureSticks, Undeleted, Types
    <3> QED
      BY <3>1, <3>2
  <2> QED
    BY <1>2, <1>8, <2>3 DEF IInv, Posts, PostsAreCopies, ErasureSticks, Withdrawn, Undeleted
<1>18. ASSUME NEW g \in Handlers, g # h PROVE TaskOK(g)'
  <2>1. \A d \in Marked(task[g]) : d \in Copies
    BY DEF IInv, TaskOK, Shape, Task, Marked
  <2>2. ~SourceIsStorage => \A d \in Marked(task[g]) : Uses(d)' \subseteq Uses(d)
    BY <1>10, <1>13, <2>1 DEF NoNewUse
  <2> QED
    BY <1>2, <1>7, <1>18, <2>2, OtherTask, CopiesUnchanged
<1> QED
  BY <1>9, <1>11, <1>14, <1>16, <1>17, <1>18 DEF IInv

\* Rows of episodes are rewritten and keep their copies.
LEMMA EpisodesRewritten ==
    ASSUME IInv, Types', UNCHANGED <<telegram, animes, raced, purged>>,
           \A k \in AnimeIds \X Numbers : episodes'[k] # NULL =>
               episodes[k] # NULL /\ episodes'[k].copy = episodes[k].copy,
           \A g \in Handlers : Held(task'[g]) \subseteq Held(task[g])
    PROVE  Storage' /\ Contents' /\ \A c \in Copies : NoNewUse(c)
<1> USE DEF telegram
<1>1. \A c \in Copies : NoNewUse(c)
  BY UsesKept DEF IInv
<1>2. Storage'
  BY <1>1, StorageKept, CopiesUnchanged
<1>3. Contents'
  BY ContentsKept, CopiesUnchanged
<1> QED
  BY <1>1, <1>2, <1>3

LEMMA EraseInv == ASSUME IInv, NEW h \in Handlers, Erase(h) PROVE IInv'
<1> DEFINE x == task[h]
           hit(k) == /\ episodes[k] # NULL /\ episodes[k].row = x.row
                     /\ episodes[k].msg = x.msg /\ episodes[k].link = NULL
<1> USE DEF telegram
<1>1. /\ Shape(x) /\ x.pc = "erase" /\ x.row \in Rows /\ x.msg \in Messages
      /\ Withdrawn(x.msg) /\ Set(h, Idle)
  BY DEF IInv, TaskOK, Shape, Task, Erase
<1>2. /\ erased' = erased \cup {<<x.row, x.msg>>}
      /\ UNCHANGED <<telegram, animes, registered, retired, active, raced, purged>>
  BY DEF Erase
<1>3. /\ DOMAIN episodes' = AnimeIds \X Numbers
      /\ episodes' = [k \in AnimeIds \X Numbers |-> episodes'[k]]
      /\ \A k \in AnimeIds \X Numbers :
            episodes'[k] = IF hit(k) THEN [episodes[k] EXCEPT !.deleted = TRUE] ELSE episodes[k]
  BY DEF Erase, IInv, Types
<1>4. \A k \in AnimeIds \X Numbers :
         /\ episodes'[k] \in EpisodeRow \cup {NULL}
         /\ episodes'[k] # NULL <=> episodes[k] # NULL
         /\ episodes[k] # NULL =>
               /\ episodes'[k].copy = episodes[k].copy /\ episodes'[k].row = episodes[k].row
               /\ episodes'[k].msg = episodes[k].msg /\ episodes'[k].link = episodes[k].link
               /\ episodes'[k].deleted = (hit(k) \/ episodes[k].deleted)
  <2> TAKE k \in AnimeIds \X Numbers
  <2>1. episodes[k] \in EpisodeRow \cup {NULL}
    BY DEF IInv, Types
  <2>2. CASE hit(k)
    <3>1. PICK r : r = [episodes[k] EXCEPT !.deleted = TRUE]
      OBVIOUS
    <3>2. /\ r \in EpisodeRow /\ r.copy = episodes[k].copy /\ r.row = episodes[k].row
          /\ r.msg = episodes[k].msg /\ r.link = episodes[k].link /\ r.deleted = TRUE
      BY <2>1, <2>2, <3>1 DEF EpisodeRow
    <3> QED
      BY <1>3, <2>2, <3>1, <3>2, NullIsNoRow
  <2>3. CASE ~hit(k)
    <3>1. episodes[k] # NULL => episodes[k].deleted \in BOOLEAN
      BY <2>1 DEF EpisodeRow
    <3> QED
      BY <1>3, <2>1, <2>3, <3>1
  <2> QED
    BY <2>2, <2>3
<1>5. Types'
  <2>1. episodes' \in [AnimeIds \X Numbers -> EpisodeRow \cup {NULL}]
    BY <1>3, <1>4
  <2> QED
    BY <1>1, <1>2, <2>1, Moved, IdleFits DEF IInv, Types, Shape
<1>6. \A g \in Handlers : Held(task'[g]) \subseteq Held(task[g])
  BY <1>1, Moved, IdleFits
<1>7. Storage' /\ Contents' /\ \A c \in Copies : NoNewUse(c)
  BY <1>2, <1>4, <1>5, <1>6, EpisodesRewritten
<1>8. Posts'
  <2>1. \A p \in erased' : Withdrawn(p[2])'
    BY <1>1, <1>2 DEF IInv, Posts, Withdrawn
  <2>2. ErasureSticks'
    <3> SUFFICES ASSUME NEW k \in AnimeIds \X Numbers, episodes'[k] # NULL,
                        ~episodes'[k].deleted, episodes'[k].link = NULL
                 PROVE  \/ <<episodes'[k].row, episodes'[k].msg>> \notin erased'
                        \/ episodes'[k].msg \in raced'
      BY <1>3 DEF ErasureSticks, Undeleted
    <3>1. episodes[k] # NULL /\ ~hit(k) /\ ~episodes[k].deleted /\ episodes[k].link = NULL
      BY <1>4
    <3>2. \/ <<episodes[k].row, episodes[k].msg>> \notin erased \/ episodes[k].msg \in raced
      BY <3>1 DEF IInv, Types, Posts, ErasureSticks, Undeleted
    <3>3. <<episodes[k].row, episodes[k].msg>> # <<x.row, x.msg>>
      BY <3>1
    <3> QED
      BY <1>2, <1>4, <3>1, <3>2, <3>3
  <2> QED
    BY <1>2, <2>1, <2>2 DEF IInv, Posts, PostsAreCopies
<1>9. TaskOK(h)'
  BY <1>1, Moved, IdleFits, EmptyHands DEF Idle
<1>10. ASSUME NEW g \in Handlers, g # h PROVE TaskOK(g)'
  <2>1. task'[g] = task[g] /\ \A c \in Marked(task[g]) : c \in Copies
    BY <1>1, <1>10, Moved DEF IInv, TaskOK, Shape, Task, Marked
  <2> QED
    BY <1>2, <1>7, <2>1, OtherTask, CopiesUnchanged DEF NoNewUse
<1> QED
  BY <1>5, <1>7, <1>8, <1>9, <1>10 DEF IInv

LEMMA UnregisterInv == ASSUME IInv, Unregister PROVE IInv'
<1> DEFINE hit(k) == episodes[k] # NULL /\ episodes[k].row = registered
<1> USE DEF telegram, history
<1>1. UNCHANGED <<telegram, animes, active, task, history>> /\ registered' = NULL
      /\ retired' = retired \cup {registered} /\ registered \in Rows
  BY DEF Unregister, IInv, Types
<1>2. /\ DOMAIN episodes' = AnimeIds \X Numbers
      /\ episodes' = [k \in AnimeIds \X Numbers |-> episodes'[k]]
      /\ \A k \in AnimeIds \X Numbers :
            episodes'[k] = IF hit(k) THEN [episodes[k] EXCEPT !.row = NULL] ELSE episodes[k]
  BY DEF Unregister, IInv, Types
<1>3. \A k \in AnimeIds \X Numbers :
         /\ episodes'[k] \in EpisodeRow \cup {NULL}
         /\ episodes'[k] # NULL <=> episodes[k] # NULL
         /\ episodes[k] # NULL =>
               /\ episodes'[k].copy = episodes[k].copy /\ episodes'[k].msg = episodes[k].msg
               /\ episodes'[k].link = episodes[k].link
               /\ episodes'[k].deleted = episodes[k].deleted
               /\ episodes'[k].row \in {episodes[k].row, NULL}
  <2> TAKE k \in AnimeIds \X Numbers
  <2>1. episodes[k] \in EpisodeRow \cup {NULL}
    BY DEF IInv, Types
  <2>2. CASE hit(k)
    <3>1. PICK r : r = [episodes[k] EXCEPT !.row = NULL]
      OBVIOUS
    <3>2. /\ r \in EpisodeRow /\ r.copy = episodes[k].copy /\ r.row = NULL
          /\ r.msg = episodes[k].msg /\ r.link = episodes[k].link
          /\ r.deleted = episodes[k].deleted
      BY <2>1, <2>2, <3>1 DEF EpisodeRow
    <3> QED
      BY <1>2, <2>2, <3>1, <3>2, NullIsNoRow
  <2>3. CASE ~hit(k)
    BY <1>2, <2>1, <2>3
  <2> QED
    BY <2>2, <2>3
<1>4. Types'
  <2>1. episodes' \in [AnimeIds \X Numbers -> EpisodeRow \cup {NULL}]
    BY <1>2, <1>3
  <2> QED
    BY <1>1, <2>1 DEF IInv, Types
<1>5. Storage' /\ Contents' /\ \A c \in Copies : NoNewUse(c)
  BY <1>1, <1>3, <1>4, EpisodesRewritten
<1>6. Posts'
  <2>1. ErasureSticks'
    <3> SUFFICES ASSUME NEW k \in AnimeIds \X Numbers, episodes'[k] # NULL,
                        ~episodes'[k].deleted, episodes'[k].link = NULL
                 PROVE  \/ <<episodes'[k].row, episodes'[k].msg>> \notin erased'
                        \/ episodes'[k].msg \in raced'
      BY <1>2 DEF ErasureSticks, Undeleted
    <3>1. \/ <<episodes[k].row, episodes[k].msg>> \notin erased \/ episodes[k].msg \in raced
      BY <1>3 DEF IInv, Types, Posts, ErasureSticks, Undeleted
    <3>2. <<NULL, episodes'[k].msg>> \notin erased
      BY NullIsNothing DEF IInv, Types
    <3> QED
      BY <1>1, <1>3, <3>1, <3>2
  <2> QED
    BY <1>1, <2>1 DEF IInv, Posts, PostsAreCopies, Withdrawn
<1>7. ASSUME NEW g \in Handlers PROVE TaskOK(g)'
  <2>1. \A c \in Marked(task[g]) : c \in Copies
    BY DEF IInv, TaskOK, Shape, Task, Marked
  <2> QED
    BY <1>1, <1>5, <2>1, OtherTask, CopiesUnchanged DEF NoNewUse
<1> QED
  BY <1>4, <1>5, <1>6, <1>7 DEF IInv

LEMMA ListEpisodesInv == ASSUME IInv, NEW h \in Handlers, ListEpisodes(h) PROVE IInv'
<1> DEFINE x == task[h]
           all == x.copies \cup CopiesOf(x.anime)
           y == [x EXCEPT !.pc = "purge", !.copies = @ \cup CopiesOf(x.anime)]
<1> USE DEF telegram, tables, history
<1>1. /\ Shape(x) /\ x \in Task /\ x.pc = "list" /\ x.anime \in AnimeIds
      /\ HandsOK(x) /\ OnAnime(x) /\ Fresh(x) /\ Set(h, y)
  BY DEF IInv, TaskOK, Shape, Task, ListEpisodes
<1>2. ASSUME NEW c \in all
      PROVE  /\ c \in Copies
             /\ ~SourceIsStorage => copies[c] # NULL /\ Uses(c) \subseteq UsesBy({x.anime})
  <2>1. CASE c \in x.copies
    BY <1>1, <2>1 DEF HandsOK, Marked, Task
  <2>2. CASE c \in CopiesOf(x.anime)
    <3>1. PICK k \in AnimeIds \X Numbers :
             k[1] = x.anime /\ episodes[k] # NULL /\ episodes[k].copy = c
      BY <2>2 DEF CopiesOf, Undeleted, IInv, Types
    <3>2. c \in Copies /\ copies[c] # NULL /\ <<"episode", k>> \in Uses(c)
      BY <3>1, UsedCopies, Users DEF IInv
    <3>3. ~SourceIsStorage => Uses(c) = {<<"episode", k>>}
      BY <3>2 DEF IInv, Storage
    <3>4. k \in {x.anime} \X Numbers
      BY <3>1
    <3> QED
      BY <3>2, <3>3, <3>4 DEF UsesBy
  <2> QED
    BY <2>1, <2>2
<1>3. all \subseteq Copies
  BY <1>2
<1>4. /\ y \in Task /\ y.pc = "purge" /\ y.copies = all /\ y.anime = x.anime
      /\ y.batch = x.batch /\ y.row = x.row
  BY <1>1, <1>3 DEF Task
<1> HIDE DEF y, all
<1>5. task'[h] = y
  BY <1>1, Moved
<1>6. Shape(y) /\ Held(y) = {} /\ Marked(y) = all
  BY <1>1, <1>4 DEF Shape, Held, Marked, Importing
<1>7. UNCHANGED <<telegram, tables, active, history>>
  BY DEF ListEpisodes
<1>8. HoldsOn(x, y) /\ \A c \in Copies : NoNewUse(c)
  <2>1. \A g \in Handlers : Held(task'[g]) \subseteq Held(task[g])
    BY <1>1, <1>6, Moved
  <2>2. Types'
    BY <1>1, <1>4, <1>7, Moved DEF IInv, Types
  <2> QED
    BY <1>6, <1>7, <2>1, <2>2, UsesKept DEF IInv, HoldsOn
<1>9. TaskOK(h)'
  <2>1. Shape(task[h])' /\ OnAnime(task[h])'
    BY <1>1, <1>4, <1>5, <1>6, <1>7 DEF Shape, OnAnime, Importing
  <2>2. Fresh(task[h])'
    BY <1>1, <1>4, <1>5, <1>7 DEF Fresh, Read, Pending, Importing
  <2>3. HandsOK(task[h])'
    BY <1>2, <1>3, <1>4, <1>5, <1>7, <1>8 DEF HandsOK, Marked, UsesBy, NoNewUse
  <2> QED
    BY <1>4, <1>5, <2>1, <2>2, <2>3 DEF TaskOK
<1> QED
  BY <1>1, <1>4, <1>7, <1>8, <1>9, OneTaskMoves

\* A message a task works on is in raced once it is edited or deleted.
LEMMA RaceNoted ==
    ASSUME IInv, NEW S \in SUBSET Messages, Race(S)
    PROVE  /\ raced \subseteq raced' /\ raced' \subseteq Messages
           /\ \A g \in Handlers : \A p \in Pending(task[g]) : p[1] \in S => p[1] \in raced'
<1>1. raced \subseteq raced' /\ raced' \subseteq Messages
  BY DEF Race, IInv, Types
<1>2. ASSUME NEW g \in Handlers, NEW p \in Pending(task[g]), p[1] \in S PROVE p[1] \in raced'
  <2>1. task[g] \in Task
    BY DEF IInv, Types
  <2>2. WorksOn(g, p[1])
    <3>1. CASE p \in task[g].batch
      BY <1>2, <2>1, <3>1 DEF Task, WorksOn
    <3>2. CASE p = <<task[g].msg, task[g].text>> /\ Importing(task[g])
      BY <1>2, <3>2 DEF WorksOn, Importing
    <3> QED
      BY <3>1, <3>2 DEF Pending
  <2> QED
    BY <1>2, <2>2 DEF Race
<1> QED
  BY <1>1, <1>2

LEMMA PurgeInv == ASSUME IInv, NEW h \in Handlers, Purge(h) PROVE IInv'
<1> DEFINE x == task[h]
           y == [x EXCEPT !.pc = "drop"]
<1>1. /\ Shape(x) /\ x \in Task /\ x.pc = "purge" /\ x.anime \in AnimeIds
      /\ HandsOK(x) /\ OnAnime(x) /\ Fresh(x) /\ Set(h, y)
  BY DEF IInv, TaskOK, Shape, Task, Purge
<1>2. /\ UNCHANGED <<posted, copies, tables, active, erased>>
      /\ gone \subseteq gone' /\ gone' \subseteq gone \cup x.copies
      /\ purged' = purged \cup {x.anime}
  BY DEF Purge, DeleteMessages
<1> USE DEF tables
<1>3. y \in Task /\ y.pc = "drop" /\ y.anime = x.anime /\ y.batch = x.batch /\ y.row = x.row
  BY <1>1 DEF Task
<1> HIDE DEF y
<1>4. task'[h] = y /\ \A g \in Handlers : g # h => task'[g] = task[g]
  BY <1>1, Moved
<1>5. /\ Shape(y) /\ Held(y) = {} /\ HoldsOwn(y) /\ Marked(y) = {}
      /\ Pending(y) = x.batch /\ Pending(y) \subseteq Pending(x)
  BY <1>1, <1>3 DEF Shape, Held, HoldsOwn, Marked, Importing, Pending
<1>6. /\ raced \subseteq raced' /\ raced' \subseteq Messages
      /\ post' \in [Messages -> Texts \cup {NULL}]
      /\ \A m \in Messages : post'[m] \in {post[m], NULL}
      /\ \A g \in Handlers : \A p \in Pending(task[g]) :
            post[p[1]] = p[2] => post'[p[1]] = p[2] \/ p[1] \in raced'
  <2>1. CASE UNCHANGED <<post, raced>>
    BY <2>1 DEF IInv, Types
  <2>2. CASE /\ SourceIsStorage
             /\ post' = [m \in Messages |-> IF m \in x.copies THEN NULL ELSE post[m]]
             /\ Race(x.copies)
    <3>1. x.copies \subseteq Messages
      BY <1>1, <2>2, OneChannelOrTwo DEF Task
    <3>2. /\ raced \subseteq raced' /\ raced' \subseteq Messages
          /\ \A g \in Handlers : \A p \in Pending(task[g]) : p[1] \in x.copies => p[1] \in raced'
      BY <2>2, <3>1, RaceNoted
    <3>3. \A g \in Handlers : \A p \in Pending(task[g]) : p[1] \in Messages
      BY DEF IInv, TaskOK, Shape, Task, Pending, Importing
    <3>4. post' \in [Messages -> Texts \cup {NULL}]
      BY <2>2 DEF IInv, Types
    <3> QED
      BY <2>2, <3>2, <3>3, <3>4
  <2> QED
    BY <2>1, <2>2 DEF Purge, DeleteMessages
<1>7. Types'
  <2>1. gone' \subseteq Copies /\ purged' \subseteq AnimeIds
    BY <1>1, <1>2 DEF Task, IInv, Types
  <2> QED
    BY <1>1, <1>2, <1>3, <1>6, <2>1, Moved DEF IInv, Types
<1>8. \A c \in Copies : NoNewUse(c)
  <2>1. \A g \in Handlers : Held(task'[g]) \subseteq Held(task[g])
    BY <1>4, <1>5
  <2> QED
    BY <1>2, <1>7, <2>1, UsesKept DEF IInv
<1>9. Storage'
  <2>1. ASSUME ~SourceIsStorage PROVE \A c \in Copies : \A u, v \in Uses(c)' : u = v
    BY <1>8, <2>1 DEF IInv, Storage, NoNewUse
  <2>2. \A c \in Copies : copies'[c] = NULL => Uses(c)' = {}
    BY <1>2, <1>8 DEF IInv, Storage, NoNewUse
  <2>3. ASSUME ~SourceIsStorage, NEW c \in gone'
        PROVE  copies'[c] # NULL /\ Uses(c)' \subseteq UsesBy(purged')
    <3>1. UsesBy(purged) \subseteq UsesBy(purged') /\ UsesBy({x.anime}) \subseteq UsesBy(purged')
      BY <1>2 DEF UsesBy
    <3>2. c \in Copies
      BY <1>7, <2>3 DEF Types
    <3>3. copies[c] # NULL /\ (Uses(c) \subseteq UsesBy(purged) \/ Uses(c) \subseteq UsesBy({x.anime}))
      BY <1>1, <1>2, <2>3 DEF IInv, Storage, HandsOK, Marked
    <3>4. Uses(c)' \subseteq Uses(c)
      BY <1>8, <2>3, <3>2 DEF NoNewUse
    <3> QED
      BY <1>2, <3>1, <3>3, <3>4
  <2> QED
    BY <2>1, <2>2, <2>3 DEF Storage, UsesBy
<1>10. Contents' /\ Posts'
  <2>1. Contents'
    BY <1>2, <1>6, ContentsKept, CopiesUnchanged
  <2>2. PostsAreCopies' /\ \A m \in Messages : post'[m] # NULL => m \in posted'
    BY <1>2, <1>6 DEF IInv, Posts, PostsAreCopies
  <2>3. \A m \in posted : post[m] = NULL => post'[m] = NULL
    BY <1>6 DEF IInv, Types
  <2> QED
    BY <1>2, <1>6, <2>1, <2>2, <2>3, PostsKept
<1>11. ASSUME NEW g \in Handlers, g # h PROVE TaskOK(g)'
  <2>1. ~SourceIsStorage => \A c \in Marked(task[g]) : Uses(c)' \subseteq Uses(c)
    BY <1>8 DEF IInv, TaskOK, Shape, Task, Marked, NoNewUse
  <2>2. \A m \in posted : post[m] = NULL => post'[m] = NULL
    BY <1>6 DEF IInv, Types
  <2> QED
    BY <1>2, <1>4, <1>6, <1>11, <2>1, <2>2, OtherTask, CopiesUnchanged
<1>12. TaskOK(h)'
  <2>1. \A p \in Pending(y) : Read(p)'
    BY <1>1, <1>2, <1>5, <1>6 DEF Fresh, Read
  <2>2. animes[y.anime] # NULL
    BY <1>1, <1>3 DEF OnAnime
  <2> QED
    BY <1>2, <1>3, <1>4, <1>5, <2>1, <2>2, EmptyHands
<1> QED
  BY <1>7, <1>9, <1>10, <1>11, <1>12 DEF IInv

LEMMA DropInv == ASSUME IInv, NEW h \in Handlers, Drop(h) PROVE IInv'
<1> DEFINE a == task[h].anime
<1> USE DEF telegram, history
<1>1. Set(h, Idle) /\ UNCHANGED <<telegram, episodes, registered, retired, active, history>>
      /\ animes' = [animes EXCEPT ![a].deleted = TRUE]
  BY DEF Drop
<1>2. a \in AnimeIds /\ animes[a] # NULL /\ animes[a] \in AnimeRow
  BY DEF Drop, IInv, TaskOK, OnAnime, Shape, Task, Types
<1>3. PICK r : r = [animes[a] EXCEPT !.deleted = TRUE]
  OBVIOUS
<1>4. r \in AnimeRow /\ r # NULL /\ r.title = animes[a].title /\ r.poster = animes[a].poster
  BY <1>2, <1>3, NullIsNoRow DEF AnimeRow
<1>5. animes' = [animes EXCEPT ![a] = r]
  BY <1>1, <1>3
<1> HIDE DEF a
<1>6. /\ animes' \in [AnimeIds -> AnimeRow \cup {NULL}]
      /\ \A b \in AnimeIds :
            /\ animes'[b] # NULL <=> animes[b] # NULL
            /\ animes'[b].title = animes[b].title /\ animes'[b].poster = animes[b].poster
  BY <1>2, <1>4, <1>5 DEF IInv, Types
<1>7. Types'
  BY <1>1, <1>6, Moved, IdleFits DEF IInv, Types, Shape
<1>8. \A c \in Copies : NoNewUse(c)
  <2>1. \A g \in Handlers : Held(task'[g]) \subseteq Held(task[g])
    BY <1>1, Moved, IdleFits
  <2> QED
    BY <1>1, <1>6, <1>7, <2>1, UsesKept DEF IInv
<1>9. Storage' /\ Contents' /\ Posts'
  BY <1>1, <1>6, <1>8, StorageKept, ContentsKept, PostsUnchanged, CopiesUnchanged
<1>10. ASSUME NEW g \in Handlers, g # h PROVE TaskOK(g)'
  <2>1. task'[g] = task[g] /\ \A c \in Marked(task[g]) : c \in Copies
    BY <1>1, <1>10, Moved DEF IInv, TaskOK, Shape, Task, Marked
  <2> QED
    BY <1>1, <1>6, <1>8, <2>1, OtherTask, CopiesUnchanged DEF NoNewUse
<1>11. TaskOK(h)'
  BY <1>1, Moved, IdleFits, EmptyHands DEF Idle
<1> QED
  BY <1>7, <1>9, <1>10, <1>11 DEF IInv

-----------------------------------------------------------------------------
(* 4. Telegram, registration and restart                                   *)

\* The event of a message starts a handler, or is lost.
LEMMA EventStarts ==
    ASSUME IInv, NEW x, Event(x)
    PROVE  \/ task' = task
           \/ /\ active \in Rows
              /\ \E h \in Handlers : task[h].pc = "idle" /\ Set(h, [x EXCEPT !.row = active])
BY DEF Event, IInv, Types

\* A post appears, changes or goes, and the task its event starts reads it.
LEMMA PostChanges ==
    ASSUME IInv, NEW m \in Messages, NEW v \in Texts \cup {NULL},
           post' = [post EXCEPT ![m] = v], posted \subseteq posted', m \in posted',
           posted' \subseteq Messages, m \in posted => v = NULL \/ post[m] # NULL,
           raced \subseteq raced', raced' \subseteq Messages,
           \A g \in Handlers : \A p \in Pending(task[g]) :
               p[1] = m /\ post[m] = p[2] => m \in raced',
           copies' \in [Copies -> Copy \cup {NULL}], CopiesKept, PostsAreCopies',
           gone' \subseteq Copies, gone' = gone \/ SourceIsStorage,
           UNCHANGED <<tables, active, erased, purged>>,
           \/ task' = task
           \/ \E h \in Handlers : \E y :
                 /\ Set(h, y) /\ Shape(y) /\ HoldsOwn(y) /\ Marked(y) = {}
                 /\ y.pc \in {"forward", "anime", "erase"}
                 /\ \A p \in Pending(y) : p = <<m, v>> /\ v # NULL
                 /\ y.pc = "erase" => y.msg = m /\ v = NULL
    PROVE  IInv'
<1> USE DEF tables
<1>1. /\ post'[m] = v /\ \A k \in Messages : k # m => post'[k] = post[k]
      /\ post' \in [Messages -> Texts \cup {NULL}]
  BY DEF IInv, Types
<1>2. v # NULL => Read(<<m, v>>)'
  BY <1>1 DEF PostsAreCopies, Read
<1>3. /\ task' \in [Handlers -> Task]
      /\ \A g \in Handlers : HoldsOn(task[g], task'[g])
  <2>1. CASE task' = task
    BY <2>1 DEF IInv, Types, HoldsOn
  <2>2. ASSUME NEW h \in Handlers, NEW y, Set(h, y), Shape(y), HoldsOwn(y),
               \A p \in Pending(y) : Read(p)'
        PROVE  /\ task' \in [Handlers -> Task]
               /\ \A g \in Handlers : HoldsOn(task[g], task'[g])
    <3>1. HoldsOn(task[h], y)
      BY <2>2, OwnHands
    <3>2. /\ task' \in [Handlers -> Task] /\ task'[h] = y
          /\ \A g \in Handlers : g # h => task'[g] = task[g]
      BY <2>2, Moved DEF Shape
    <3> QED
      BY <3>1, <3>2 DEF HoldsOn
  <2> QED
    BY <1>2, <2>1, <2>2
<1>4. Types'
  BY <1>1, <1>3 DEF IInv, Types
<1>5. \A c \in Copies : NoNewUse(c)
  BY <1>3, <1>4, UsesKept DEF IInv, HoldsOn
<1>6. \A k \in posted : k \in Messages /\ (post[k] = NULL => post'[k] = NULL)
  BY <1>1 DEF IInv, Types
<1>7. Storage' /\ Contents' /\ Posts'
  <2>1. Storage'
    BY <1>5, StorageKept
  <2>2. Contents'
    BY ContentsKept
  <2>3. \A k \in Messages : post'[k] # NULL => k \in posted'
    BY <1>1 DEF IInv, Posts
  <2>4. Posts'
    BY <1>6, <2>3, PostsKept
  <2> QED
    BY <2>1, <2>2, <2>4
<1>8. ASSUME NEW g \in Handlers, task'[g] = task[g] PROVE TaskOK(g)'
  <2>1. Shape(task[g])
    BY DEF IInv, TaskOK
  <2>2. ~SourceIsStorage => \A c \in Marked(task[g]) : Uses(c)' \subseteq Uses(c)
    BY <1>5, <2>1 DEF Shape, Task, Marked, NoNewUse
  <2>3. \A p \in Pending(task[g]) : p[1] \in Messages
    BY <2>1 DEF Shape, Task, Pending, Importing
  <2>4. \A p \in Pending(task[g]) :
           post[p[1]] = p[2] => post'[p[1]] = p[2] \/ p[1] \in raced'
    BY <1>1, <2>3
  <2> QED
    BY <1>6, <1>8, <2>2, <2>4, OtherTask
<1>9. ASSUME NEW h \in Handlers, NEW y, Set(h, y), Shape(y), HoldsOwn(y), Marked(y) = {},
             y.pc \in {"forward", "anime", "erase"},
             \A p \in Pending(y) : p = <<m, v>> /\ v # NULL,
             y.pc = "erase" => y.msg = m /\ v = NULL
      PROVE  \A g \in Handlers : TaskOK(g)'
  <2>1. \A g \in Handlers : g # h => TaskOK(g)'
    BY <1>8, <1>9, Moved
  <2>2. task'[h] = y
    BY <1>9, Moved
  <2>3. \A p \in Pending(y) : Read(p)'
    BY <1>2, <1>9
  <2>4. TaskOK(h)'
    BY <1>1, <1>9, <2>2, <2>3, EmptyHands
  <2> QED
    BY <2>1, <2>4
<1>10. \A g \in Handlers : TaskOK(g)'
  BY <1>8, <1>9
<1> QED
  BY <1>4, <1>7, <1>10 DEF IInv

\* The handler of a new or edited message.
LEMMA ImportEventStarts ==
    ASSUME IInv, NEW m \in Messages, NEW t \in Texts, ImportEvent(m, t)
    PROVE  \/ task' = task
           \/ \E h \in Handlers : \E y :
                 /\ Set(h, y) /\ Shape(y) /\ HoldsOwn(y) /\ Marked(y) = {}
                 /\ y.pc \in {"forward", "anime", "erase"}
                 /\ \A p \in Pending(y) : p = <<m, t>> /\ t # NULL
                 /\ y.pc = "erase" => y.msg = m /\ t = NULL
<1> DEFINE x == Import(Idle, m, t)
           y == [x EXCEPT !.row = active]
           z == [Idle EXCEPT !.row = active]
<1>1. CASE task' = task
  BY <1>1
<1>2. CASE t.kind # "other" /\ task' # task
  <2>1. Event(x)
    BY <1>2 DEF ImportEvent
  <2>2. active \in Rows /\ \E h \in Handlers : Set(h, y)
    <3> HIDE DEF x
    <3> QED
      BY <1>2, <2>1, EventStarts
  <2>3. y = Import(z, m, t)
    <3>1. PICK pc, todo, own :
             /\ pc = IF t.kind = "announcement" \/ SourceIsStorage THEN "anime" ELSE "forward"
             /\ todo = IF t.kind = "episode" THEN {} ELSE t.numbers
             /\ own = IF t.kind # "announcement" /\ SourceIsStorage THEN {m} ELSE {}
      OBVIOUS
    <3>2. /\ x = [Idle EXCEPT !.pc = pc, !.msg = m, !.text = t, !.number = NULL,
                              !.anime = NULL, !.todo = todo, !.copies = own]
          /\ Import(z, m, t) = [z EXCEPT !.pc = pc, !.msg = m, !.text = t, !.number = NULL,
                                         !.anime = NULL, !.todo = todo, !.copies = own]
      BY <3>1 DEF Import
    <3> HIDE DEF x
    <3> QED
      BY <3>2 DEF Idle
  <2>4. z \in Task /\ z.row # NULL /\ z.batch = {}
    BY <2>2, NullIsNothing DEF Idle, Task
  <2>5. t # NULL
    BY NullIsNothing
  <2> HIDE DEF x, y, z
  <2>6. /\ Shape(y) /\ HoldsOwn(y) /\ Marked(y) = {} /\ Pending(y) = {<<m, t>>}
        /\ y.pc \in {"forward", "anime"}
    BY <1>2, <2>3, <2>4, ImportFits
  <2> QED
    BY <2>2, <2>5, <2>6
<1> QED
  BY <1>1, <1>2 DEF ImportEvent

LEMMA NewMessageInv ==
    ASSUME IInv, NEW m \in Messages, NEW t \in Texts, NewMessage(m, t)
    PROVE  IInv'
<1>1. /\ post[m] = NULL /\ m \notin posted /\ posted \subseteq Messages
      /\ post \in [Messages -> Texts \cup {NULL}]
      /\ SourceIsStorage => m \in Copies /\ copies[m] = NULL
  BY OneChannelOrTwo DEF NewMessage, IInv, Types, Posts, PostsAreCopies
<1>2. \A g \in Handlers : \A p \in Pending(task[g]) : p[2] # NULL
  BY NullIsNothing DEF IInv, TaskOK, Shape, Task, Pending, Importing
<1>3. /\ post' = [post EXCEPT ![m] = t] /\ posted' = posted \cup {m}
      /\ UNCHANGED <<gone, tables, active, raced, erased, purged>>
      /\ ImportEvent(m, t) /\ InPlace(m, Made(t, m, NULL))
  BY DEF NewMessage, history
<1>4. raced \subseteq Messages /\ gone \subseteq Copies /\ copies \in [Copies -> Copy \cup {NULL}]
  BY DEF IInv, Types
<1>5. PICK copy : copy = Made(t, m, NULL)
  OBVIOUS
<1>6. copy \in Copy /\ copy # NULL /\ copy.shows = t
  <2>1. copy \in Copy /\ copy.shows = t
    BY <1>5 DEF Made, Copy
  <2> QED
    BY <2>1, NullIsNoRow
<1>7. copies' = IF SourceIsStorage THEN [copies EXCEPT ![m] = copy] ELSE copies
  BY <1>3, <1>5 DEF InPlace
<1>8. copies' \in [Copies -> Copy \cup {NULL}] /\ CopiesKept
  BY <1>1, <1>4, <1>6, <1>7 DEF CopiesKept, Keeps
<1>9. PostsAreCopies'
  <2> SUFFICES ASSUME SourceIsStorage, NEW k \in Messages
               PROVE  /\ k \in posted' <=> copies'[k] # NULL
                      /\ post'[k] # NULL => copies'[k].shows = post'[k]
    BY DEF PostsAreCopies
  <2>1. k # m => copies'[k] = copies[k] /\ post'[k] = post[k] /\ (k \in posted' <=> k \in posted)
    BY <1>1, <1>3, <1>4, <1>7, OneChannelOrTwo
  <2>2. copies'[m] = copy /\ post'[m] = t /\ m \in posted'
    BY <1>1, <1>3, <1>4, <1>7
  <2> QED
    BY <1>6, <2>1, <2>2 DEF IInv, Posts, PostsAreCopies
<1>10. \A g \in Handlers : \A p \in Pending(task[g]) :
         p[1] = m /\ post[m] = p[2] => m \in raced'
  BY <1>1, <1>2
<1>11. /\ posted \subseteq posted' /\ m \in posted' /\ posted' \subseteq Messages
       /\ raced' = raced /\ gone' = gone
  BY <1>1, <1>3
<1>12. \/ task' = task
       \/ \E h \in Handlers : \E y :
             /\ Set(h, y) /\ Shape(y) /\ HoldsOwn(y) /\ Marked(y) = {}
             /\ y.pc \in {"forward", "anime", "erase"}
             /\ \A p \in Pending(y) : p = <<m, t>> /\ t # NULL
             /\ y.pc = "erase" => y.msg = m /\ t = NULL
  BY <1>3, ImportEventStarts
<1> QED
  BY <1>1, <1>3, <1>4, <1>8, <1>9, <1>10, <1>11, <1>12, PostChanges

LEMMA MessageEditedInv ==
    ASSUME IInv, NEW m \in Messages, NEW t \in Texts, MessageEdited(m, t)
    PROVE  IInv'
<1>1. /\ post[m] # NULL /\ m \in posted /\ posted \subseteq Messages
      /\ post \in [Messages -> Texts \cup {NULL}]
      /\ SourceIsStorage => m \in Copies /\ copies[m] # NULL
  BY OneChannelOrTwo DEF MessageEdited, IInv, Types, Posts, PostsAreCopies
<1>2. /\ post' = [post EXCEPT ![m] = t] /\ posted' = posted /\ Race({m})
      /\ UNCHANGED <<gone, tables, active, erased, purged>> /\ ImportEvent(m, t)
      /\ InPlace(m, [copies[m] EXCEPT !.shows = t, !.edited = TRUE])
  BY DEF MessageEdited
<1>3. /\ raced \subseteq raced' /\ raced' \subseteq Messages
      /\ \A g \in Handlers : \A p \in Pending(task[g]) : p[1] = m => m \in raced'
  BY <1>2, RaceNoted
<1>4. gone \subseteq Copies /\ copies \in [Copies -> Copy \cup {NULL}]
  BY DEF IInv, Types
<1>5. PICK copy : copy = [copies[m] EXCEPT !.shows = t, !.edited = TRUE]
  OBVIOUS
<1>6. SourceIsStorage => /\ copy \in Copy /\ copy # NULL /\ copy.shows = t /\ copy.edited
                         /\ copy.link = copies[m].link /\ copy.of = copies[m].of
  <2>1. SourceIsStorage => copies[m] \in Copy
    BY <1>1, <1>4
  <2> QED
    BY <1>5, <2>1, NullIsNoRow DEF Copy
<1>7. copies' = IF SourceIsStorage THEN [copies EXCEPT ![m] = copy] ELSE copies
  BY <1>2, <1>5 DEF InPlace
<1>8. copies' \in [Copies -> Copy \cup {NULL}] /\ CopiesKept
  BY <1>1, <1>4, <1>6, <1>7 DEF CopiesKept, Keeps
<1>9. PostsAreCopies'
  <2> SUFFICES ASSUME SourceIsStorage, NEW k \in Messages
               PROVE  /\ k \in posted' <=> copies'[k] # NULL
                      /\ post'[k] # NULL => copies'[k].shows = post'[k]
    BY DEF PostsAreCopies
  <2>1. k # m => copies'[k] = copies[k] /\ post'[k] = post[k]
    BY <1>1, <1>2, <1>4, <1>7, OneChannelOrTwo
  <2>2. copies'[m] = copy /\ post'[m] = t
    BY <1>1, <1>2, <1>4, <1>7
  <2> QED
    BY <1>1, <1>2, <1>6, <2>1, <2>2 DEF IInv, Posts, PostsAreCopies
<1> QED
  BY <1>1, <1>2, <1>3, <1>4, <1>8, <1>9, ImportEventStarts, PostChanges

LEMMA MessageDeletedInv ==
    ASSUME IInv, NEW m \in Messages, MessageDeleted(m)
    PROVE  IInv'
<1> DEFINE x == [Idle EXCEPT !.pc = "erase", !.msg = m]
           y == [x EXCEPT !.row = active]
<1>1. post[m] # NULL /\ m \in posted /\ posted \subseteq Messages
  BY DEF MessageDeleted, IInv, Posts, Types
<1>2. task' = task \/ (active \in Rows /\ \E h \in Handlers : Set(h, y))
  <2> HIDE DEF x
  <2> QED
    BY EventStarts DEF MessageDeleted, x
<1>3. active \in Rows => /\ y \in Task /\ y.pc = "erase" /\ y.msg = m /\ y.row = active
                         /\ y.batch = {} /\ y.copies = {}
  BY DEF Idle, Task
<1> HIDE DEF x, y
<1>4. active \in Rows => /\ Shape(y) /\ HoldsOwn(y) /\ Marked(y) = {} /\ Pending(y) = {}
  BY <1>3, NullIsNothing DEF Shape, Held, HoldsOwn, Marked, Pending, Importing
<1>5. \/ task' = task
      \/ \E h \in Handlers : \E w :
            /\ Set(h, w) /\ Shape(w) /\ HoldsOwn(w) /\ Marked(w) = {}
            /\ w.pc \in {"forward", "anime", "erase"}
            /\ \A p \in Pending(w) : p = <<m, NULL>> /\ NULL # NULL
            /\ w.pc = "erase" => w.msg = m
  BY <1>2, <1>3, <1>4
<1>6. /\ post' = [post EXCEPT ![m] = NULL] /\ posted' = posted /\ Race({m})
      /\ gone' = IF SourceIsStorage THEN gone \cup {m} ELSE gone
      /\ UNCHANGED <<copies, tables, active, erased, purged>>
  BY DEF MessageDeleted
<1>7. /\ raced \subseteq raced' /\ raced' \subseteq Messages
      /\ \A g \in Handlers : \A p \in Pending(task[g]) : p[1] = m => m \in raced'
  BY <1>6, RaceNoted
<1>8. /\ copies' \in [Copies -> Copy \cup {NULL}] /\ CopiesKept
      /\ gone' \subseteq Copies /\ (gone' = gone \/ SourceIsStorage)
  BY <1>6, OneChannelOrTwo, CopiesUnchanged DEF IInv, Types
<1>9. PostsAreCopies'
  BY <1>6 DEF IInv, Types, Posts, PostsAreCopies
<1> QED
  BY <1>1, <1>5, <1>6, <1>7, <1>8, <1>9, PostChanges

\* The channel and its list change under tasks that go on.
LEMMA RegistrationInv ==
    ASSUME IInv, (\E r \in Rows : Register(r)) \/ RefreshChannels
    PROVE  IInv'
<1> USE DEF telegram, tables, history
<1>1. /\ UNCHANGED <<telegram, animes, episodes, retired, task, history>>
      /\ registered' \in Rows \cup {NULL} /\ active' \in Rows \cup {NULL}
  BY DEF Register, RefreshChannels, IInv, Types
<1>2. Types'
  BY <1>1 DEF IInv, Types
<1>3. \A c \in Copies : NoNewUse(c)
  BY <1>1, <1>2, UsesKept DEF IInv
<1>4. ASSUME NEW g \in Handlers PROVE TaskOK(g)'
  <2>1. \A c \in Marked(task[g]) : c \in Copies
    BY DEF IInv, TaskOK, Shape, Task, Marked
  <2> QED
    BY <1>1, <1>3, <2>1, OtherTask, CopiesUnchanged DEF NoNewUse
<1> QED
  BY <1>1, <1>2, <1>4, TasksMove DEF HoldsOn

LEMMA CrashInv == ASSUME IInv, Crash PROVE IInv'
<1> USE DEF telegram, tables, history
<1>1. /\ UNCHANGED <<telegram, tables, history>> /\ active' = NULL
      /\ \A g \in Handlers : task'[g] = Idle
  BY DEF Crash
<1>2. Types'
  BY <1>1, IdleFits DEF Crash, IInv, Types, Shape
<1>3. \A g \in Handlers : TaskOK(g)' /\ Held(task'[g]) = {}
  BY <1>1, IdleFits, EmptyHands DEF Idle
<1> QED
  BY <1>1, <1>2, <1>3, TasksMove DEF HoldsOn

-----------------------------------------------------------------------------
(* 5. The theorems                                                         *)

LEMMA NextInv == ASSUME IInv, [Next]_vars PROVE IInv'
<1>1. CASE UNCHANGED vars
  <2> USE DEF vars, telegram, tables, history
  <2>1. \A c \in Copies : Uses(c)' \subseteq Uses(c)
    BY <1>1 DEF Uses
  <2>2. ASSUME NEW g \in Handlers PROVE TaskOK(g)'
    <3>1. \A c \in Marked(task[g]) : c \in Copies
      BY DEF IInv, TaskOK, Shape, Task, Marked
    <3> QED
      BY <1>1, <2>1, <3>1, OtherTask, CopiesUnchanged
  <2>3. Types'
    BY <1>1 DEF IInv, Types
  <2> QED
    BY <1>1, <2>2, <2>3, TasksMove DEF HoldsOn
<1>2. ASSUME NEW m \in Messages, NEW t \in Texts, NewMessage(m, t) \/ MessageEdited(m, t)
      PROVE  IInv'
  BY <1>2, NewMessageInv, MessageEditedInv
<1>3. ASSUME NEW m \in Messages, MessageDeleted(m) PROVE IInv'
  BY <1>3, MessageDeletedInv
<1>4. ASSUME NEW h \in Handlers, Step(h) PROVE IInv'
  <2>1. ASSUME NEW c \in Copies, NEW n \in Numbers, Relay(h, c, n) PROVE IInv'
    BY <2>1, RelayInv
  <2>2. ASSUME NEW c \in Copies, Forward(h, c) \/ UpsertEpisode(h, c) PROVE IInv'
    BY <2>2, ForwardInv, UpsertEpisodeInv
  <2>3. ASSUME NEW a \in AnimeIds, UpsertAnime(h, a) \/ RemoveAnime(h, a) PROVE IInv'
    BY <2>3, UpsertAnimeInv, RemoveAnimeInv
  <2>4. CASE Erase(h) \/ CallFails(h) \/ Backfill(h)
    BY <2>4, EraseInv, CallFailsInv, BackfillInv
  <2>5. CASE ListEpisodes(h) \/ Purge(h) \/ Drop(h)
    BY <2>5, ListEpisodesInv, PurgeInv, DropInv
  <2> QED
    BY <1>4, <2>1, <2>2, <2>3, <2>4, <2>5 DEF Step
<1>5. CASE (\E r \in Rows : Register(r)) \/ RefreshChannels
  BY <1>5, RegistrationInv
<1>6. CASE Unregister \/ Crash
  BY <1>6, UnregisterInv, CrashInv
<1> QED
  BY <1>1, <1>2, <1>3, <1>4, <1>5, <1>6 DEF Next

\* IInv holds in every state a listener reaches.
THEOREM Inductive == Spec => []IInv
<1>1. Init => IInv
  BY InitInv
<1>2. IInv /\ [Next]_vars => IInv'
  BY NextInv
<1> QED
  BY <1>1, <1>2, PTL DEF Spec

LEMMA IInvImplies ==
    ASSUME IInv
    PROVE  TypeOK /\ CopiesNotShared /\ ServedCopiesExist /\ CopyIsTheEpisode /\ ErasureSticks
<1>1. TypeOK
  <2>1. ASSUME NEW h \in Handlers
        PROVE  /\ Shape(task[h]) /\ OnAnime(task[h])
               /\ task[h].pc = "episode" => task[h].copies # {}
    BY DEF IInv, TaskOK, Shape
  <2> QED
    BY <2>1 DEF IInv, TypeOK, Shape, Importing, OnAnime
<1>2. ASSUME ~SourceIsStorage, NEW c \in Copies PROVE Cardinality(Uses(c)) <= 1
  <2>1. CASE Uses(c) = {}
    BY <2>1, FS_EmptySet
  <2>2. CASE Uses(c) # {}
    <3>1. PICK u \in Uses(c) : TRUE
      BY <2>2
    <3>2. Uses(c) = {u}
      BY <1>2, <3>1 DEF IInv, Storage
    <3>3. Cardinality({u}) = 1
      BY FS_Singleton, Zenon
    <3> QED
      BY <3>2, <3>3
  <2> QED
    BY <2>1, <2>2
<1>3. ServedCopiesExist
  <2> SUFFICES ASSUME ~SourceIsStorage,
                      NEW k \in AnimeIds \X Numbers, Undeleted(k), k[1] \notin purged
               PROVE  copies[episodes[k].copy] # NULL /\ episodes[k].copy \notin gone
    BY DEF ServedCopiesExist, IInv, Types
  <2> DEFINE c == episodes[k].copy
  <2>1. c \in Copies /\ copies[c] # NULL /\ <<"episode", k>> \in Uses(c)
    BY UsedCopies, Users DEF Undeleted, IInv
  <2>2. <<"episode", k>> \notin UsesBy(purged)
    BY DEF UsesBy
  <2>3. c \notin gone
    BY <2>1, <2>2 DEF IInv, Storage
  <2> QED
    BY <2>1, <2>3
<1>4. CopyIsTheEpisode
  BY DEF IInv, Types, Contents, CopyIsTheEpisode, MadeFor, Explained
<1> QED
  BY <1>1, <1>2, <1>3, <1>4 DEF IInv, CopiesNotShared, Posts

\* The variables of Listener have their types.
THEOREM ListenerTypeCorrect == Spec => []TypeOK
<1>1. IInv => TypeOK
  BY IInvImplies
<1> QED
  BY <1>1, Inductive, PTL

\* Where messages are forwarded, whatever imports and deletions overlap, fail
\* or are cut off, no message of the storage channel is the copy of two
\* episodes or posters, and none in use is in the hands of a task.
THEOREM OneUsePerCopy == Spec => []CopiesNotShared
<1>1. IInv => CopiesNotShared
  BY IInvImplies
<1> QED
  BY <1>1, Inductive, PTL

\* Where messages are forwarded, delete_messages never takes the copy of an
\* episode that is still on the list, but for those of the anime it deletes.
THEOREM DeletionSparesOthers == Spec => []ServedCopiesExist
<1>1. IInv => ServedCopiesExist
  BY IInvImplies
<1> QED
  BY <1>1, Inductive, PTL

\* The copy of an episode is of its title and number or was fetched for them,
\* in a storage channel of its own and in one that is the source, unless the
\* message was edited or deleted during its import or edited in the storage
\* channel.
THEOREM EpisodesShowThemselves == Spec => []CopyIsTheEpisode
<1>1. IInv => CopyIsTheEpisode
  BY IInvImplies
<1> QED
  BY <1>1, Inductive, PTL

\* No later import brings back the episode of a deleted message that the API
\* was told of, whatever rows the channel gets.
THEOREM ErasedStaysErased == Spec => []ErasureSticks
<1>1. IInv => ErasureSticks
  BY IInvImplies
<1> QED
  BY <1>1, Inductive, PTL

=============================================================================
