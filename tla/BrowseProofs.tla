---------------------------- MODULE BrowseProofs ----------------------------
(***************************************************************************)
(* Proofs about module Browse, for any catalogue, any sizes of pages, any  *)
(* number of messages in the chat, changes and restarts.                   *)
(***************************************************************************)
EXTENDS Browse, FiniteSetTheorems, SequenceTheorems, TLAPS

-----------------------------------------------------------------------------
(* 1. Sequences and pages.                                                 *)

\* What the pages before the n-th item hold together.
UpTo(s, n) == SubSeq(s, 1, Least(n, Len(s)))

LEMMA SubSeqIsSeq ==
    ASSUME NEW S, NEW s \in Seq(S), NEW m \in Int, NEW n \in Int, 1 <= m, n <= Len(s)
    PROVE  /\ SubSeq(s, m, n) \in Seq(S)
           /\ Len(SubSeq(s, m, n)) = IF m <= n THEN n - m + 1 ELSE 0
           /\ \A i \in 1..n - m + 1 : SubSeq(s, m, n)[i] = s[m + i - 1]
<1>1. Len(s) \in Nat
  BY LenProperties
<1>2. \A i \in m..n : s[i] \in S
  BY <1>1, ElementOfSeq
<1> QED
  BY <1>2, SubSeqProperties

\* A page joins what the pages before it hold; an empty one comes after the end.
LEMMA PagesJoin ==
    ASSUME NEW S, NEW s \in Seq(S), NEW page \in Nat \ {0}, NEW size \in Nat \ {0}
    PROVE  /\ PageOf(s, page, size) \in Seq(S)
           /\ UpTo(s, (page - 1) * size) \o PageOf(s, page, size) = UpTo(s, page * size)
           /\ PageOf(s, page, size) = <<>> => Len(s) <= (page - 1) * size
<1>1. PICK k \in Nat : k = (page - 1) * size
  OBVIOUS
<1>2. page * size = k + size
  BY <1>1
<1>3. Len(s) \in Nat
  BY LenProperties
<1>4. PICK n \in Nat : n = Least(page * size, Len(s))
  BY <1>2, <1>3 DEF Least
<1>5. n <= Len(s)
  BY <1>2, <1>3, <1>4 DEF Least
<1>6. PageOf(s, page, size) = SubSeq(s, k + 1, n)
  BY <1>1, <1>4 DEF PageOf
<1>7. PageOf(s, page, size) \in Seq(S)
  BY <1>5, <1>6, SubSeqIsSeq
<1>8. CASE k >= Len(s)
  <2>1. PageOf(s, page, size) = <<>>
    BY <1>5, <1>6, <1>8, <1>3, SubSeqEmpty
  <2>2. UpTo(s, k) = s /\ UpTo(s, k + size) = s
    BY <1>3, <1>8, SubSeqFull DEF UpTo, Least
  <2> QED
    BY <1>1, <1>2, <1>3, <1>7, <1>8, <2>1, <2>2, ConcatEmptySeq
<1>9. CASE k < Len(s)
  <2>1. k \in 0..Len(s) /\ n \in k..Len(s) /\ n > k
    BY <1>2, <1>3, <1>4, <1>9 DEF Least
  <2>2. SubSeq(s, 1, k) \o SubSeq(s, k + 1, n) = SubSeq(s, 1, n)
    BY <1>3, <2>1, ConcatAdjacentSubSeq
  <2>3. UpTo(s, k) = SubSeq(s, 1, k)
    BY <1>3, <1>9 DEF UpTo, Least
  <2>4. UpTo(s, page * size) = SubSeq(s, 1, n)
    BY <1>4 DEF UpTo
  <2>5. Len(PageOf(s, page, size)) # 0
    BY <1>3, <1>5, <1>6, <2>1, SubSeqIsSeq
  <2>6. PageOf(s, page, size) # <<>>
    BY <2>5, EmptySeq
  <2> QED
    BY <1>1, <1>6, <1>7, <2>2, <2>3, <2>4, <2>6
<1> QED
  BY <1>3, <1>8, <1>9

\* A row that is taken out leaves the others as they were.
LEMMA WithoutIsSeq ==
    ASSUME NEW S, NEW s \in Seq(S), NEW x
    PROVE  /\ Without(s, x) \in Seq(S)
           /\ x \in ToSet(s) =>
                 LET p == PlaceOf(s, x) IN
                 /\ p \in 1..Len(s) /\ s[p] = x
                 /\ Len(Without(s, x)) = Len(s) - 1
                 /\ \A i \in 1..Len(s) - 1 :
                       Without(s, x)[i] = IF i < p THEN s[i] ELSE s[i + 1]
<1>1. Len(s) \in Nat /\ DOMAIN s = 1..Len(s)
  BY LenProperties
<1>2. CASE x \notin ToSet(s)
  BY <1>2 DEF Without
<1>3. CASE x \in ToSet(s)
  <2>1. \E i \in DOMAIN s : s[i] = x
    BY <1>3 DEF ToSet
  <2>2. PICK p \in DOMAIN s : p = PlaceOf(s, x) /\ s[p] = x
    BY <2>1 DEF PlaceOf
  <2>3. p \in 1..Len(s)
    BY <1>1
  <2>4. Without(s, x) = SubSeq(s, 1, p - 1) \o SubSeq(s, p + 1, Len(s))
    BY <1>3, <2>2 DEF Without, RemoveAt
  <2>a. PICK q \in Nat : q = p - 1 /\ q <= Len(s)
    BY <1>1, <2>3
  <2>b. PICK r \in Int : r = p + 1 /\ 1 <= r
    BY <1>1, <2>3
  <2>5. PICK a \in Seq(S) : a = SubSeq(s, 1, q)
    <3>1. SubSeq(s, 1, q) \in Seq(S)
      BY <2>a, SubSeqIsSeq
    <3> QED
      BY <3>1
  <2>6. PICK b \in Seq(S) : b = SubSeq(s, r, Len(s))
    <3>1. SubSeq(s, r, Len(s)) \in Seq(S)
      BY <1>1, <2>b, SubSeqIsSeq
    <3> QED
      BY <3>1
  <2>7. Len(a) = p - 1 /\ \A i \in 1..p - 1 : a[i] = s[i]
    <3>1. /\ Len(a) = IF 1 <= q THEN q - 1 + 1 ELSE 0
          /\ \A i \in 1..q - 1 + 1 : a[i] = s[1 + i - 1]
      BY <1>1, <2>a, <2>5, SubSeqIsSeq
    <3> QED
      BY <1>1, <2>3, <2>a, <2>b, <3>1
  <2>8. Len(b) = Len(s) - p /\ \A i \in 1..Len(s) - p : b[i] = s[p + i]
    <3>1. /\ Len(b) = IF r <= Len(s) THEN Len(s) - r + 1 ELSE 0
          /\ \A i \in 1..Len(s) - r + 1 : b[i] = s[r + i - 1]
      BY <1>1, <2>b, <2>6, SubSeqIsSeq
    <3>2. Len(b) = Len(s) - p
      BY <1>1, <2>3, <2>b, <3>1
    <3>3. ASSUME NEW i \in 1..Len(s) - p PROVE b[i] = s[p + i]
      <4>1. i \in 1..Len(s) - r + 1 /\ r + i - 1 = p + i
        BY <1>1, <2>3, <2>b
      <4> QED
        BY <3>1, <4>1
    <3> QED
      BY <3>2, <3>3
  <2>9. PICK t \in Seq(S) : t = a \o b
    BY ConcatProperties
  <2>10. /\ Len(t) = Len(a) + Len(b)
         /\ \A i \in 1..Len(a) + Len(b) :
               t[i] = IF i <= Len(a) THEN a[i] ELSE b[i - Len(a)]
    BY <2>9, ConcatProperties
  <2>11. Len(t) = Len(s) - 1
    BY <1>1, <2>3, <2>7, <2>8, <2>10
  <2>12. ASSUME NEW i \in 1..Len(s) - 1
         PROVE  t[i] = IF i < p THEN s[i] ELSE s[i + 1]
    <3>1. t[i] = IF i <= p - 1 THEN a[i] ELSE b[i - (p - 1)]
      BY <1>1, <2>3, <2>7, <2>8, <2>10
    <3>2. CASE i < p
      BY <1>1, <2>3, <2>7, <3>1, <3>2
    <3>3. CASE i >= p
      <4>1. i - (p - 1) \in 1..Len(s) - p /\ p + (i - (p - 1)) = i + 1
        BY <1>1, <2>3, <3>3
      <4>2. b[i - (p - 1)] = s[i + 1]
        BY <2>8, <4>1
      <4> QED
        BY <2>3, <3>1, <3>3, <4>2
    <3> QED
      BY <2>3, <3>2, <3>3
  <2>13. Without(s, x) = t
    BY <2>4, <2>5, <2>6, <2>9, <2>a, <2>b
  <2> QED
    BY <2>2, <2>3, <2>11, <2>12, <2>13
<1> QED
  BY <1>2, <1>3

-----------------------------------------------------------------------------
(* 2. Types.                                                               *)

Row == [deleted: BOOLEAN, views: Nat, score: Nat, seasons: SUBSET (Nat \ {0})]

LEMMA InitTyped == Init => TypeOK
<1> SUFFICES ASSUME Init PROVE TypeOK
  OBVIOUS
<1>1. PICK start \in Starts :
        /\ anime = [a \in Animes |->
              [deleted |-> FALSE, views |-> start.score[a], score |-> start.score[a],
               seasons |-> start.seasons[a]]]
        /\ episode = [e \in Episodes |->
              [season |-> start.season[e], number |-> start.number[e], deleted |-> FALSE]]
        /\ favs = start.favs
        /\ history = start.history
        /\ watched = Reverse(start.history)
  BY DEF Init
<1>2. /\ start.score \in [Animes -> Nat]
      /\ start.seasons \in [Animes -> SUBSET (Nat \ {0})]
      /\ start.season \in [Episodes -> Nat]
      /\ start.number \in [Episodes -> Nat]
      /\ start.favs \in Seq(Animes)
      /\ start.history \in Seq(Episodes)
  BY StartsAreTables
<1>3. PICK h \in Seq(Episodes) : h = start.history
  BY <1>2
<1>4. Reverse(h) \in Seq(Episodes)
  <2>1. Len(h) \in Nat /\ h \in [1..Len(h) -> Episodes]
    BY LenProperties
  <2>2. Reverse(h) \in [1..Len(h) -> Episodes]
    BY <2>1 DEF Reverse
  <2> QED
    BY <2>1, <2>2, SeqDef
<1>5. searches \in Seq(Queries)
  BY EmptySeq DEF Init
<1>6. DOMAIN chat = Slots /\ \A i \in Slots : ScreenTyped(chat[i])
  BY DEF Init, NoScreen, ScreenTyped
<1>7. JobTyped(job)
  BY DEF Init, Idle, JobTyped
<1>8. restarts \in Nat /\ events \in Nat
  BY DEF Init
<1> QED
  BY <1>1, <1>2, <1>3, <1>4, <1>5, <1>6, <1>7, <1>8 DEF TypeOK

\* The message that comes to the chat is typed if what is sent is.
LEMMA ShowTyped ==
    ASSUME TypeOK, NEW c, ScreenTyped(c), Show(c)
    PROVE  DOMAIN chat' = Slots /\ \A i \in Slots : ScreenTyped(chat'[i])
<1>1. CASE UNCHANGED chat
  BY <1>1 DEF TypeOK
<1>2. CASE \E i \in Slots : chat' = [chat EXCEPT ![i] = c]
  BY <1>2 DEF TypeOK
<1> QED
  BY <1>1, <1>2 DEF Show

LEMMA CountingTyped ==
    ASSUME NEW c, ListScreenTyped(c)
    PROVE  JobTyped(Counting(c))
<1>1. PICK j : j = [at |-> "count", screen |-> c, total |-> 0, fresh |-> FALSE]
  OBVIOUS
<1>2. j.at = "count" /\ j.screen = c /\ j.fresh = FALSE
  BY <1>1
<1>3. j \in [at: {"count", "select"}, screen: {j.screen}, total: Nat, fresh: BOOLEAN]
  BY <1>1
<1>4. JobTyped(j)
  BY <1>2, <1>3 DEF JobTyped
<1> QED
  BY <1>1, <1>4 DEF Counting

\* The first page of a list, from the moment it is counted.
LEMMA FirstPageTyped ==
    ASSUME NEW l, ListTyped(l), restarts \in Nat
    PROVE  /\ ListScreenTyped(FirstPage(l))
           /\ JobTyped(Counting(FirstPage(l)))
<1>1. l.query \in Queries \cup {""}
  BY DEF ListTyped
<1>2. PICK c : c = [kind |-> "list", list |-> l, page |-> 1, items |-> <<>>,
                      next |-> FALSE, seen |-> <<>>, walked |-> TRUE, steady |-> TRUE,
                      asked |-> l.query, strayed |-> FALSE, direct |-> FALSE,
                      era |-> restarts]
  OBVIOUS
<1>3. FirstPage(l) = c
  BY <1>2 DEF FirstPage, ListScreen
<1>4. c.list = l /\ <<>> \in Seq(RowsOf(l)) /\ 1 \in Nat \ {0}
  BY <1>2, EmptySeq
<1>5. ListScreenTyped(c)
  BY <1>1, <1>2, <1>4 DEF ListScreenTyped
<1> QED
  BY <1>3, <1>5, CountingTyped


\* What a list screen has, field by field.
LEMMA ListScreenFields ==
    ASSUME NEW c, ListScreenTyped(c)
    PROVE  /\ c.kind = "list" /\ ListTyped(c.list)
           /\ c.page \in Nat \ {0} /\ c.era \in Nat
           /\ c.items \in Seq(RowsOf(c.list)) /\ c.seen \in Seq(RowsOf(c.list))
           /\ {c.next, c.walked, c.steady, c.strayed, c.direct} \subseteq BOOLEAN
           /\ c.asked \in Queries \cup {""}
  BY DEF ListScreenTyped

LEMMA ListsTyped ==
    /\ \A sort \in Sorts : ListTyped(List("s", sort, ""))
    /\ \A g \in Genres : ListTyped(List("gg", g, ""))
    /\ \A q \in Queries, n \in Nat : ListTyped(List("sq", n, q))
    /\ ListTyped(List("favorites", 0, ""))
    /\ \A a \in Animes, s \in Nat : ListTyped(List("e", <<a, s>>, ""))
<1>1. \A sort \in Sorts : ListTyped(List("s", sort, ""))
  BY DEF ListTyped, List
<1>2. \A g \in Genres : ListTyped(List("gg", g, ""))
  BY DEF ListTyped, List
<1>3. \A q \in Queries, n \in Nat : ListTyped(List("sq", n, q))
  BY DEF ListTyped, List
<1>4. ListTyped(List("favorites", 0, ""))
  BY DEF ListTyped, List
<1>5. \A a \in Animes, s \in Nat : ListTyped(List("e", <<a, s>>, ""))
  BY DEF ListTyped, List
<1> QED
  BY <1>1, <1>2, <1>3, <1>4, <1>5

LEMMA RepeatedTyped ==
    ASSUME TypeOK, NEW c, ListScreenTyped(c), NEW page \in Nat \ {0},
           NEW walked \in BOOLEAN,
           c.list.of = "sq" => c.list.arg \in DOMAIN searches
    PROVE  ListScreenTyped(Repeated(c, page, walked))
<1> DEFINE l == IF c.list.of = "sq" THEN [c.list EXCEPT !.query = searches[c.list.arg]]
                                    ELSE c.list
           seen == IF walked THEN c.seen ELSE <<>>
           strayed == c.strayed \/ (c.list.of = "sq" /\ c.era # restarts)
<1>1. ListTyped(l) /\ RowsOf(l) = RowsOf(c.list)
  <2>1. CASE c.list.of = "sq"
    <3>1. c.list \in [of: {"sq"}, arg: Nat, query: Queries]
      BY <2>1, ListScreenFields DEF ListTyped
    <3>2. searches[c.list.arg] \in Queries
      <4>1. searches \in Seq(Queries)
        BY DEF TypeOK
      <4> QED
        BY <2>1, <4>1, LenProperties, ElementOfSeq
    <3>3. PICK m : m = [c.list EXCEPT !.query = searches[c.list.arg]]
      OBVIOUS
    <3>4. m \in [of: {"sq"}, arg: Nat, query: Queries] /\ m.of = "sq"
      BY <3>1, <3>2, <3>3
    <3> QED
      BY <2>1, <3>3, <3>4 DEF ListTyped, RowsOf
  <2>2. CASE c.list.of # "sq"
    BY <2>2, ListScreenFields
  <2> QED
    BY <2>1, <2>2
<1>2. PICK m : m = l
  OBVIOUS
<1>3. PICK d : d = [kind |-> "list", list |-> m, page |-> page, items |-> <<>>,
                    next |-> FALSE, seen |-> seen, walked |-> walked,
                    steady |-> c.steady, asked |-> c.asked, strayed |-> strayed,
                    direct |-> c.direct, era |-> restarts]
  OBVIOUS
<1>4. Repeated(c, page, walked) = d
  BY <1>2, <1>3 DEF Repeated, ListScreen
<1>5. d.list = m /\ ListTyped(m) /\ <<>> \in Seq(RowsOf(m))
  BY <1>1, <1>2, <1>3, EmptySeq
<1>6. seen \in Seq(RowsOf(m))
  BY <1>1, <1>2, <1>5, ListScreenFields
<1>7. /\ c.steady \in BOOLEAN /\ c.direct \in BOOLEAN /\ strayed \in BOOLEAN
      /\ c.asked \in Queries \cup {""} /\ restarts \in Nat
  BY ListScreenFields DEF TypeOK
<1>8. ListScreenTyped(d)
  BY <1>3, <1>5, <1>6, <1>7 DEF ListScreenTyped
<1> QED
  BY <1>4, <1>8

\* A handler starts.
LEMMA BeginTyped ==
    ASSUME TypeOK, NEW j, JobTyped(j), Begin(j)
    PROVE  TypeOK'
  BY DEF TypeOK, Begin, tables

LEMMA GettingTyped ==
    ASSUME NEW a \in Animes, NEW watch \in BOOLEAN
    PROVE  JobTyped(Getting(a, watch))
  BY DEF JobTyped, Getting

LEMMA HandlersTyped ==
    ASSUME TypeOK, HandleStart \/ HandleSearch \/ Menu \/ GenreMenu
    PROVE  TypeOK'
<1>1. CASE HandleStart
  BY <1>1, GettingTyped, BeginTyped DEF HandleStart
<1>2. CASE HandleSearch
  <2>1. PICK q \in Queries :
           Begin([Counting(FirstPage(List("sq", 0, q))) EXCEPT !.fresh = TRUE])
    BY <1>2 DEF HandleSearch
  <2>2. PICK l : l = List("sq", 0, q)
    OBVIOUS
  <2>3. ListTyped(l) /\ l.of = "sq"
    BY <2>2, ListsTyped DEF List
  <2>a. PICK c : c = FirstPage(l)
    OBVIOUS
  <2>4. ListScreenTyped(c) /\ c.list = l
    <3>1. ListScreenTyped(c)
      BY <2>a, <2>3, FirstPageTyped DEF TypeOK
    <3>2. c.list = l
      BY <2>a DEF FirstPage, ListScreen
    <3> QED
      BY <3>1, <3>2
  <2>5. PICK k : k = Counting(c)
    OBVIOUS
  <2>6. PICK j : j = [k EXCEPT !.fresh = TRUE]
    OBVIOUS
  <2> DEFINE S == [at: {"count", "select"}, screen: {c}, total: Nat, fresh: BOOLEAN]
  <2>7. k \in S /\ k.at = "count"
    BY <2>5 DEF Counting
  <2>8. j \in S /\ j.at = "count" /\ j.screen = c
    BY <2>6, <2>7
  <2>9. JobTyped(j)
    BY <2>3, <2>4, <2>8 DEF JobTyped
  <2> QED
    BY <2>1, <2>2, <2>a, <2>5, <2>6, <2>9, BeginTyped
<1>3. CASE Menu
  <2>1. CASE Begin([at |-> "history"])
    <3>1. JobTyped([at |-> "history"])
      BY DEF JobTyped
    <3> QED
      BY <2>1, <3>1, BeginTyped
  <2>2. ASSUME NEW l, ListTyped(l), Begin(Counting(FirstPage(l))) PROVE TypeOK'
    BY <2>2, FirstPageTyped, BeginTyped DEF TypeOK
  <2> QED
    BY <1>3, <2>1, <2>2, ListsTyped DEF Menu, Sorts
<1>4. CASE GenreMenu
  <2>2. ASSUME NEW l, ListTyped(l), Begin(Counting(FirstPage(l))) PROVE TypeOK'
    BY <2>2, FirstPageTyped, BeginTyped DEF TypeOK
  <2> QED
    BY <1>4, <2>2, ListsTyped DEF GenreMenu
<1> QED
  BY <1>1, <1>2, <1>3, <1>4

\* The fields of the screens that are not lists, and of the handlers.
LEMMA ScreenFields ==
    ASSUME NEW c, ScreenTyped(c)
    PROVE  /\ c.kind = "list" => ListScreenTyped(c)
           /\ c.kind = "detail" => c \in [kind: {"detail"}, anime: Animes, read: BOOLEAN,
                                          label: BOOLEAN, steady: BOOLEAN]
           /\ c.kind = "seasons" => c \in [kind: {"seasons"}, anime: Animes,
                                           seasons: SUBSET Nat, steady: BOOLEAN]
           /\ c.kind = "history" => c \in [kind: {"history"}, steady: BOOLEAN,
                                           items: Seq(Episodes)]
  BY DEF ScreenTyped

LEMMA UnsteadyTyped ==
    ASSUME NEW c, ScreenTyped(c)
    PROVE  ScreenTyped(Unsteady(c)) /\ Unsteady(c).kind = c.kind
<1>1. CASE c.kind = "list"
  <2>1. ListScreenTyped(c)
    BY <1>1 DEF ScreenTyped
  <2>2. PICK d : d = [c EXCEPT !.steady = FALSE]
    OBVIOUS
  <2>3. d.list = c.list /\ d.kind = "list"
    BY <2>1, <2>2 DEF ListScreenTyped
  <2>4. ListScreenTyped(d)
    BY <2>1, <2>2, <2>3 DEF ListScreenTyped
  <2> QED
    BY <1>1, <2>2, <2>3, <2>4 DEF ScreenTyped, Unsteady
<1>2. CASE c.kind = "detail"
  <2> DEFINE S == [kind: {"detail"}, anime: Animes, read: BOOLEAN, label: BOOLEAN, steady: BOOLEAN]
  <2>1. PICK d : d = [c EXCEPT !.steady = FALSE]
    OBVIOUS
  <2>2. d.kind = "detail" /\ d \in S
    <3>1. c \in S
      BY <1>2, ScreenFields
    <3> QED
      BY <2>1, <3>1
  <2>3. Unsteady(c) = d
    BY <1>2, <2>1 DEF Unsteady
  <2>4. ScreenTyped(d)
    BY <2>2 DEF ScreenTyped
  <2> QED
    BY <1>2, <2>2, <2>3, <2>4
<1>3. CASE c.kind = "seasons"
  <2> DEFINE S == [kind: {"seasons"}, anime: Animes, seasons: SUBSET Nat, steady: BOOLEAN]
  <2>1. PICK d : d = [c EXCEPT !.steady = FALSE]
    OBVIOUS
  <2>2. d.kind = "seasons" /\ d \in S
    <3>1. c \in S
      BY <1>3, ScreenFields
    <3> QED
      BY <2>1, <3>1
  <2>3. Unsteady(c) = d
    BY <1>3, <2>1 DEF Unsteady
  <2>4. ScreenTyped(d)
    BY <2>2 DEF ScreenTyped
  <2> QED
    BY <1>3, <2>2, <2>3, <2>4
<1>4. CASE c.kind = "history"
  <2> DEFINE S == [kind: {"history"}, steady: BOOLEAN, items: Seq(Episodes)]
  <2>1. PICK d : d = [c EXCEPT !.steady = FALSE]
    OBVIOUS
  <2>2. d.kind = "history" /\ d \in S
    <3>1. c \in S
      BY <1>4, ScreenFields
    <3> QED
      BY <2>1, <3>1
  <2>3. Unsteady(c) = d
    BY <1>4, <2>1 DEF Unsteady
  <2>4. ScreenTyped(d)
    BY <2>2 DEF ScreenTyped
  <2> QED
    BY <1>4, <2>2, <2>3, <2>4
<1>5. CASE c.kind \notin {"list", "detail", "seasons", "history"}
  <2>1. c = NoScreen
    BY <1>5 DEF ScreenTyped
  <2> QED
    BY <2>1 DEF ScreenTyped, Unsteady, NoScreen
<1> QED
  BY <1>1, <1>2, <1>3, <1>4, <1>5

LEMMA ToSetIn ==
    ASSUME NEW S, NEW s \in Seq(S), NEW x \in ToSet(s)
    PROVE  /\ x \in S
           /\ \E i \in 1..Len(s) : s[i] = x
  BY LenProperties DEF ToSet

\* A button back leads to an anime.
LEMMA BackButton ==
    ASSUME NEW c, ScreenTyped(c), PressBack(c)
    PROVE  \E a \in Animes : Begin(Getting(a, FALSE))
<1>1. CASE c.kind = "seasons" /\ Begin(Getting(c.anime, FALSE))
  <2>1. c \in [kind: {"seasons"}, anime: Animes, seasons: SUBSET Nat, steady: BOOLEAN]
    BY <1>1, ScreenFields
  <2>2. c.anime \in Animes
    BY <2>1
  <2> QED
    BY <1>1, <2>2
<1>2. CASE c.kind = "list" /\ c.list.of = "e" /\ Begin(Getting(c.list.arg[1], FALSE))
  <2>1. PICK l : l = c.list /\ ListTyped(l) /\ l.of = "e"
    BY <1>2, ScreenFields, ListScreenFields
  <2>2. l \in [of: {"e"}, arg: Animes \X Nat, query: {""}]
    BY <2>1 DEF ListTyped
  <2>3. l.arg \in Animes \X Nat
    BY <2>2
  <2>4. l.arg[1] \in Animes
    BY <2>3
  <2> QED
    BY <1>2, <2>1, <2>4
<1> QED
  BY <1>1, <1>2 DEF PressBack

LEMMA PressTyped ==
    ASSUME TypeOK, NEW c, ScreenTyped(c),
           \/ PressItem(c) \/ PressPage(c) \/ PressSeason(c) \/ PressWatch(c)
           \/ PressBack(c)
    PROVE  TypeOK'
<1>1. CASE PressItem(c)
  <2>1. PICK x \in ToSet(c.items) :
           IF c.kind = "history" \/ c.list.of = "e"
           THEN Begin([at |-> "deliver", episode |-> x])
           ELSE Begin(Getting(x, FALSE))
    BY <1>1 DEF PressItem
  <2>2. c.kind = "history" => x \in Episodes
    BY ScreenFields, ToSetIn
  <2>3. c.kind # "history" => x \in RowsOf(c.list)
    <3>1. ASSUME c.kind = "list" PROVE c.items \in Seq(RowsOf(c.list))
      BY <3>1, ScreenFields, ListScreenFields
    <3> QED
      BY <1>1, <3>1, ToSetIn DEF PressItem
  <2>4. ASSUME x \in Episodes PROVE JobTyped([at |-> "deliver", episode |-> x])
    BY <2>4 DEF JobTyped
  <2> QED
    BY <2>1, <2>2, <2>3, <2>4, BeginTyped, GettingTyped DEF RowsOf
<1>2. CASE PressPage(c)
  <2>1. ListScreenTyped(c) /\ (c.list.of = "sq" => c.list.arg \in DOMAIN searches)
    BY <1>2, ScreenFields DEF PressPage
  <2>2. c.page \in Nat \ {0} /\ c.walked \in BOOLEAN
    BY <2>1, ListScreenFields
  <2>3. ASSUME NEW n \in Nat \ {0}, NEW w \in BOOLEAN,
               Begin(Counting(Repeated(c, n, w)))
        PROVE  TypeOK'
    BY <2>1, <2>3, RepeatedTyped, CountingTyped, BeginTyped
  <2>4. CASE Begin(Counting(Repeated(c, c.page + 1, c.walked)))
    BY <2>2, <2>3, <2>4
  <2>5. CASE c.page > 1 /\ Begin(Counting(Repeated(c, c.page - 1, FALSE)))
    <3>1. c.page - 1 \in Nat \ {0} /\ FALSE \in BOOLEAN
      BY <2>2, <2>5
    <3> QED
      BY <2>3, <2>5, <3>1
  <2> QED
    BY <1>2, <2>4, <2>5 DEF PressPage
<1>3. CASE PressSeason(c)
  <2>1. PICK s \in c.seasons : Begin(Counting(FirstPage(List("e", <<c.anime, s>>, ""))))
    BY <1>3 DEF PressSeason
  <2>2. c.anime \in Animes /\ s \in Nat
    <3>1. c \in [kind: {"seasons"}, anime: Animes, seasons: SUBSET Nat, steady: BOOLEAN]
      BY <1>3, ScreenFields DEF PressSeason
    <3>2. c.anime \in Animes /\ c.seasons \in SUBSET Nat
      BY <3>1
    <3> QED
      BY <2>1, <3>2
  <2> QED
    BY <2>1, <2>2, ListsTyped, FirstPageTyped, BeginTyped DEF TypeOK
<1>4. CASE PressWatch(c)
  <2>1. c.anime \in Animes
    BY <1>4, ScreenFields DEF PressWatch
  <2>2. JobTyped([at |-> "seasons", anime |-> c.anime, steady |-> TRUE])
    BY <2>1 DEF JobTyped
  <2> QED
    BY <1>4, <2>2, BeginTyped DEF PressWatch
<1>5. CASE PressBack(c)
  <2>1. PICK a \in Animes : Begin(Getting(a, FALSE))
    BY <1>5, BackButton
  <2> QED
    BY <2>1, BeginTyped, GettingTyped
<1> QED
  BY <1>1, <1>2, <1>3, <1>4, <1>5

\* A message that only became unsteady, or not even that.
Faded(c, d) == d = c \/ d = Unsteady(c)

LEMMA FadedTyped ==
    ASSUME TypeOK, DOMAIN chat' = Slots, \A i \in Slots : Faded(chat[i], chat'[i])
    PROVE  \A i \in Slots : ScreenTyped(chat'[i])
  BY UnsteadyTyped DEF TypeOK, Faded

LEMMA PressFavoriteTyped ==
    ASSUME TypeOK, NEW c, ScreenTyped(c), PressFavorite(c)
    PROVE  TypeOK'
<1>1. c.anime \in Animes
  BY ScreenFields DEF PressFavorite
<1>2. favs' \in Seq(Animes)
  <2>1. <<c.anime>> \in Seq(Animes)
    BY <1>1
  <2>2. favs \in Seq(Animes)
    BY DEF TypeOK
  <2>3. <<c.anime>> \o favs \in Seq(Animes) /\ Without(favs, c.anime) \in Seq(Animes)
    BY <2>1, <2>2, ConcatProperties, WithoutIsSeq
  <2> QED
    BY <2>3 DEF PressFavorite
<1>3. DOMAIN chat' = Slots /\ \A i \in Slots : Faded(chat[i], chat'[i])
  BY DEF PressFavorite, Faded
<1>4. DOMAIN chat' = Slots /\ \A i \in Slots : ScreenTyped(chat'[i])
  BY <1>3, FadedTyped
<1>5. JobTyped(job')
  BY <1>1, GettingTyped DEF PressFavorite
<1>6. UNCHANGED <<anime, episode, history, searches, restarts, watched>>
  BY DEF PressFavorite
<1>7. events' \in Nat
  BY DEF TypeOK, PressFavorite, Event
<1> QED
  BY <1>2, <1>4, <1>5, <1>6, <1>7 DEF TypeOK

\* A list is of rows of its table, and COUNT counts at least them.
LEMMA SelectedRows ==
    ASSUME TypeOK, NEW l, ListTyped(l)
    PROVE  /\ Selected(l) \subseteq Counted(l) /\ Counted(l) \subseteq RowsOf(l)
           /\ IsFiniteSet(Selected(l)) /\ IsFiniteSet(Counted(l))
           /\ Cardinality(Selected(l)) \in Nat /\ Cardinality(Counted(l)) \in Nat
           /\ Cardinality(Selected(l)) <= Cardinality(Counted(l))
           /\ Cardinality(Selected(l)) = Cardinality(Counted(l)) => Selected(l) = Counted(l)
<1>1. Selected(l) \subseteq Counted(l)
  BY DEF Selected, Counted
<1>2. Counted(l) \subseteq RowsOf(l)
  <2>1. CASE l.of = "s"
    BY <2>1 DEF Selected, Counted, RowsOf
  <2>2. CASE l.of = "gg"
    <3>1. Tagged[l.arg] \subseteq Animes
      BY <2>2, SearchesFindAnimes DEF ListTyped
    <3> QED
      BY <2>2, <3>1 DEF Selected, Counted, RowsOf
  <2>3. CASE l.of = "sq"
    <3>1. Matches[l.query] \subseteq Animes
      BY <2>3, SearchesFindAnimes DEF ListTyped
    <3> QED
      BY <2>3, <3>1 DEF Selected, Counted, RowsOf
  <2>4. CASE l.of = "favorites"
    <3>1. ToSet(favs) \subseteq Animes
      BY ToSetIn DEF TypeOK
    <3> QED
      BY <2>4, <3>1 DEF Counted, RowsOf
  <2>5. CASE l.of = "e"
    BY <2>5 DEF Selected, Counted, RowsOf, EpisodesOf
  <2> QED
    BY <2>1, <2>2, <2>3, <2>4, <2>5 DEF ListTyped
<1>3. IsFiniteSet(RowsOf(l))
  BY TablesAreFinite DEF RowsOf
<1>4. IsFiniteSet(Counted(l))
  BY <1>2, <1>3, FS_Subset
<1> QED
  BY <1>1, <1>2, <1>4, FS_Subset, FS_CardinalityType

LEMMA OrdersAreSeqs ==
    ASSUME TypeOK, NEW l, ListTyped(l), NEW s \in Orders(l)
    PROVE  /\ s \in Seq(Selected(l)) /\ s \in Seq(RowsOf(l))
           /\ Len(s) = Cardinality(Selected(l))
           /\ \A i, j \in 1..Len(s) : i # j => s[i] # s[j]
<1>1. PICK n \in Nat : n = Cardinality(Selected(l))
  BY SelectedRows
<1>2. s \in [1..n -> Selected(l)]
  BY <1>1 DEF Orders
<1>3. s \in Seq(Selected(l))
  BY <1>2, SeqDef
<1>4. Len(s) = n
  BY <1>2, <1>3, LenProperties
<1>5. s \in Seq(RowsOf(l))
  BY <1>3, SelectedRows, SeqMonotonic
<1>6. \A i, j \in 1..n : i < j => s[i] # s[j]
  BY <1>1, <1>2 DEF Orders
<1>7. \A i, j \in 1..n : i # j => s[i] # s[j]
  BY <1>6
<1> QED
  BY <1>1, <1>3, <1>4, <1>5, <1>7

\* The fields of the handlers.
LEMMA JobFields ==
    ASSUME NEW j, JobTyped(j)
    PROVE  /\ j.at \in {"count", "select"} =>
                 /\ ListScreenTyped(j.screen)
                 /\ j \in [at: {"count", "select"}, screen: {j.screen}, total: Nat,
                           fresh: BOOLEAN]
                 /\ j.fresh => j.screen.list.of = "sq"
           /\ j.at \in {"get", "view", "label"} =>
                 j \in [at: {"get", "view", "label"}, anime: Animes, watch: BOOLEAN,
                        steady: BOOLEAN]
           /\ j.at = "seasons" =>
                 j \in [at: {"seasons"}, anime: Animes, steady: BOOLEAN]
           /\ j.at \in {"deliver", "progress"} =>
                 j \in [at: {"deliver", "progress"}, episode: Episodes]
  BY DEF JobTyped

LEMMA QuietTyped ==
    ASSUME TypeOK, JobTyped(job'),
           UNCHANGED <<tables, searches, chat, restarts, events, watched>>
    PROVE  TypeOK'
  BY DEF TypeOK, tables

LEMMA IdleTyped == JobTyped(Idle)
  BY DEF JobTyped, Idle

LEMMA CountTyped ==
    ASSUME TypeOK, Count
    PROVE  TypeOK'
<1>1. JobTyped(job) /\ job.at = "count"
  BY DEF TypeOK, Count
<1>2. ListScreenTyped(job.screen)
  BY <1>1, JobFields
<1>3. PICK n \in Nat : n = Cardinality(Counted(job.screen.list))
  BY <1>2, SelectedRows, ListScreenFields
<1> DEFINE S == [at: {"count", "select"}, screen: {job.screen}, total: Nat, fresh: BOOLEAN]
<1>4. job \in S
  BY <1>1, JobFields
<1>5. PICK j : j = [job EXCEPT !.at = "select", !.total = n]
  OBVIOUS
<1>6. j \in S /\ j.at = "select" /\ j.screen = job.screen /\ j.fresh = job.fresh
  BY <1>4, <1>5
<1>7. JobTyped(j)
  BY <1>1, <1>2, <1>6, JobFields DEF JobTyped
<1>8. job' = j
  BY <1>3, <1>5 DEF Count
<1> QED
  BY <1>7, <1>8, QuietTyped DEF Count

\* The list on the screen, before and after its token is written on it.
LEMMA FilledTyped ==
    ASSUME NEW c, ListScreenTyped(c), NEW items \in Seq(RowsOf(c.list)), NEW total
    PROVE  LET d == Filled(c, items, total) IN
           /\ ListScreenTyped(d) /\ d.list = c.list
           /\ \A n \in Nat : c.list.of = "sq" =>
                 ListScreenTyped([d EXCEPT !.list.arg = n])
<1> DEFINE next == items # <<>> /\ HasNext(c.page, SizeOf(c.list), total)
           S(l) == [kind: {"list"}, list: {l}, page: Nat \ {0},
                    items: Seq(RowsOf(c.list)), next: BOOLEAN,
                    seen: Seq(RowsOf(c.list)), walked: BOOLEAN, steady: BOOLEAN,
                    asked: Queries \cup {""}, strayed: BOOLEAN, direct: BOOLEAN,
                    era: Nat]
<1>1. c \in S(c.list) /\ ListTyped(c.list)
  BY DEF ListScreenTyped
<1>2. next \in BOOLEAN
  OBVIOUS
<1>3. c.seen \o items \in Seq(RowsOf(c.list))
  BY ListScreenFields, ConcatProperties
<1>4. PICK d : d = Filled(c, items, total)
  OBVIOUS
<1>5. d = [c EXCEPT !.items = items, !.next = next, !.seen = c.seen \o items]
  BY <1>4 DEF Filled
<1>6. d \in S(c.list)
  <2> HIDE DEF next
  <2> QED
    BY <1>1, <1>2, <1>3, <1>5
<1>7. d.list = c.list
  BY <1>6
<1>8. ListScreenTyped(d)
  BY <1>1, <1>6, <1>7 DEF ListScreenTyped
<1>9. ASSUME NEW n \in Nat, c.list.of = "sq"
      PROVE  ListScreenTyped([d EXCEPT !.list.arg = n])
  <2>1. c.list \in [of: {"sq"}, arg: Nat, query: Queries]
    BY <1>1, <1>9 DEF ListTyped
  <2>2. PICK l : l = [c.list EXCEPT !.arg = n]
    OBVIOUS
  <2>3. l \in [of: {"sq"}, arg: Nat, query: Queries] /\ l.of = "sq"
    BY <2>1, <2>2
  <2>4. ListTyped(l) /\ RowsOf(l) = RowsOf(c.list)
    BY <1>9, <2>3 DEF ListTyped, RowsOf
  <2>5. PICK e : e = [d EXCEPT !.list.arg = n]
    OBVIOUS
  <2>6. e = [d EXCEPT !.list = l]
    BY <1>7, <2>2, <2>5
  <2>7. e \in S(l)
    BY <1>6, <2>6
  <2>8. ListScreenTyped(e)
    BY <2>4, <2>7 DEF ListScreenTyped
  <2> QED
    BY <2>5, <2>8
<1> QED
  BY <1>4, <1>7, <1>8, <1>9

LEMMA SelectTyped ==
    ASSUME TypeOK, Select
    PROVE  TypeOK'
<1> DEFINE c == job.screen
           l == c.list
<1>1. JobTyped(job) /\ job.at = "select"
  BY DEF TypeOK, Select
<1>2. ListScreenTyped(c) /\ ListTyped(l) /\ (job.fresh => l.of = "sq")
  BY <1>1, JobFields, ListScreenFields
<1>3. PICK s \in Orders(l) :
        LET full == Filled(c, PageOf(s, c.page, SizeOf(l)), job.total)
        IN IF job.fresh
           THEN /\ Event
                /\ searches' = Append(searches, l.query)
                /\ Show([full EXCEPT !.list.arg = Token(l.query)])
           ELSE /\ UNCHANGED <<searches, events>>
                /\ Show(full)
  BY DEF Select
<1>4. PICK items : items = PageOf(s, c.page, SizeOf(l))
  OBVIOUS
<1>5. items \in Seq(RowsOf(l))
  <2>1. c.page \in Nat \ {0} /\ SizeOf(l) \in Nat \ {0}
    BY <1>2, ListScreenFields, SizesArePositive DEF SizeOf
  <2> QED
    BY <1>2, <1>4, <2>1, OrdersAreSeqs, PagesJoin
<1>6. PICK full : full = Filled(c, items, job.total)
  OBVIOUS
<1>7. ListScreenTyped(full)
  BY <1>2, <1>5, <1>6, FilledTyped
<1>8. searches' \in Seq(Queries) /\ events' \in Nat
      /\ DOMAIN chat' = Slots /\ \A i \in Slots : ScreenTyped(chat'[i])
  <2>1. CASE ~job.fresh
    <3>1. ScreenTyped(full) /\ Show(full)
      BY <1>3, <1>4, <1>6, <1>7, <2>1, ListScreenFields DEF ScreenTyped
    <3> QED
      BY <1>3, <2>1, <3>1, ShowTyped DEF TypeOK
  <2>2. CASE job.fresh
    <3>1. PICK d : d = [full EXCEPT !.list.arg = Token(l.query)]
      OBVIOUS
    <3>2. Token(l.query) \in Nat /\ searches \in Seq(Queries)
      BY LenProperties DEF TypeOK, Token
    <3>3. ListScreenTyped(d)
      BY <1>2, <1>5, <1>6, <2>2, <3>1, <3>2, FilledTyped
    <3>4. ScreenTyped(d) /\ Show(d)
      BY <1>3, <1>4, <1>6, <2>2, <3>1, <3>3, ListScreenFields DEF ScreenTyped
    <3>5. l.query \in Queries
      BY <1>2, <2>2 DEF ListTyped
    <3>6. searches' \in Seq(Queries)
      BY <1>3, <2>2, <3>2, <3>5, AppendProperties
    <3>7. events' \in Nat
      BY <1>3, <2>2 DEF Event, TypeOK
    <3> QED
      BY <3>4, <3>6, <3>7, ShowTyped
  <2> QED
    BY <2>1, <2>2
<1>9. job' = Idle /\ UNCHANGED <<tables, restarts, watched>>
  BY DEF Select
<1> QED
  BY <1>8, <1>9, IdleTyped DEF TypeOK, tables

LEMMA AnimeCallsTyped ==
    ASSUME TypeOK, GetAnime \/ RecordAnimeView \/ ListSeasonsFails \/ CallFails
    PROVE  TypeOK'
<1>1. JobTyped(job)
  BY DEF TypeOK
<1>2. ASSUME job.at \in {"get", "view", "label"}
      PROVE  /\ \A at \in {"view", "label"} : JobTyped([job EXCEPT !.at = at])
             /\ JobTyped([at |-> "seasons", anime |-> job.anime, steady |-> job.steady])
             /\ job.watch \in BOOLEAN
  <2> DEFINE S == [at: {"get", "view", "label"}, anime: Animes, watch: BOOLEAN,
                   steady: BOOLEAN]
  <2>1. job \in S
    BY <1>1, <1>2, JobFields
  <2>2. ASSUME NEW at \in {"view", "label"} PROVE JobTyped([job EXCEPT !.at = at])
    <3>1. PICK j : j = [job EXCEPT !.at = at]
      OBVIOUS
    <3>2. j \in S /\ j.at = at
      BY <2>1, <3>1
    <3>3. JobTyped(j)
      BY <3>2 DEF JobTyped
    <3> QED
      BY <3>1, <3>3
  <2>3. job.anime \in Animes /\ job.steady \in BOOLEAN /\ job.watch \in BOOLEAN
    BY <2>1
  <2>4. JobTyped([at |-> "seasons", anime |-> job.anime, steady |-> job.steady])
    BY <2>3 DEF JobTyped
  <2> QED
    BY <2>2, <2>3, <2>4
<1>3. CASE GetAnime
  BY <1>2, <1>3, IdleTyped, QuietTyped DEF GetAnime
<1>4. CASE RecordAnimeView
  <2>1. JobTyped(job')
    BY <1>2, <1>4 DEF RecordAnimeView
  <2>2. anime' \in [Animes -> Row]
        /\ events' \in Nat
    <3>1. CASE UNCHANGED <<anime, events>>
      BY <3>1 DEF TypeOK, Row
    <3>2. CASE Event /\ anime' = [anime EXCEPT ![job.anime].views = @ + 1]
      <4>1. job.anime \in Animes
        BY <1>1, <1>4, JobFields DEF RecordAnimeView
      <4>2. anime[job.anime] \in Row
        BY <4>1 DEF TypeOK, Row
      <4>3. anime[job.anime].views + 1 \in Nat
        BY <4>2 DEF Row
      <4>4. PICK n \in Nat : n = anime[job.anime].views + 1
        BY <4>3
      <4>5. anime' = [anime EXCEPT ![job.anime].views = n]
        BY <3>2, <4>4
      <4>6. anime' \in [Animes -> Row]
        BY <4>1, <4>5 DEF TypeOK, Row
      <4> QED
        BY <3>2, <4>6, SMTT(30) DEF TypeOK, Event
    <3> QED
      BY <1>4, <3>1, <3>2 DEF RecordAnimeView
  <2>3. UNCHANGED <<episode, favs, history, searches, chat, restarts, watched>>
    BY <1>4 DEF RecordAnimeView
  <2> QED
    BY <2>1, <2>2, <2>3 DEF TypeOK, Row
<1>5. CASE ListSeasonsFails
  <2>1. job.anime \in Animes /\ job.steady \in BOOLEAN
    BY <1>1, <1>5, JobFields DEF ListSeasonsFails
  <2>2. PICK l : l = WatchList(job.anime, {})
    OBVIOUS
  <2>3. ListTyped(l)
    BY <2>1, <2>2, ListsTyped DEF WatchList
  <2>4. PICK c : c = FirstPage(l)
    OBVIOUS
  <2>5. ListScreenTyped(c)
    BY <2>3, <2>4, FirstPageTyped DEF TypeOK
  <2>6. PICK d : d = [c EXCEPT !.steady = job.steady]
    OBVIOUS
  <2>7. d.list = c.list
    BY <2>6
  <2>8. ListScreenTyped(d)
    BY <2>1, <2>5, <2>6, <2>7 DEF ListScreenTyped
  <2>9. job' = Counting(d)
    BY <1>5, <2>2, <2>4, <2>6 DEF ListSeasonsFails
  <2> QED
    BY <1>5, <2>8, <2>9, CountingTyped, QuietTyped DEF ListSeasonsFails
<1>6. CASE CallFails
  BY <1>2, <1>6, IdleTyped, QuietTyped DEF CallFails
<1> QED
  BY <1>3, <1>4, <1>5, <1>6

LEMMA RowOfAnime ==
    ASSUME TypeOK, NEW a \in Animes
    PROVE  anime[a] \in Row /\ anime[a].seasons \in SUBSET (Nat \ {0})
<1>1. anime[a] \in Row
  BY DEF TypeOK, Row
<1> QED
  BY <1>1 DEF Row

LEMMA SendAnimeDetailTyped ==
    ASSUME TypeOK, SendAnimeDetail
    PROVE  TypeOK'
<1>1. job \in [at: {"get", "view", "label"}, anime: Animes, watch: BOOLEAN, steady: BOOLEAN]
  BY JobFields DEF TypeOK, SendAnimeDetail
<1>2. job.anime \in Animes /\ job.steady \in BOOLEAN
  BY <1>1
<1>3. PICK read \in BOOLEAN :
        Show([kind |-> "detail", anime |-> job.anime, read |-> read,
              label |-> read /\ IsFavorite(job.anime), steady |-> job.steady])
  BY DEF SendAnimeDetail
<1>4. PICK label \in BOOLEAN : label = (read /\ IsFavorite(job.anime))
  OBVIOUS
<1>5. PICK c : c = [kind |-> "detail", anime |-> job.anime, read |-> read,
                    label |-> label, steady |-> job.steady]
  OBVIOUS
<1>6. ScreenTyped(c)
  BY <1>2, <1>5 DEF ScreenTyped
<1>7. Show(c)
  BY <1>3, <1>4, <1>5
<1>8. JobTyped(job')
  <2>1. JobTyped([at |-> "seasons", anime |-> job.anime, steady |-> job.steady])
    BY <1>2 DEF JobTyped
  <2> QED
    BY <2>1, IdleTyped DEF SendAnimeDetail
<1>9. UNCHANGED <<tables, searches, restarts, events, watched>>
  BY DEF SendAnimeDetail
<1> QED
  BY <1>6, <1>7, <1>8, <1>9, ShowTyped DEF TypeOK, tables

LEMMA SendWatchEntryTyped ==
    ASSUME TypeOK, SendWatchEntry
    PROVE  TypeOK'
<1>1. job \in [at: {"seasons"}, anime: Animes, steady: BOOLEAN]
  BY JobFields DEF TypeOK, SendWatchEntry
<1>2. job.anime \in Animes /\ job.steady \in BOOLEAN
  BY <1>1
<1>3. SeasonsOf(job.anime) \in SUBSET Nat
  BY <1>2, RowOfAnime DEF SeasonsOf
<1>4. CASE SkipsPicker(SeasonsOf(job.anime))
  <2>1. PICK l : l = WatchList(job.anime, SeasonsOf(job.anime))
    OBVIOUS
  <2>2. PICK n \in Nat : l = List("e", <<job.anime, n>>, "")
    BY <1>3, <2>1 DEF WatchList
  <2>3. ListTyped(l)
    BY <1>2, <2>2, ListsTyped
  <2>4. PICK c : c = FirstPage(l)
    OBVIOUS
  <2>5. ListScreenTyped(c)
    BY <2>3, <2>4, FirstPageTyped DEF TypeOK
  <2>6. PICK d : d = [c EXCEPT !.direct = TRUE, !.steady = job.steady]
    OBVIOUS
  <2>7. d.list = c.list
    BY <2>6
  <2>8. ListScreenTyped(d)
    BY <1>2, <2>5, <2>6, <2>7 DEF ListScreenTyped
  <2>9. job' = Counting(d) /\ UNCHANGED chat
    BY <1>4, <2>1, <2>4, <2>6 DEF SendWatchEntry
  <2> QED
    BY <2>8, <2>9, CountingTyped, QuietTyped DEF SendWatchEntry
<1>5. CASE ~SkipsPicker(SeasonsOf(job.anime))
  <2>1. PICK c : c = [kind |-> "seasons", anime |-> job.anime,
                      seasons |-> SeasonsOf(job.anime), steady |-> job.steady]
    OBVIOUS
  <2>2. ScreenTyped(c)
    <3>1. c.kind = "seasons"
          /\ c \in [kind: {"seasons"}, anime: Animes, seasons: SUBSET Nat, steady: BOOLEAN]
      BY <1>2, <1>3, <2>1
    <3> QED
      BY <3>1 DEF ScreenTyped
  <2>3. Show(c) /\ job' = Idle
    BY <1>5, <2>1 DEF SendWatchEntry
  <2>4. UNCHANGED <<tables, searches, restarts, events, watched>>
    BY DEF SendWatchEntry
  <2> QED
    BY <2>2, <2>3, <2>4, IdleTyped, ShowTyped DEF TypeOK, tables
<1> QED
  BY <1>4, <1>5

LEMMA DeliveryTyped ==
    ASSUME TypeOK, DeliverEpisode \/ RecordProgress \/ ListHistory
    PROVE  TypeOK'
<1>1. CASE DeliverEpisode
  <2>1. job \in [at: {"deliver", "progress"}, episode: Episodes]
    BY <1>1, JobFields DEF TypeOK, DeliverEpisode
  <2>2. PICK j : j = [job EXCEPT !.at = "progress"]
    OBVIOUS
  <2>3. j \in [at: {"deliver", "progress"}, episode: Episodes] /\ j.at = "progress"
    BY <2>1, <2>2
  <2>4. JobTyped(j)
    BY <2>3 DEF JobTyped
  <2> QED
    BY <1>1, <2>2, <2>4, IdleTyped, QuietTyped DEF DeliverEpisode
<1>2. CASE RecordProgress
  <2>1. job \in [at: {"deliver", "progress"}, episode: Episodes]
    BY <1>2, JobFields DEF TypeOK, RecordProgress
  <2>2. PICK e \in Episodes : e = job.episode
    BY <2>1
  <2>3. history \in Seq(Episodes) /\ watched \in Seq(Episodes) /\ <<e>> \in Seq(Episodes)
    BY DEF TypeOK
  <2>4. history' \in Seq(Episodes)
    <3>1. history' = <<e>> \o Without(history, e)
      BY <1>2, <2>2 DEF RecordProgress, Watch
    <3> QED
      BY <2>3, <3>1, WithoutIsSeq, ConcatProperties
  <2>5. watched' \in Seq(Episodes)
    BY <1>2, <2>2, <2>3, AppendProperties DEF RecordProgress
  <2>6. DOMAIN chat' = Slots /\ \A i \in Slots : Faded(chat[i], chat'[i])
    BY <1>2 DEF RecordProgress, Faded
  <2>7. \A i \in Slots : ScreenTyped(chat'[i])
    BY <2>6, FadedTyped
  <2>8. job' = Idle /\ events' \in Nat
        /\ UNCHANGED <<anime, episode, favs, searches, restarts>>
    BY <1>2 DEF RecordProgress, Event, TypeOK
  <2> QED
    BY <2>4, <2>5, <2>6, <2>7, <2>8, IdleTyped DEF TypeOK
<1>3. CASE ListHistory
  <2>1. history \in Seq(Episodes)
    BY DEF TypeOK
  <2>2. 1 \in Nat \ {0} /\ HistorySize \in Nat \ {0}
    BY SizesArePositive
  <2>3. PageOf(history, 1, HistorySize) \in Seq(Episodes)
    BY <2>1, <2>2, PagesJoin
  <2>4. PICK c : c = [kind |-> "history", steady |-> TRUE,
                      items |-> PageOf(history, 1, HistorySize)]
    OBVIOUS
  <2>5. ScreenTyped(c)
    <3>1. c.kind = "history"
          /\ c \in [kind: {"history"}, steady: BOOLEAN, items: Seq(Episodes)]
      BY <2>3, <2>4
    <3> QED
      BY <3>1 DEF ScreenTyped
  <2>6. Show(c) /\ job' = Idle
    BY <1>3, <2>4 DEF ListHistory
  <2>7. UNCHANGED <<tables, searches, restarts, events, watched>>
    BY <1>3 DEF ListHistory
  <2> QED
    BY <2>5, <2>6, <2>7, IdleTyped, ShowTyped DEF TypeOK, tables
<1> QED
  BY <1>1, <1>2, <1>3

\* The handler in progress after a change of the catalogue.
LEMMA UnsteadyJobTyped ==
    ASSUME TypeOK
    PROVE  JobTyped(UnsteadyJob)
<1>1. JobTyped(job)
  BY DEF TypeOK
<1>2. CASE job.at \in {"count", "select"}
  <2>1. PICK c : c = job.screen
    OBVIOUS
  <2>2. PICK d : d = [c EXCEPT !.steady = FALSE]
    OBVIOUS
  <2>3. ListScreenTyped(c) /\ c.kind = "list"
    BY <1>1, <1>2, <2>1, JobFields, ListScreenFields
  <2>4. ScreenTyped(c) /\ Unsteady(c) = d
    BY <2>2, <2>3 DEF ScreenTyped, Unsteady
  <2>5. ListScreenTyped(d)
    BY <2>3, <2>4, UnsteadyTyped DEF ScreenTyped
  <2>6. PICK j : j = [job EXCEPT !.screen.steady = FALSE]
    OBVIOUS
  <2>7. j = [job EXCEPT !.screen = d]
    BY <2>1, <2>2, <2>6
  <2>8. job \in [at: {"count", "select"}, screen: {job.screen}, total: Nat, fresh: BOOLEAN]
    BY <1>1, <1>2, JobFields
  <2>9. j \in [at: {"count", "select"}, screen: {d}, total: Nat, fresh: BOOLEAN]
        /\ j.fresh = job.fresh
    BY <2>7, <2>8
  <2>10. j.screen = d /\ d.list = c.list /\ j.at \in {"count", "select"}
    BY <2>2, <2>3, <2>9 DEF ListScreenTyped
  <2>11. JobTyped(j)
    BY <1>1, <1>2, <2>1, <2>5, <2>9, <2>10, JobFields DEF JobTyped
  <2> QED
    BY <1>2, <2>6, <2>11 DEF UnsteadyJob
<1>3. CASE job.at \in {"get", "view", "label"}
  <2>1. PICK j : j = [job EXCEPT !.steady = FALSE]
    OBVIOUS
  <2>2. job \in [at: {"get", "view", "label"}, anime: Animes, watch: BOOLEAN,
                 steady: BOOLEAN]
    BY <1>1, <1>3, JobFields
  <2>3. j \in [at: {"get", "view", "label"}, anime: Animes, watch: BOOLEAN,
               steady: BOOLEAN]
    BY <2>1, <2>2
  <2>4. j.at \in {"get", "view", "label"}
    BY <2>3
  <2>5. JobTyped(j)
    BY <2>3, <2>4 DEF JobTyped
  <2>6. UnsteadyJob = j
    BY <1>3, <2>1 DEF UnsteadyJob
  <2> QED
    BY <2>5, <2>6
<1>4. CASE job.at = "seasons"
  <2>1. PICK j : j = [job EXCEPT !.steady = FALSE]
    OBVIOUS
  <2>2. job \in [at: {"seasons"}, anime: Animes, steady: BOOLEAN]
    BY <1>1, <1>4, JobFields
  <2>3. j \in [at: {"seasons"}, anime: Animes, steady: BOOLEAN]
    BY <2>1, <2>2
  <2>4. j.at = "seasons"
    BY <2>3
  <2>5. JobTyped(j)
    BY <2>3, <2>4 DEF JobTyped
  <2>6. UnsteadyJob = j
    BY <1>4, <2>1 DEF UnsteadyJob
  <2> QED
    BY <2>5, <2>6
<1>5. CASE job.at \notin {"count", "select", "get", "view", "label", "seasons"}
  BY <1>1, <1>5 DEF UnsteadyJob
<1> QED
  BY <1>2, <1>3, <1>4, <1>5

LEMMA WorldTyped ==
    ASSUME TypeOK, DeleteAnime \/ DeleteEpisode \/ RefreshPopularity \/ Restart
    PROVE  TypeOK'
<1>1. ASSUME Changed, anime' \in [Animes -> Row],
             episode' \in [Episodes -> [season: Nat, number: Nat, deleted: BOOLEAN]]
      PROVE  TypeOK'
  <2>1. DOMAIN chat' = Slots /\ \A i \in Slots : Faded(chat[i], chat'[i])
    BY <1>1 DEF Changed, Faded
  <2>2. \A i \in Slots : ScreenTyped(chat'[i])
    BY <2>1, FadedTyped
  <2>3. JobTyped(job') /\ events' \in Nat
    BY <1>1, UnsteadyJobTyped DEF Changed, Event, TypeOK
  <2>4. UNCHANGED <<favs, history, searches, restarts, watched>>
    BY <1>1 DEF Changed
  <2> QED
    BY <1>1, <2>1, <2>2, <2>3, <2>4 DEF TypeOK, Row
<1>2. CASE DeleteAnime
  BY <1>1, <1>2 DEF DeleteAnime, TypeOK, Row
<1>3. CASE DeleteEpisode
  BY <1>1, <1>3 DEF DeleteEpisode, TypeOK, Row
<1>4. CASE RefreshPopularity
  BY <1>1, <1>4 DEF RefreshPopularity, TypeOK, Row
<1>5. CASE Restart
  BY <1>5, IdleTyped, EmptySeq DEF Restart, TypeOK, tables
<1> QED
  BY <1>2, <1>3, <1>4, <1>5

LEMMA NextTyped ==
    ASSUME TypeOK, [Next]_vars
    PROVE  TypeOK'
<1>1. CASE UNCHANGED vars
  BY <1>1, QuietTyped DEF vars, TypeOK
<1>2. CASE Press
  <2>1. PICK i \in Slots :
          \/ PressItem(chat[i]) \/ PressPage(chat[i]) \/ PressSeason(chat[i])
          \/ PressWatch(chat[i]) \/ PressBack(chat[i]) \/ PressFavorite(chat[i])
    BY <1>2 DEF Press
  <2>2. PICK c : c = chat[i] /\ ScreenTyped(c)
    BY DEF TypeOK
  <2>3. \/ PressItem(c) \/ PressPage(c) \/ PressSeason(c)
        \/ PressWatch(c) \/ PressBack(c) \/ PressFavorite(c)
    BY <2>1, <2>2
  <2> QED
    BY <2>2, <2>3, PressTyped, PressFavoriteTyped
<1> QED
  BY <1>1, <1>2, HandlersTyped, CountTyped, SelectTyped, AnimeCallsTyped,
     SendAnimeDetailTyped, SendWatchEntryTyped, DeliveryTyped, WorldTyped DEF Next

\* Whatever is pressed, whatever changes and whenever the bot restarts, tables,
\* messages and handlers are what TypeOK says: no button leads to page 0, no
\* list mixes animes with episodes.
THEOREM BrowseTypeCorrect == Spec => []TypeOK
<1>1. Init => TypeOK
  BY InitTyped
<1>2. TypeOK /\ [Next]_vars => TypeOK'
  BY NextTyped
<1> QED
  BY <1>1, <1>2, PTL DEF Spec

-----------------------------------------------------------------------------
(* 3. The query of a search.                                               *)

\* The token on a screen of this process stands for the query typed; it is not
\* on the first page yet while that is being read.
OfItsQuery(c, fresh, tokens, now) ==
    /\ c.era <= now
    /\ c.list.of = "sq" /\ ~c.strayed =>
          /\ c.list.query = c.asked
          /\ c.era = now /\ ~fresh =>
                c.list.arg \in DOMAIN tokens /\ tokens[c.list.arg] = c.asked

JobOfItsQuery(j, tokens, now) ==
    j.at \in {"count", "select"} =>
        j.screen.era = now /\ OfItsQuery(j.screen, j.fresh, tokens, now)

QInv ==
    /\ TypeOK
    /\ \A i \in Slots :
          chat[i].kind = "list" => OfItsQuery(chat[i], FALSE, searches, restarts)
    /\ JobOfItsQuery(job, searches, restarts)

\* Fading changes nothing of a list but steady.
LEMMA FadedList ==
    ASSUME NEW c, ScreenTyped(c), NEW d, Faded(c, d)
    PROVE  /\ d.kind = c.kind
           /\ c.kind = "list" =>
                 /\ d.list = c.list /\ d.page = c.page /\ d.items = c.items
                 /\ d.next = c.next /\ d.seen = c.seen /\ d.walked = c.walked
                 /\ d.asked = c.asked /\ d.strayed = c.strayed
                 /\ d.direct = c.direct /\ d.era = c.era
                 /\ d.steady => c.steady /\ d = c
<1>1. CASE d = c
  BY <1>1
<1>2. CASE d = Unsteady(c)
  <2>1. d.kind = c.kind
    BY <1>2, UnsteadyTyped
  <2>2. CASE c.kind = "list"
    <3>1. ListScreenTyped(c)
      BY <2>2, ScreenFields
    <3>2. d = [c EXCEPT !.steady = FALSE]
      BY <1>2, <2>2 DEF Unsteady
    <3> QED
      BY <2>1, <3>1, <3>2 DEF ListScreenTyped
  <2> QED
    BY <2>1, <2>2
<1> QED
  BY <1>1, <1>2 DEF Faded

\* What a step does to the chat if it shows no list.
NoNewList == \A i \in Slots :
    Faded(chat[i], chat'[i]) \/ chat'[i].kind \in {"detail", "seasons", "history"}

LEMMA QueriesKept ==
    ASSUME QInv, NoNewList, UNCHANGED <<searches, restarts>>,
           JobOfItsQuery(job', searches, restarts), TypeOK'
    PROVE  QInv'
<1>1. ASSUME NEW i \in Slots, chat'[i].kind = "list"
      PROVE  OfItsQuery(chat'[i], FALSE, searches, restarts)
  <2>1. PICK c, d : c = chat[i] /\ d = chat'[i]
    OBVIOUS
  <2>2. ScreenTyped(c) /\ Faded(c, d) /\ d.kind = "list"
    BY <1>1, <2>1 DEF QInv, TypeOK, NoNewList
  <2>3. OfItsQuery(c, FALSE, searches, restarts)
    BY <2>1, <2>2, FadedList DEF QInv
  <2> QED
    BY <2>1, <2>2, <2>3, FadedList DEF OfItsQuery
<1> QED
  BY <1>1 DEF QInv

\* The screens a handler may count and select are of their queries.
LEMMA FirstPagesOfQueries ==
    ASSUME NEW l, restarts \in Nat
    PROVE  /\ FirstPage(l).era = restarts
           /\ FirstPage(l).list = l /\ FirstPage(l).asked = l.query
           /\ l.of # "sq" =>
                 JobOfItsQuery(Counting(FirstPage(l)), searches, restarts)
<1>1. PICK c : c = FirstPage(l)
  OBVIOUS
<1>2. c.era = restarts /\ c.list = l /\ c.asked = l.query
  BY <1>1 DEF FirstPage, ListScreen
<1>3. PICK j : j = Counting(c)
  OBVIOUS
<1>4. j.screen = c /\ j.fresh = FALSE
  BY <1>3 DEF Counting
<1>5. ASSUME l.of # "sq" PROVE JobOfItsQuery(j, searches, restarts)
  BY <1>2, <1>4, <1>5 DEF JobOfItsQuery, OfItsQuery
<1> QED
  BY <1>1, <1>2, <1>3, <1>5

LEMMA RepeatedFields ==
    ASSUME NEW c, NEW page, NEW walked, NEW d, d = Repeated(c, page, walked)
    PROVE  /\ d.kind = "list" /\ d.page = page /\ d.walked = walked
           /\ d.steady = c.steady /\ d.asked = c.asked /\ d.direct = c.direct
           /\ d.seen = IF walked THEN c.seen ELSE <<>>
           /\ (d.strayed <=> c.strayed \/ (c.list.of = "sq" /\ c.era # restarts))
           /\ d.list = IF c.list.of = "sq"
                       THEN [c.list EXCEPT !.query = searches[c.list.arg]] ELSE c.list
           /\ d.era = restarts
  BY DEF Repeated, ListScreen

LEMMA RepeatedOfQuery ==
    ASSUME NEW c, ListScreenTyped(c), NEW page, NEW walked,
           OfItsQuery(c, FALSE, searches, restarts), restarts \in Nat,
           c.list.of = "sq" => c.list.arg \in DOMAIN searches
    PROVE  JobOfItsQuery(Counting(Repeated(c, page, walked)), searches, restarts)
<1>1. PICK d : d = Repeated(c, page, walked)
  OBVIOUS
<1>2. /\ d.asked = c.asked /\ d.era = restarts
      /\ (d.strayed <=> c.strayed \/ (c.list.of = "sq" /\ c.era # restarts))
      /\ d.list = IF c.list.of = "sq"
                  THEN [c.list EXCEPT !.query = searches[c.list.arg]] ELSE c.list
  BY <1>1, RepeatedFields
<1>3. PICK j : j = Counting(d)
  OBVIOUS
<1>4. j.screen = d /\ j.fresh = FALSE
  BY <1>3 DEF Counting
<1>5. CASE c.list.of = "sq"
  <2>1. c.list \in [of: {"sq"}, arg: Nat, query: Queries]
    BY <1>5, ListScreenFields DEF ListTyped
  <2>2. d.list = [c.list EXCEPT !.query = searches[c.list.arg]]
    BY <1>2, <1>5
  <2>3. d.list.arg = c.list.arg /\ d.list.query = searches[c.list.arg]
    BY <2>1, <2>2
  <2>4. OfItsQuery(d, FALSE, searches, restarts)
    BY <1>2, <1>5, <2>3 DEF OfItsQuery
  <2> QED
    BY <1>1, <1>2, <1>3, <1>4, <2>4 DEF JobOfItsQuery
<1>6. CASE c.list.of # "sq"
  <2>1. OfItsQuery(d, FALSE, searches, restarts)
    BY <1>2, <1>6 DEF OfItsQuery
  <2> QED
    BY <1>1, <1>2, <1>3, <1>4, <2>1 DEF JobOfItsQuery
<1> QED
  BY <1>5, <1>6

\* A step that leaves the chat and the tokens alone.
Quiet == UNCHANGED <<tables, searches, chat, restarts, events, watched>>

LEMMA QuietKeepsQueries ==
    ASSUME QInv, Quiet, JobOfItsQuery(job', searches, restarts), TypeOK'
    PROVE  QInv'
  BY QueriesKept DEF Quiet, NoNewList, Faded

LEMMA NoListNoQuery ==
    ASSUME NEW j, j.at \notin {"count", "select"}
    PROVE  JobOfItsQuery(j, searches, restarts)
  BY DEF JobOfItsQuery

LEMMA HandlersKeepQueries ==
    ASSUME QInv, TypeOK', HandleStart \/ HandleSearch \/ Menu \/ GenreMenu
    PROVE  QInv'
<1>1. Quiet
  BY DEF Quiet, HandleStart, HandleSearch, Menu, GenreMenu, Begin
<1>2. ASSUME NEW l, l.of # "sq", Begin(Counting(FirstPage(l))) PROVE QInv'
  BY <1>1, <1>2, FirstPagesOfQueries, QuietKeepsQueries DEF Begin, QInv, TypeOK
<1>3. CASE HandleStart
  <2>1. job'.at = "get"
    BY <1>3 DEF HandleStart, Begin, Getting
  <2> QED
    BY <1>1, <2>1, NoListNoQuery, QuietKeepsQueries
<1>4. CASE HandleSearch
  <2>1. PICK q \in Queries :
           job' = [Counting(FirstPage(List("sq", 0, q))) EXCEPT !.fresh = TRUE]
    BY <1>4 DEF HandleSearch, Begin
  <2>2. PICK c : c = FirstPage(List("sq", 0, q))
    OBVIOUS
  <2>3. c.era = restarts /\ c.list.query = c.asked
    BY <2>2, FirstPagesOfQueries DEF QInv, TypeOK
  <2>4. PICK j : j = [Counting(c) EXCEPT !.fresh = TRUE]
    OBVIOUS
  <2>5. j.screen = c /\ j.fresh = TRUE
    BY <2>4 DEF Counting
  <2>6. JobOfItsQuery(j, searches, restarts)
    BY <2>3, <2>5 DEF JobOfItsQuery, OfItsQuery, QInv, TypeOK
  <2> QED
    BY <1>1, <2>1, <2>2, <2>4, <2>6, QuietKeepsQueries
<1>5. CASE Menu
  <2>1. CASE Begin([at |-> "history"])
    <3>1. job'.at = "history"
      BY <2>1 DEF Begin
    <3> QED
      BY <1>1, <3>1, NoListNoQuery, QuietKeepsQueries
  <2> QED
    BY <1>2, <1>5, <2>1 DEF Menu, List
<1>6. CASE GenreMenu
  BY <1>2, <1>6 DEF GenreMenu, List
<1> QED
  BY <1>3, <1>4, <1>5, <1>6

LEMMA PressKeepsQueries ==
    ASSUME QInv, TypeOK', Press
    PROVE  QInv'
<1>1. PICK i \in Slots :
        \/ PressItem(chat[i]) \/ PressPage(chat[i]) \/ PressSeason(chat[i])
        \/ PressWatch(chat[i]) \/ PressBack(chat[i]) \/ PressFavorite(chat[i])
  BY DEF Press
<1>2. PICK c : c = chat[i] /\ ScreenTyped(c)
  BY DEF QInv, TypeOK
<1>3. CASE PressItem(c)
  <2>1. Quiet /\ job'.at \in {"deliver", "get"}
    BY <1>3 DEF PressItem, Begin, Getting, Quiet
  <2> QED
    BY <2>1, NoListNoQuery, QuietKeepsQueries
<1>a. CASE PressBack(c)
  <2>1. Quiet /\ job'.at = "get"
    BY <1>a DEF PressBack, Begin, Getting, Quiet
  <2> QED
    BY <2>1, NoListNoQuery, QuietKeepsQueries
<1>4. CASE PressPage(c)
  <2>1. ListScreenTyped(c) /\ (c.list.of = "sq" => c.list.arg \in DOMAIN searches)
    BY <1>2, <1>4, ScreenFields DEF PressPage
  <2>2. OfItsQuery(c, FALSE, searches, restarts) /\ restarts \in Nat
    BY <1>2, <1>4 DEF QInv, TypeOK, PressPage
  <2>3. PICK n, w : Begin(Counting(Repeated(c, n, w)))
    BY <1>4 DEF PressPage
  <2>4. Quiet /\ job' = Counting(Repeated(c, n, w))
    BY <2>3 DEF Begin, Quiet
  <2> QED
    BY <2>1, <2>2, <2>4, RepeatedOfQuery, QuietKeepsQueries
<1>5. CASE PressSeason(c)
  <2>1. PICK l : l.of = "e" /\ Begin(Counting(FirstPage(l)))
    BY <1>5 DEF PressSeason, List
  <2>2. Quiet /\ job' = Counting(FirstPage(l))
    BY <2>1 DEF Begin, Quiet
  <2> QED
    BY <2>1, <2>2, FirstPagesOfQueries, QuietKeepsQueries DEF QInv, TypeOK
<1>6. CASE PressWatch(c)
  <2>1. Quiet /\ job'.at = "seasons"
    BY <1>6 DEF PressWatch, Begin, Quiet
  <2> QED
    BY <2>1, NoListNoQuery, QuietKeepsQueries
<1>7. CASE PressFavorite(c)
  <2>1. job'.at = "get"
    BY <1>7 DEF PressFavorite, Getting
  <2>2. NoNewList /\ UNCHANGED <<searches, restarts>>
    BY <1>7 DEF PressFavorite, NoNewList, Faded
  <2> QED
    BY <2>1, <2>2, NoListNoQuery, QueriesKept
<1> QED
  BY <1>1, <1>2, <1>3, <1>4, <1>5, <1>6, <1>7, <1>a

\* What Select shows: the page of an order of the rows.
LEMMA SelectShows ==
    ASSUME TypeOK, Select
    PROVE  \E s \in Orders(job.screen.list) : \E d :
              LET c == job.screen
                  l == c.list
              IN /\ d.kind = "list" /\ d.page = c.page /\ d.walked = c.walked
                 /\ d.steady = c.steady /\ d.asked = c.asked /\ d.strayed = c.strayed
                 /\ d.direct = c.direct /\ d.era = c.era
                 /\ d.items = PageOf(s, c.page, SizeOf(l))
                 /\ d.seen = c.seen \o d.items
                 /\ d.next <=> d.items # <<>> /\ HasNext(c.page, SizeOf(l), job.total)
                 /\ d.list.of = l.of /\ d.list.query = l.query
                 /\ ~job.fresh => d.list = l /\ searches' = searches
                 /\ job.fresh => /\ d.list.arg = Len(searches) + 1
                                 /\ searches' = Append(searches, l.query)
                 /\ Show(d)
<1> DEFINE c == job.screen
           l == c.list
<1>1. JobTyped(job) /\ job.at = "select"
  BY DEF TypeOK, Select
<1>2. ListScreenTyped(c) /\ ListTyped(l) /\ (job.fresh => l.of = "sq")
  BY <1>1, JobFields, ListScreenFields
<1>3. PICK s \in Orders(l) :
        LET full == Filled(c, PageOf(s, c.page, SizeOf(l)), job.total)
        IN IF job.fresh
           THEN /\ Event
                /\ searches' = Append(searches, l.query)
                /\ Show([full EXCEPT !.list.arg = Token(l.query)])
           ELSE /\ UNCHANGED <<searches, events>>
                /\ Show(full)
  BY DEF Select
<1>4. PICK items : items = PageOf(s, c.page, SizeOf(l))
  OBVIOUS
<1> DEFINE next == items # <<>> /\ HasNext(c.page, SizeOf(l), job.total)
<1>5. PICK full : full = Filled(c, items, job.total)
  OBVIOUS
<1>6. full = [c EXCEPT !.items = items, !.next = next, !.seen = c.seen \o items]
  BY <1>5 DEF Filled
<1> DEFINE Has(d) ==
             /\ d.kind = "list" /\ d.page = c.page /\ d.walked = c.walked
             /\ d.steady = c.steady /\ d.asked = c.asked /\ d.strayed = c.strayed
             /\ d.direct = c.direct /\ d.era = c.era
             /\ d.items = items
             /\ d.seen = c.seen \o items
             /\ d.next = next
<1>7. Has(full) /\ full.list = l
  <2> HIDE DEF next
  <2>1. c \in [kind: {"list"}, list: {c.list}, page: Nat \ {0},
               items: Seq(RowsOf(c.list)), next: BOOLEAN,
               seen: Seq(RowsOf(c.list)), walked: BOOLEAN, steady: BOOLEAN,
               asked: Queries \cup {""}, strayed: BOOLEAN, direct: BOOLEAN,
               era: Nat]
    BY <1>2 DEF ListScreenTyped
  <2> QED
    BY <1>6, <2>1
<1>8. CASE ~job.fresh
  <2>1. Show(full) /\ searches' = searches
    BY <1>3, <1>4, <1>5, <1>8
  <2> QED
    BY <1>4, <1>7, <1>8, <2>1
<1>9. CASE job.fresh
  <2>1. PICK d : d = [full EXCEPT !.list.arg = Token(l.query)]
    OBVIOUS
  <2>2. Show(d) /\ searches' = Append(searches, l.query)
    BY <1>3, <1>4, <1>5, <1>9, <2>1
  <2>3. l \in [of: {"sq"}, arg: Nat, query: Queries]
    BY <1>2, <1>9 DEF ListTyped
  <2>4. full \in [kind: {"list"}, list: {l}, page: Nat \ {0},
               items: Seq(RowsOf(l)) \cup {items}, next: BOOLEAN,
               seen: {c.seen \o items}, walked: BOOLEAN, steady: BOOLEAN,
               asked: Queries \cup {""}, strayed: BOOLEAN, direct: BOOLEAN,
               era: Nat]
    <3> HIDE DEF next
    <3>1. c \in [kind: {"list"}, list: {c.list}, page: Nat \ {0},
               items: Seq(RowsOf(c.list)), next: BOOLEAN,
               seen: Seq(RowsOf(c.list)), walked: BOOLEAN, steady: BOOLEAN,
               asked: Queries \cup {""}, strayed: BOOLEAN, direct: BOOLEAN,
               era: Nat]
      BY <1>2 DEF ListScreenTyped
    <3>2. next \in BOOLEAN
      BY DEF next
    <3> QED
      BY <1>6, <3>1, <3>2
  <2>5. PICK m : m = [l EXCEPT !.arg = Token(l.query)]
    OBVIOUS
  <2>6. m.of = l.of /\ m.query = l.query /\ m.arg = Len(searches) + 1
    BY <2>3, <2>5 DEF Token
  <2>7. d = [full EXCEPT !.list = m]
    BY <1>7, <2>1, <2>5
  <2>8. Has(d) /\ d.list = m
    <3> HIDE DEF next
    <3> QED
      BY <1>7, <2>4, <2>7
  <2> QED
    BY <1>4, <1>9, <2>2, <2>6, <2>8
<1> QED
  BY <1>8, <1>9

LEMMA ShowEither ==
    ASSUME TypeOK, NEW c, Show(c), NEW i \in Slots
    PROVE  chat'[i] = chat[i] \/ chat'[i] = c
<1>1. DOMAIN chat = Slots
  BY DEF TypeOK
<1> QED
  BY <1>1 DEF Show

LEMMA SelectKeepsQueries ==
    ASSUME QInv, TypeOK', Select
    PROVE  QInv'
<1> DEFINE c == job.screen
           l == c.list
<1>1. JobTyped(job) /\ job.at = "select" /\ searches \in Seq(Queries)
  BY DEF QInv, TypeOK, Select
<1>2. ListTyped(l) /\ (job.fresh => l.of = "sq")
  BY <1>1, JobFields, ListScreenFields
<1>3. c.era = restarts /\ OfItsQuery(c, job.fresh, searches, restarts) /\ restarts \in Nat
  BY <1>1 DEF QInv, JobOfItsQuery, TypeOK
<1>4. PICK d : /\ d.asked = c.asked /\ d.strayed = c.strayed /\ d.era = c.era
               /\ d.list.of = l.of /\ d.list.query = l.query
               /\ ~job.fresh => d.list = l /\ searches' = searches
               /\ job.fresh => /\ d.list.arg = Len(searches) + 1
                               /\ searches' = Append(searches, l.query)
               /\ Show(d)
  BY SelectShows DEF QInv
<1>5. job' = Idle /\ restarts' = restarts
  BY DEF Select
<1>6. OfItsQuery(d, FALSE, searches', restarts)
  <2>1. CASE ~job.fresh
    BY <1>3, <1>4, <2>1 DEF OfItsQuery
  <2>2. CASE job.fresh
    <3>1. l.query \in Queries
      BY <1>2, <2>2 DEF ListTyped
    <3>2. d.list.arg \in DOMAIN searches' /\ searches'[d.list.arg] = l.query
      BY <1>1, <1>4, <2>2, <3>1, AppendProperties, LenProperties
    <3> QED
      BY <1>3, <1>4, <2>2, <3>2 DEF OfItsQuery
  <2> QED
    BY <2>1, <2>2
<1>7. ASSUME NEW b, b.kind = "list", OfItsQuery(b, FALSE, searches, restarts),
             ListTyped(b.list)
      PROVE  OfItsQuery(b, FALSE, searches', restarts)
  <2>1. CASE ~job.fresh
    BY <1>4, <1>7, <2>1
  <2>2. CASE job.fresh
    <3>1. l.query \in Queries
      BY <1>2, <2>2 DEF ListTyped
    <3>2. \A n \in DOMAIN searches : n \in DOMAIN searches' /\ searches'[n] = searches[n]
      BY <1>1, <1>4, <2>2, <3>1, AppendProperties, LenProperties
    <3> QED
      BY <1>7, <3>2 DEF OfItsQuery
  <2> QED
    BY <2>1, <2>2
<1>8. ASSUME NEW i \in Slots, chat'[i].kind = "list"
      PROVE  OfItsQuery(chat'[i], FALSE, searches', restarts)
  <2>1. CASE chat'[i] = d
    BY <1>6, <2>1
  <2>2. CASE chat'[i] = chat[i]
    <3>1. OfItsQuery(chat[i], FALSE, searches, restarts)
      BY <1>8, <2>2 DEF QInv
    <3>2. ListTyped(chat[i].list)
      BY <1>8, <2>2, ScreenFields, ListScreenFields DEF QInv, TypeOK
    <3> QED
      BY <1>7, <1>8, <2>2, <3>1, <3>2
  <2> QED
    BY <1>4, <2>1, <2>2, ShowEither DEF QInv
<1>9. JobOfItsQuery(job', searches', restarts')
  BY <1>5 DEF JobOfItsQuery, Idle
<1> QED
  BY <1>5, <1>8, <1>9 DEF QInv

LEMMA UnsteadyJobFields ==
    ASSUME JobTyped(job), NEW j, j = UnsteadyJob
    PROVE  /\ j.at = job.at
           /\ job.at \in {"count", "select"} =>
                 /\ j.fresh = job.fresh /\ j.total = job.total
                 /\ Faded(job.screen, j.screen) /\ ~j.screen.steady
           /\ job.at \in {"get", "view", "label", "seasons"} =>
                 ~j.steady /\ j.anime = job.anime
<1>1. CASE job.at \in {"count", "select"}
  <2>1. j = [job EXCEPT !.screen = [job.screen EXCEPT !.steady = FALSE]]
    BY <1>1 DEF UnsteadyJob
  <2>2. ListScreenTyped(job.screen) /\ job.screen.kind = "list"
    BY <1>1, JobFields, ListScreenFields
  <2>3. job \in [at: {"count", "select"}, screen: {job.screen}, total: Nat, fresh: BOOLEAN]
    BY <1>1, JobFields
  <2>4. PICK d : d = [job.screen EXCEPT !.steady = FALSE]
    OBVIOUS
  <2>5. Unsteady(job.screen) = d /\ d.steady = FALSE
    BY <2>2, <2>4 DEF Unsteady, ListScreenTyped
  <2>6. j.at = job.at /\ j.screen = d /\ j.fresh = job.fresh /\ j.total = job.total
    BY <2>1, <2>3, <2>4
  <2> QED
    BY <1>1, <2>5, <2>6 DEF Faded
<1>2. CASE job.at \in {"get", "view", "label"}
  <2>1. job \in [at: {"get", "view", "label"}, anime: Animes, watch: BOOLEAN,
                 steady: BOOLEAN]
    BY <1>2, JobFields
  <2>2. j = [job EXCEPT !.steady = FALSE]
    BY <1>2 DEF UnsteadyJob
  <2> QED
    BY <1>2, <2>1, <2>2
<1>3. CASE job.at = "seasons"
  <2>1. job \in [at: {"seasons"}, anime: Animes, steady: BOOLEAN]
    BY <1>3, JobFields
  <2>2. j = [job EXCEPT !.steady = FALSE]
    BY <1>3 DEF UnsteadyJob
  <2> QED
    BY <1>3, <2>1, <2>2
<1>4. CASE job.at \notin {"count", "select", "get", "view", "label", "seasons"}
  BY <1>4 DEF UnsteadyJob
<1> QED
  BY <1>1, <1>2, <1>3, <1>4

\* What is shown is no list: the other messages stay.
LEMMA ShowNoList ==
    ASSUME TypeOK, NEW c, Show(c), c.kind \in {"detail", "seasons", "history"}
    PROVE  NoNewList
  BY ShowEither DEF NoNewList, Faded

\* The list of the episodes Watch leads to.
LEMMA WatchListIs ==
    ASSUME NEW a, NEW seasons
    PROVE  \E l : l = WatchList(a, seasons) /\ l.of = "e"
<1>1. PICK n : n = IF seasons = {} THEN 0 ELSE CHOOSE s \in seasons : TRUE
  OBVIOUS
<1>2. PICK l : l = [of |-> "e", arg |-> <<a, n>>, query |-> ""]
  OBVIOUS
<1>3. l.of = "e"
  BY <1>2
<1>4. l = WatchList(a, seasons)
  BY <1>1, <1>2 DEF WatchList, List
<1> QED
  BY <1>3, <1>4, Zenon

\* What Watch leads to, directly or without the seasons.
Opened(d, l) ==
    /\ d.kind = "list" /\ d.list = l /\ d.page = 1 /\ d.seen = <<>>
    /\ d.walked = TRUE /\ d.strayed = FALSE /\ d.era = restarts /\ d.asked = l.query

LEMMA WatchScreens ==
    ASSUME NEW l, NEW steady
    PROVE  /\ \E d : /\ d = [FirstPage(l) EXCEPT !.direct = TRUE, !.steady = steady]
                     /\ Opened(d, l)
           /\ \E d : /\ d = [FirstPage(l) EXCEPT !.steady = steady]
                     /\ Opened(d, l) /\ d.direct = FALSE
<1>1. PICK d : d = [FirstPage(l) EXCEPT !.direct = TRUE, !.steady = steady]
  OBVIOUS
<1>2. PICK e : e = [FirstPage(l) EXCEPT !.steady = steady]
  OBVIOUS
<1>3. /\ d.kind = "list" /\ d.list = l /\ d.page = 1
      /\ d.seen = <<>> /\ d.walked = TRUE /\ d.strayed = FALSE
      /\ d.era = restarts /\ d.asked = l.query
  BY <1>1 DEF FirstPage, ListScreen
<1>4. /\ e.kind = "list" /\ e.list = l /\ e.page = 1
      /\ e.seen = <<>> /\ e.walked = TRUE /\ e.strayed = FALSE
      /\ e.era = restarts /\ e.asked = l.query /\ e.direct = FALSE
  BY <1>2 DEF FirstPage, ListScreen
<1> QED
  BY <1>1, <1>2, <1>3, <1>4 DEF Opened

\* The steps that neither show a list nor start, end or go on with one.
LEMMA CallsShowNoList ==
    ASSUME TypeOK, GetAnime \/ RecordAnimeView \/ SendAnimeDetail \/ DeliverEpisode
                   \/ RecordProgress \/ ListHistory \/ CallFails
    PROVE  /\ NoNewList /\ UNCHANGED <<searches, restarts>>
           /\ job'.at \notin {"count", "select"}
<1>1. CASE GetAnime \/ RecordAnimeView \/ DeliverEpisode \/ CallFails
  <2>1. UNCHANGED chat
    BY <1>1 DEF GetAnime, RecordAnimeView, DeliverEpisode, CallFails
  <2>2. NoNewList
    BY <2>1 DEF NoNewList, Faded
  <2>3. job'.at \notin {"count", "select"} /\ UNCHANGED <<searches, restarts>>
    <3>1. CASE GetAnime
      <4>1. JobTyped(job) /\ job.at = "get"
        BY <3>1 DEF GetAnime, TypeOK
      <4>2. job \in [at: {"get", "view", "label"}, anime: Animes, watch: BOOLEAN,
                     steady: BOOLEAN]
        BY <4>1, JobFields
      <4>3. [job EXCEPT !.at = "view"].at = "view"
        BY <4>2
      <4> QED
        BY <3>1, <4>3 DEF GetAnime, Idle
    <3>2. CASE RecordAnimeView
      <4>1. JobTyped(job) /\ job.at = "view"
        BY <3>2 DEF RecordAnimeView, TypeOK
      <4>2. job \in [at: {"get", "view", "label"}, anime: Animes, watch: BOOLEAN,
                     steady: BOOLEAN]
        BY <4>1, JobFields
      <4>3. [job EXCEPT !.at = "label"].at = "label"
        BY <4>2
      <4> QED
        BY <3>2, <4>3 DEF RecordAnimeView
    <3>3. CASE DeliverEpisode
      <4>1. JobTyped(job) /\ job.at = "deliver"
        BY <3>3 DEF DeliverEpisode, TypeOK
      <4>2. job \in [at: {"deliver", "progress"}, episode: Episodes]
        BY <4>1, JobFields
      <4>3. [job EXCEPT !.at = "progress"].at = "progress"
        BY <4>2
      <4> QED
        BY <3>3, <4>3 DEF DeliverEpisode, Idle
    <3>4. CASE CallFails
      BY <3>4 DEF CallFails, Idle
    <3> QED
      BY <1>1, <3>1, <3>2, <3>3, <3>4
  <2> QED
    BY <2>2, <2>3
<1>2. CASE SendAnimeDetail
  <2>1. PICK c : c.kind = "detail" /\ Show(c)
    BY <1>2 DEF SendAnimeDetail
  <2>2. job'.at \in {"seasons", "idle"} /\ UNCHANGED <<searches, restarts>>
    BY <1>2 DEF SendAnimeDetail, Idle
  <2> QED
    BY <2>1, <2>2, ShowNoList
<1>3. CASE RecordProgress
  BY <1>3 DEF RecordProgress, NoNewList, Faded, Idle
<1>4. CASE ListHistory
  <2>1. PICK c : c.kind = "history" /\ Show(c)
    BY <1>4 DEF ListHistory
  <2>2. job'.at = "idle" /\ UNCHANGED <<searches, restarts>>
    BY <1>4 DEF ListHistory, Idle
  <2> QED
    BY <2>1, <2>2, ShowNoList
<1> QED
  BY <1>1, <1>2, <1>3, <1>4

LEMMA CountFields ==
    ASSUME TypeOK, Count
    PROVE  /\ job'.at = "select" /\ job'.screen = job.screen /\ job'.fresh = job.fresh
           /\ job'.total = Cardinality(Counted(job.screen.list))
           /\ Quiet
<1>1. JobTyped(job) /\ job.at = "count"
  BY DEF TypeOK, Count
<1>2. job \in [at: {"count", "select"}, screen: {job.screen}, total: Nat, fresh: BOOLEAN]
  BY <1>1, JobFields
<1>3. PICK n : n = Cardinality(Counted(job.screen.list))
  OBVIOUS
<1>4. job' = [job EXCEPT !.at = "select", !.total = n]
  BY <1>3 DEF Count
<1>5. Quiet
  BY DEF Count, Quiet
<1> QED
  BY <1>2, <1>3, <1>4, <1>5

LEMMA StepsKeepQueries ==
    ASSUME QInv, TypeOK',
           \/ Count \/ GetAnime \/ RecordAnimeView \/ SendAnimeDetail
           \/ SendWatchEntry \/ ListSeasonsFails \/ DeliverEpisode \/ RecordProgress
           \/ ListHistory \/ CallFails \/ DeleteAnime \/ DeleteEpisode
           \/ RefreshPopularity \/ Restart
    PROVE  QInv'
<1>1. CASE GetAnime \/ RecordAnimeView \/ SendAnimeDetail \/ DeliverEpisode
           \/ RecordProgress \/ ListHistory \/ CallFails
  BY <1>1, CallsShowNoList, NoListNoQuery, QueriesKept DEF QInv
<1>2. CASE Count
  <2>1. job.at = "count"
    BY <1>2 DEF Count
  <2> QED
    BY <1>2, <2>1, CountFields, QuietKeepsQueries DEF QInv, JobOfItsQuery
<1>3. ASSUME NEW l, NEW d, d.list = l, d.era = restarts, l.of = "e",
             job' = Counting(d), Quiet
      PROVE  QInv'
  <2>1. PICK j : j = Counting(d)
    OBVIOUS
  <2>2. j.screen = d /\ restarts \in Nat
    BY <2>1 DEF Counting, QInv, TypeOK
  <2>3. JobOfItsQuery(j, searches, restarts)
    BY <1>3, <2>2 DEF JobOfItsQuery, OfItsQuery
  <2> QED
    BY <1>3, <2>1, <2>3, QuietKeepsQueries
<1>4. CASE ListSeasonsFails
  <2>1. PICK l : l = WatchList(job.anime, {}) /\ l.of = "e"
    BY WatchListIs, Zenon
  <2>a. PICK steady : steady = job.steady
    OBVIOUS
  <2>b. PICK d : /\ d = [FirstPage(l) EXCEPT !.steady = steady]
                 /\ Opened(d, l)
    BY WatchScreens, Zenon
  <2>2. d = [FirstPage(l) EXCEPT !.steady = job.steady]
    BY <2>a, <2>b
  <2>3. l.of = "e" /\ d.list = l /\ d.era = restarts
    BY <2>1, <2>b DEF Opened
  <2>4. job' = Counting(d) /\ Quiet
    BY <1>4, <2>1, <2>2 DEF ListSeasonsFails, Quiet
  <2> QED
    BY <1>3, <2>3, <2>4
<1>5. CASE SendWatchEntry
  <2>1. CASE SkipsPicker(SeasonsOf(job.anime))
    <3>a. PICK a, seasons, steady : /\ a = job.anime /\ seasons = SeasonsOf(a)
                                    /\ steady = job.steady
      OBVIOUS
    <3>1. PICK l : l = WatchList(a, seasons) /\ l.of = "e"
      BY WatchListIs, Zenon
    <3>2. PICK d : /\ d = [FirstPage(l) EXCEPT !.direct = TRUE, !.steady = steady]
                   /\ Opened(d, l)
      BY WatchScreens, Zenon
    <3>3. l.of = "e" /\ d.list = l /\ d.era = restarts
      BY <3>1, <3>2 DEF Opened
    <3>4. job' = Counting(d) /\ Quiet
      BY <1>5, <2>1, <3>a, <3>1, <3>2 DEF SendWatchEntry, Quiet
    <3> QED
      BY <1>3, <3>3, <3>4
  <2>2. CASE ~SkipsPicker(SeasonsOf(job.anime))
    <3>1. PICK c : c.kind = "seasons" /\ Show(c)
      BY <1>5, <2>2 DEF SendWatchEntry
    <3>2. job'.at = "idle" /\ UNCHANGED <<searches, restarts>>
      BY <1>5, <2>2 DEF SendWatchEntry, Idle
    <3>3. NoNewList
      BY <3>1, ShowNoList DEF QInv
    <3> QED
      BY <3>2, <3>3, NoListNoQuery, QueriesKept
  <2> QED
    BY <2>1, <2>2
<1>6. CASE DeleteAnime \/ DeleteEpisode \/ RefreshPopularity
  <2>1. Changed
    BY <1>6 DEF DeleteAnime, DeleteEpisode, RefreshPopularity
  <2>2. NoNewList /\ UNCHANGED <<searches, restarts>>
    BY <2>1 DEF Changed, NoNewList, Faded
  <2>3. JobOfItsQuery(job', searches, restarts)
    <3>1. PICK j : j = UnsteadyJob /\ job' = j
      BY <2>1 DEF Changed
    <3>2. CASE job.at \in {"count", "select"}
      <4>1. JobTyped(job) /\ ListScreenTyped(job.screen)
        BY <3>2, JobFields DEF QInv, TypeOK
      <4>2. /\ j.at = job.at /\ j.fresh = job.fresh
            /\ Faded(job.screen, j.screen)
        BY <3>1, <3>2, <4>1, UnsteadyJobFields
      <4>3. ScreenTyped(job.screen) /\ job.screen.kind = "list"
        BY <4>1, ListScreenFields DEF ScreenTyped
      <4>4. PICK c, d : c = job.screen /\ d = j.screen
        OBVIOUS
      <4>5. d.list = c.list /\ d.asked = c.asked /\ d.strayed = c.strayed /\ d.era = c.era
        BY <4>2, <4>3, <4>4, FadedList
      <4>6. c.era = restarts /\ OfItsQuery(c, job.fresh, searches, restarts)
        BY <3>2, <4>4 DEF QInv, JobOfItsQuery
      <4>7. OfItsQuery(d, j.fresh, searches, restarts) /\ d.era = restarts
        BY <4>2, <4>5, <4>6 DEF OfItsQuery
      <4> QED
        BY <3>1, <4>4, <4>7 DEF JobOfItsQuery
    <3>3. CASE job.at \notin {"count", "select"}
      BY <3>1, <3>3, UnsteadyJobFields, NoListNoQuery DEF QInv, TypeOK
    <3> QED
      BY <3>2, <3>3
  <2> QED
    BY <2>2, <2>3, QueriesKept
<1>7. CASE Restart
  <2>1. searches' = <<>> /\ restarts' = restarts + 1 /\ job' = Idle /\ chat' = chat
    BY <1>7 DEF Restart
  <2>2. \A i \in Slots : chat[i].kind = "list" =>
           OfItsQuery(chat[i], FALSE, searches', restarts')
    <3>1. ASSUME NEW i \in Slots, chat[i].kind = "list"
          PROVE  OfItsQuery(chat[i], FALSE, searches', restarts')
      <4>1. PICK c : c = chat[i]
        OBVIOUS
      <4>2. c.era \in Nat /\ restarts \in Nat
        BY <3>1, <4>1, ScreenFields, ListScreenFields DEF QInv, TypeOK
      <4>3. OfItsQuery(c, FALSE, searches, restarts)
        BY <3>1, <4>1 DEF QInv
      <4>4. c.era <= restarts' /\ c.era # restarts'
        BY <2>1, <4>2, <4>3 DEF OfItsQuery
      <4> QED
        BY <4>1, <4>3, <4>4 DEF OfItsQuery
    <3> QED
      BY <3>1
  <2>3. JobOfItsQuery(job', searches', restarts')
    BY <2>1 DEF JobOfItsQuery, Idle
  <2> QED
    BY <2>1, <2>2, <2>3 DEF QInv
<1> QED
  BY <1>1, <1>2, <1>4, <1>5, <1>6, <1>7

LEMMA NextKeepsQueries ==
    ASSUME QInv, [Next]_vars
    PROVE  QInv'
<1>1. TypeOK'
  BY NextTyped DEF QInv
<1>2. CASE UNCHANGED vars
  BY <1>1, <1>2, QuietKeepsQueries DEF vars, Quiet, QInv
<1> QED
  BY <1>1, <1>2, HandlersKeepQueries, PressKeepsQueries, SelectKeepsQueries,
     StepsKeepQueries DEF Next

LEMMA InitQueries == Init => QInv
<1> SUFFICES ASSUME Init PROVE QInv
  OBVIOUS
<1>1. \A i \in Slots : chat[i].kind # "list"
  BY DEF Init, NoScreen
<1>2. job.at = "idle"
  BY DEF Init, Idle
<1> QED
  BY <1>1, <1>2, InitTyped, NoListNoQuery DEF QInv

\* However old the button pressed and however often the bot restarts, a page of
\* a search is a page of the query typed, or its token is from an earlier
\* process.
THEOREM OnlyOldTokensStray == Spec => []PagesOfOneSearch
<1>1. QInv => PagesOfOneSearch
  BY DEF QInv, OfItsQuery, PagesOfOneSearch, Screens
<1> QED
  BY <1>1, InitQueries, NextKeepsQueries, PTL DEF Spec

-----------------------------------------------------------------------------
(* 4. The watch history.                                                   *)

\* e was delivered i-th, and not again.
IsLast(w, i, e) ==
    /\ i \in 1..Len(w) /\ w[i] = e
    /\ \A j \in i + 1..Len(w) : w[j] # e

\* The table h says what the deliveries w were, the latest first.
Recorded(h, w) ==
    /\ \A i \in 1..Len(w) : \E k \in 1..Len(h) : h[k] = w[i]
    /\ \A k \in 1..Len(h) : \E i \in 1..Len(w) : IsLast(w, i, h[k])
    /\ \A j, k \in 1..Len(h), m, n \in 1..Len(w) :
          j < k /\ IsLast(w, m, h[j]) /\ IsLast(w, n, h[k]) => m > n

LEMMA LastIsOne ==
    ASSUME NEW S, NEW w \in Seq(S), NEW e, NEW i, NEW j, IsLast(w, i, e), IsLast(w, j, e)
    PROVE  i = j
<1>1. Len(w) \in Nat
  BY LenProperties
<1>2. i \in Nat /\ j \in Nat /\ i <= Len(w) /\ j <= Len(w)
  BY <1>1 DEF IsLast
<1>3. ~(i < j)
  <2>1. ASSUME i < j PROVE j \in i + 1..Len(w)
    BY <1>1, <1>2, <2>1
  <2> QED
    BY <2>1 DEF IsLast
<1>4. ~(j < i)
  <2>1. ASSUME j < i PROVE i \in j + 1..Len(w)
    BY <1>1, <1>2, <2>1
  <2> QED
    BY <2>1 DEF IsLast
<1> QED
  BY <1>2, <1>3, <1>4

LEMMA RecordedOnce ==
    ASSUME NEW S, NEW h \in Seq(S), NEW w \in Seq(S), Recorded(h, w),
           NEW j \in 1..Len(h), NEW k \in 1..Len(h), h[j] = h[k]
    PROVE  j = k
<1>1. PICK i \in 1..Len(w) : IsLast(w, i, h[j]) /\ IsLast(w, i, h[k])
  BY DEF Recorded
<1>2. i \in Nat /\ j \in Nat /\ k \in Nat
  BY LenProperties
<1>3. ~(j < k) /\ ~(k < j)
  BY <1>1, <1>2 DEF Recorded
<1> QED
  BY <1>2, <1>3

\* Without a row, the others come in the same order.
LEMMA WithoutKeepsOrder ==
    ASSUME NEW S, NEW s \in Seq(S), NEW x,
           \A j, k \in 1..Len(s) : s[j] = s[k] => j = k
    PROVE  \E g \in Seq(S) :
           /\ g = Without(s, x)
           /\ \A k \in 1..Len(g) : g[k] # x /\ \E j \in 1..Len(s) : g[k] = s[j]
           /\ \A k, l \in 1..Len(g) : k < l =>
                 \E i, j \in 1..Len(s) : i < j /\ g[k] = s[i] /\ g[l] = s[j]
           /\ \A j \in 1..Len(s) : s[j] # x => \E k \in 1..Len(g) : g[k] = s[j]
<1>1. PICK g \in Seq(S) : g = Without(s, x)
  BY WithoutIsSeq
<1>2. Len(s) \in Nat /\ DOMAIN s = 1..Len(s)
  BY LenProperties
<1>3. CASE x \notin ToSet(s)
  <2>1. g = s
    BY <1>1, <1>3 DEF Without
  <2>2. \A k \in 1..Len(s) : s[k] # x
    BY <1>2, <1>3 DEF ToSet
  <2> QED
    BY <1>1, <2>1, <2>2
<1>4. CASE x \in ToSet(s)
  <2>1. PICK p : /\ p \in 1..Len(s) /\ s[p] = x
                 /\ Len(g) = Len(s) - 1
                 /\ \A i \in 1..Len(s) - 1 : g[i] = IF i < p THEN s[i] ELSE s[i + 1]
    BY <1>1, <1>4, WithoutIsSeq
  <2> DEFINE at(k) == IF k < p THEN k ELSE k + 1
  <2>2. ASSUME NEW k \in 1..Len(g)
        PROVE  at(k) \in 1..Len(s) /\ at(k) # p /\ g[k] = s[at(k)]
    <3>1. k \in 1..Len(s) - 1 /\ k \in Nat
      BY <1>2, <2>1
    <3>2. at(k) \in 1..Len(s) /\ at(k) # p
      BY <1>2, <2>1, <3>1
    <3> QED
      BY <2>1, <3>1, <3>2
  <2>3. ASSUME NEW k \in 1..Len(g), NEW l \in 1..Len(g), k < l PROVE at(k) < at(l)
    BY <1>2, <2>1, <2>3
  <2>4. ASSUME NEW j \in 1..Len(s), s[j] # x
        PROVE  \E k \in 1..Len(g) : g[k] = s[j]
    <3>1. CASE j < p
      <4>1. j \in 1..Len(g) /\ at(j) = j
        BY <1>2, <2>1, <3>1
      <4> QED
        BY <2>2, <4>1
    <3>2. CASE j > p
      <4>1. PICK k : k = j - 1
        OBVIOUS
      <4>2. k \in 1..Len(g) /\ at(k) = j
        BY <1>2, <2>1, <3>2, <4>1
      <4> QED
        BY <2>2, <4>2
    <3>3. j # p
      BY <2>1, <2>4
    <3> QED
      BY <1>2, <2>1, <3>1, <3>2, <3>3
  <2>5. \A k \in 1..Len(g) : g[k] # x
    BY <2>1, <2>2
  <2> HIDE DEF at
  <2> QED
    BY <1>1, <2>2, <2>3, <2>4, <2>5, ZenonT(30)
<1> QED
  BY <1>3, <1>4

\* An episode delivered once more comes first.
LEMMA WatchRecords ==
    ASSUME NEW S, NEW h \in Seq(S), NEW w \in Seq(S), Recorded(h, w), NEW e \in S
    PROVE  Recorded(<<e>> \o Without(h, e), Append(w, e))
<1>1. PICK g \in Seq(S) :
        /\ g = Without(h, e)
        /\ \A k \in 1..Len(g) : g[k] # e /\ \E j \in 1..Len(h) : g[k] = h[j]
        /\ \A k, l \in 1..Len(g) : k < l =>
              \E i, j \in 1..Len(h) : i < j /\ g[k] = h[i] /\ g[l] = h[j]
        /\ \A j \in 1..Len(h) : h[j] # e => \E k \in 1..Len(g) : g[k] = h[j]
  <2>1. \A j, k \in 1..Len(h) : h[j] = h[k] => j = k
    BY RecordedOnce
  <2> QED
    BY <2>1, WithoutKeepsOrder
<1>a. PICK d : d = <<e>>
  OBVIOUS
<1>b. d \in Seq(S) /\ Len(d) = 1 /\ d[1] = e
  BY <1>a
<1>c. d \o g \in Seq(S)
  BY <1>b, ConcatProperties
<1>2. PICK r \in Seq(S) : r = d \o g
  BY <1>c
<1>3. Len(g) \in Nat /\ Len(h) \in Nat /\ Len(w) \in Nat
  BY LenProperties
<1>4. /\ Len(r) = Len(g) + 1 /\ r[1] = e
      /\ \A k \in 2..Len(r) : k - 1 \in 1..Len(g) /\ r[k] = g[k - 1]
  <2>2. /\ Len(r) = Len(d) + Len(g)
        /\ \A k \in 1..Len(d) + Len(g) :
              r[k] = IF k <= Len(d) THEN d[k] ELSE g[k - Len(d)]
    BY <1>b, <1>2, ConcatProperties
  <2>3. Len(r) = Len(g) + 1 /\ r[1] = e
    BY <1>b, <1>3, <2>2
  <2>4. ASSUME NEW k \in 2..Len(r) PROVE k - 1 \in 1..Len(g) /\ r[k] = g[k - 1]
    <3>1. k \in 1..Len(d) + Len(g) /\ ~(k <= Len(d)) /\ k - 1 \in 1..Len(g)
      BY <1>b, <1>3, <2>3
    <3> QED
      BY <1>b, <2>2, <3>1
  <2> QED
    BY <2>3, <2>4
<1>5. PICK v \in Seq(S) :
        /\ v = Append(w, e) /\ Len(v) = Len(w) + 1 /\ v[Len(w) + 1] = e
        /\ \A i \in 1..Len(w) : v[i] = w[i]
  <2>1. PICK v : v = Append(w, e)
    OBVIOUS
  <2>2. /\ v \in Seq(S) /\ Len(v) = Len(w) + 1 /\ v[Len(w) + 1] = e
        /\ \A i \in 1..Len(w) : v[i] = w[i]
    BY <2>1, AppendProperties
  <2> QED
    BY <2>1, <2>2
<1>6. IsLast(v, Len(w) + 1, e)
  BY <1>3, <1>5 DEF IsLast
<1>7. \A x, i : x # e => (IsLast(v, i, x) <=> IsLast(w, i, x))
  <2> SUFFICES ASSUME NEW x, NEW i, x # e
               PROVE  IsLast(v, i, x) <=> IsLast(w, i, x)
    OBVIOUS
  <2>1. ASSUME IsLast(v, i, x) PROVE IsLast(w, i, x)
    <3>1. i \in 1..Len(w)
      BY <1>3, <1>5, <2>1 DEF IsLast
    <3>2. ASSUME NEW j \in i + 1..Len(w) PROVE w[j] # x
      <4>1. j \in i + 1..Len(v) /\ j \in 1..Len(w)
        BY <1>3, <1>5, <3>1
      <4> QED
        BY <1>5, <2>1, <4>1 DEF IsLast
    <3> QED
      BY <1>5, <2>1, <3>1, <3>2 DEF IsLast
  <2>2. ASSUME IsLast(w, i, x) PROVE IsLast(v, i, x)
    <3>1. i \in 1..Len(w) /\ i \in 1..Len(v) /\ v[i] = x
      BY <1>3, <1>5, <2>2 DEF IsLast
    <3>2. ASSUME NEW j \in i + 1..Len(v) PROVE v[j] # x
      <4>1. CASE j = Len(w) + 1
        BY <1>5, <4>1
      <4>2. CASE j # Len(w) + 1
        <5>a. i \in Nat /\ j \in Nat /\ 1 <= i /\ i < j /\ j <= Len(w) + 1
          BY <1>3, <1>5, <3>1
        <5>1. j \in i + 1..Len(w) /\ j \in 1..Len(w)
          BY <1>3, <4>2, <5>a
        <5> QED
          BY <1>5, <2>2, <5>1 DEF IsLast
      <4> QED
        BY <4>1, <4>2
    <3> QED
      BY <3>1, <3>2 DEF IsLast
  <2> QED
    BY <2>1, <2>2
<1>8. \A i \in 1..Len(v) : \E k \in 1..Len(r) : r[k] = v[i]
  <2>1. ASSUME NEW i \in 1..Len(v), v[i] # e PROVE \E k \in 1..Len(r) : r[k] = v[i]
    <3>1. i \in 1..Len(w) /\ v[i] = w[i]
      BY <1>3, <1>5, <2>1
    <3>2. PICK j \in 1..Len(h) : h[j] = v[i]
      BY <3>1 DEF Recorded
    <3>3. PICK k \in 1..Len(g) : g[k] = v[i]
      BY <1>1, <2>1, <3>2
    <3>4. PICK m : m = k + 1 /\ m \in 2..Len(r) /\ m \in 1..Len(r) /\ m - 1 = k
      BY <1>3, <1>4
    <3> QED
      BY <1>4, <3>3, <3>4
  <2>2. 1 \in 1..Len(r)
    BY <1>3, <1>4
  <2> QED
    BY <1>4, <2>1, <2>2
<1>9. \A k \in 1..Len(r) : \E i \in 1..Len(v) : IsLast(v, i, r[k])
  <2>1. ASSUME NEW k \in 1..Len(r), k # 1
        PROVE  \E i \in 1..Len(v) : IsLast(v, i, r[k])
    <3>1. k \in 2..Len(r)
      BY <1>3, <1>4, <2>1
    <3>a. PICK l \in 1..Len(g) : r[k] = g[l]
      BY <1>4, <3>1
    <3>2. r[k] # e /\ \E j \in 1..Len(h) : r[k] = h[j]
      BY <1>1, <3>a
    <3>3. PICK i \in 1..Len(w) : IsLast(w, i, r[k])
      BY <3>2 DEF Recorded
    <3>4. i \in 1..Len(v)
      BY <1>3, <1>5
    <3> QED
      BY <1>7, <3>2, <3>3, <3>4
  <2>2. Len(w) + 1 \in 1..Len(v)
    BY <1>3, <1>5
  <2> QED
    BY <1>4, <1>6, <2>1, <2>2
<1>10. ASSUME NEW j \in 1..Len(r), NEW k \in 1..Len(r), NEW m \in 1..Len(v),
              NEW n \in 1..Len(v), j < k, IsLast(v, m, r[j]), IsLast(v, n, r[k])
       PROVE  m > n
  <2>1. k \in 2..Len(r) /\ k - 1 \in 1..Len(g) /\ r[k] = g[k - 1]
    BY <1>3, <1>4, <1>10
  <2>2. r[k] # e
    BY <1>1, <2>1
  <2>a. IsLast(w, n, r[k])
    BY <1>7, <1>10, <2>2
  <2>3. IsLast(w, n, r[k]) /\ n \in 1..Len(w)
    BY <2>a DEF IsLast
  <2>4. CASE j = 1
    <3>1. m = Len(w) + 1
      BY <1>4, <1>5, <1>6, <1>10, <2>4, LastIsOne
    <3> QED
      BY <1>3, <2>3, <3>1
  <2>5. CASE j # 1
    <3>1. j \in 2..Len(r) /\ j - 1 \in 1..Len(g) /\ r[j] = g[j - 1] /\ j - 1 < k - 1
      BY <1>3, <1>4, <1>10, <2>5
    <3>2. r[j] # e
      BY <1>1, <3>1
    <3>b. IsLast(w, m, r[j])
      BY <1>7, <1>10, <3>2
    <3>3. IsLast(w, m, r[j]) /\ m \in 1..Len(w)
      BY <3>b DEF IsLast
    <3>a. PICK l \in 1..Len(g), o \in 1..Len(g) : l < o /\ r[j] = g[l] /\ r[k] = g[o]
      <4>1. PICK l, o : l = j - 1 /\ o = k - 1
        OBVIOUS
      <4> QED
        BY <2>1, <3>1, <4>1
    <3>c. \E a, b \in 1..Len(h) : a < b /\ g[l] = h[a] /\ g[o] = h[b]
      BY <1>1, <3>a, Zenon
    <3>4. PICK a \in 1..Len(h), b \in 1..Len(h) : a < b /\ r[j] = h[a] /\ r[k] = h[b]
      BY <3>a, <3>c, Zenon
    <3>5. IsLast(w, m, h[a]) /\ IsLast(w, n, h[b])
      BY <2>3, <3>3, <3>4
    <3> QED
      BY <2>3, <3>3, <3>4, <3>5 DEF Recorded
  <2> QED
    BY <2>4, <2>5
<1>11. Recorded(r, v)
  BY <1>8, <1>9, <1>10 DEF Recorded
<1> QED
  BY <1>1, <1>a, <1>2, <1>5, <1>11

\* The rows and the keys of every list stay.
CatalogueKept ==
    /\ UNCHANGED <<favs, episode>>
    /\ \A a \in Animes : /\ anime'[a].deleted = anime[a].deleted
                         /\ anime'[a].score = anime[a].score
                         /\ anime'[a].seasons = anime[a].seasons

\* Nothing here moves an episode, or writes a season.
SeasonsKept ==
    /\ \A a \in Animes : anime'[a].seasons = anime[a].seasons
    /\ \A e \in Episodes : episode'[e].season = episode[e].season

\* Lists may change: no message counts as steady any more.
Alters ==
    /\ \A i \in Slots : chat'[i] = Unsteady(chat[i])
    /\ UNCHANGED <<history, watched>>
    /\ SeasonsKept

\* The steps, by what they do to the lists, to the chat and to the history.
LEMMA StepKinds ==
    ASSUME TypeOK, [Next]_vars
    PROVE  \/ Alters
           \/ /\ CatalogueKept
              /\ \/ UNCHANGED <<chat, history, watched>>
                 \/ RecordProgress \/ ListHistory
                 \/ Select \/ SendAnimeDetail \/ SendWatchEntry
<1>1. ASSUME UNCHANGED <<anime, episode, favs>> PROVE CatalogueKept
  BY <1>1 DEF CatalogueKept
<1>2. CASE UNCHANGED vars
  BY <1>1, <1>2 DEF vars, tables
<1>3. ASSUME Quiet PROVE CatalogueKept /\ UNCHANGED <<chat, history, watched>>
  BY <1>1, <1>3 DEF Quiet, tables
<1>4. CASE HandleStart \/ HandleSearch \/ Menu \/ GenreMenu
  <2>1. Quiet
    BY <1>4 DEF Quiet, HandleStart, HandleSearch, Menu, GenreMenu, Begin
  <2> QED
    BY <1>3, <2>1
<1>5. CASE Press
  <2>1. PICK i \in Slots :
          \/ PressItem(chat[i]) \/ PressPage(chat[i]) \/ PressSeason(chat[i])
          \/ PressWatch(chat[i]) \/ PressBack(chat[i]) \/ PressFavorite(chat[i])
    BY <1>5 DEF Press
  <2>2. PICK c : c = chat[i]
    OBVIOUS
  <2>3. CASE \/ PressItem(c) \/ PressPage(c) \/ PressSeason(c) \/ PressWatch(c)
            \/ PressBack(c)
    <3>1. Quiet
      BY <2>3 DEF Quiet, PressItem, PressPage, PressSeason, PressWatch, PressBack, Begin
    <3> QED
      BY <1>3, <3>1
  <2>4. CASE PressFavorite(c)
    BY <2>4 DEF PressFavorite, Alters, SeasonsKept
  <2> QED
    BY <2>1, <2>2, <2>3, <2>4
<1>6. CASE Count \/ GetAnime \/ ListSeasonsFails \/ DeliverEpisode \/ CallFails
  <2>1. Quiet
    BY <1>6 DEF Quiet, Count, GetAnime, ListSeasonsFails, DeliverEpisode, CallFails
  <2> QED
    BY <1>3, <2>1
<1>7. CASE RecordAnimeView
  <2>1. UNCHANGED <<chat, history, watched, favs, episode>>
    BY <1>7 DEF RecordAnimeView
  <2>2. CatalogueKept
    <3>1. CASE UNCHANGED anime
      BY <2>1, <3>1 DEF CatalogueKept
    <3>2. CASE anime' = [anime EXCEPT ![job.anime].views = @ + 1]
      <4>1. anime \in [Animes -> Row]
        BY DEF TypeOK, Row
      <4>2. PICK b, n : anime' = [anime EXCEPT ![b].views = n]
        BY <3>2
      <4>3. ASSUME NEW a \in Animes
            PROVE  /\ anime'[a].deleted = anime[a].deleted
                   /\ anime'[a].score = anime[a].score
                   /\ anime'[a].seasons = anime[a].seasons
        <5>1. anime[a] \in Row
          BY <4>1
        <5>2. anime'[a] = anime[a] \/ anime'[a] = [anime[a] EXCEPT !.views = n]
          BY <4>1, <4>2
        <5> QED
          BY <5>1, <5>2 DEF Row
      <4> QED
        BY <2>1, <4>3 DEF CatalogueKept
    <3> QED
      BY <1>7, <3>1, <3>2 DEF RecordAnimeView
  <2> QED
    BY <2>1, <2>2
<1>8. CASE RecordProgress \/ ListHistory \/ Select \/ SendAnimeDetail \/ SendWatchEntry
  <2>1. UNCHANGED <<anime, episode, favs>>
    BY <1>8 DEF RecordProgress, ListHistory, Select, SendAnimeDetail, SendWatchEntry,
                tables
  <2> QED
    BY <1>1, <1>8, <2>1
<1>9. CASE DeleteAnime \/ DeleteEpisode \/ RefreshPopularity
  <2>1. SeasonsKept
    <3>1. anime \in [Animes -> Row]
          /\ episode \in [Episodes -> [season: Nat, number: Nat, deleted: BOOLEAN]]
      BY DEF TypeOK, Row
    <3>2. \A a \in Animes : anime'[a].seasons = anime[a].seasons
      <4>1. CASE UNCHANGED anime
        BY <4>1
      <4>2. CASE \E b \in Animes : anime' = [anime EXCEPT ![b].deleted = TRUE]
        BY <3>1, <4>2 DEF Row
      <4>3. CASE anime' = [a \in Animes |-> [anime[a] EXCEPT !.score = anime[a].views]]
        BY <3>1, <4>3 DEF Row
      <4> QED
        BY <1>9, <4>1, <4>2, <4>3 DEF DeleteAnime, DeleteEpisode, RefreshPopularity
    <3>3. \A e \in Episodes : episode'[e].season = episode[e].season
      BY <1>9, <3>1 DEF DeleteAnime, DeleteEpisode, RefreshPopularity
    <3> QED
      BY <3>2, <3>3 DEF SeasonsKept
  <2> QED
    BY <1>9, <2>1 DEF DeleteAnime, DeleteEpisode, RefreshPopularity, Changed, Alters
<1>10. CASE Restart
  <2>1. UNCHANGED <<anime, episode, favs, chat, history, watched>>
    BY <1>10 DEF Restart, tables
  <2> QED
    BY <1>1, <2>1
<1> QED
  BY <1>2, <1>4, <1>5, <1>6, <1>7, <1>8, <1>9, <1>10 DEF Next

HInv ==
    /\ TypeOK
    /\ Recorded(history, watched)
    /\ \A i \in Slots : chat[i].kind = "history" /\ chat[i].steady =>
          chat[i].items = PageOf(history, 1, HistorySize)

LEMMA FadedKind ==
    ASSUME NEW c, ScreenTyped(c), NEW d, Faded(c, d)
    PROVE  d.kind = c.kind /\ (d.kind # "none" /\ d.steady => d = c)
<1>1. CASE d = c
  BY <1>1
<1>2. CASE d = Unsteady(c)
  <2>1. d.kind = c.kind
    BY <1>2, UnsteadyTyped
  <2>2. CASE c.kind = "list"
    BY <1>2, <2>2, FadedList DEF Faded
  <2>3. CASE c.kind \in {"detail", "seasons", "history"}
    <3>1. d = [c EXCEPT !.steady = FALSE]
      BY <1>2, <2>3 DEF Unsteady
    <3>2. d.steady = FALSE
      BY <2>3, <3>1, ScreenFields
    <3> QED
      BY <2>1, <3>2
  <2>4. CASE c.kind \notin {"list", "detail", "seasons", "history"}
    BY <2>1, <2>4 DEF ScreenTyped, NoScreen
  <2> QED
    BY <2>1, <2>2, <2>3, <2>4
<1> QED
  BY <1>1, <1>2 DEF Faded

LEMMA NextHistory ==
    ASSUME HInv, [Next]_vars
    PROVE  HInv'
<1>1. TypeOK'
  BY NextTyped DEF HInv
<1>2. ASSUME UNCHANGED <<history, watched>>,
             \A i \in Slots : \/ Faded(chat[i], chat'[i])
                              \/ chat'[i].kind \in {"list", "detail", "seasons"}
      PROVE  HInv'
  <2>1. ASSUME NEW i \in Slots, chat'[i].kind = "history", chat'[i].steady
        PROVE  chat'[i].items = PageOf(history, 1, HistorySize)
    <3>1. PICK c, d : c = chat[i] /\ d = chat'[i]
      OBVIOUS
    <3>2. ScreenTyped(c) /\ Faded(c, d)
      BY <1>2, <2>1, <3>1 DEF HInv, TypeOK
    <3>3. d = c
      BY <2>1, <3>1, <3>2, FadedKind
    <3> QED
      BY <2>1, <3>1, <3>3 DEF HInv
  <2> QED
    BY <1>1, <1>2, <2>1 DEF HInv
<1>3. CASE Alters
  BY <1>2, <1>3 DEF Alters, Faded
<1>4. CASE UNCHANGED <<chat, history, watched>>
  BY <1>2, <1>4 DEF Faded
<1>5. CASE RecordProgress
  <2>1. PICK e \in Episodes : e = job.episode
    <3>1. job \in [at: {"deliver", "progress"}, episode: Episodes]
      BY <1>5, JobFields DEF RecordProgress, HInv, TypeOK
    <3> QED
      BY <3>1
  <2>2. history' = <<e>> \o Without(history, e) /\ watched' = Append(watched, e)
    BY <1>5, <2>1 DEF RecordProgress, Watch
  <2>3. Recorded(history', watched')
    BY <2>2, WatchRecords DEF HInv, TypeOK
  <2>4. ASSUME NEW i \in Slots, chat'[i].kind = "history" PROVE ~chat'[i].steady
    <3>1. PICK c, d : c = chat[i] /\ d = chat'[i]
      OBVIOUS
    <3>2. ScreenTyped(c) /\ d = IF c.kind = "history" THEN Unsteady(c) ELSE c
      BY <1>5, <3>1 DEF RecordProgress, HInv, TypeOK
    <3>3. c.kind = "history" /\ d = [c EXCEPT !.steady = FALSE]
      BY <2>4, <3>1, <3>2 DEF Unsteady
    <3>4. d.steady = FALSE
      BY <3>2, <3>3, ScreenFields
    <3> QED
      BY <3>1, <3>4
  <2> QED
    BY <1>1, <2>3, <2>4 DEF HInv
<1>6. CASE ListHistory
  <2>1. PICK c : /\ c = [kind |-> "history", steady |-> TRUE,
                         items |-> PageOf(history, 1, HistorySize)]
                 /\ Show(c)
    BY <1>6 DEF ListHistory
  <2>2. c.items = PageOf(history, 1, HistorySize)
    BY <2>1
  <2>3. UNCHANGED <<history, watched>>
    BY <1>6 DEF ListHistory, tables
  <2>4. \A i \in Slots : chat'[i] = chat[i] \/ chat'[i] = c
    BY <2>1, ShowEither DEF HInv
  <2> QED
    BY <1>1, <2>2, <2>3, <2>4 DEF HInv
<1>7. CASE Select \/ SendAnimeDetail \/ SendWatchEntry
  <2>1. UNCHANGED <<history, watched>>
    BY <1>7 DEF Select, SendAnimeDetail, SendWatchEntry, tables
  <2>2. UNCHANGED chat \/ \E c : Show(c) /\ c.kind \in {"list", "detail", "seasons"}
    <3>1. CASE Select
      BY <3>1, SelectShows DEF HInv
    <3>2. CASE SendAnimeDetail
      BY <3>2 DEF SendAnimeDetail
    <3>3. CASE SendWatchEntry
      BY <3>3 DEF SendWatchEntry
    <3> QED
      BY <1>7, <3>1, <3>2, <3>3
  <2> QED
    BY <1>2, <2>1, <2>2, ShowEither DEF Faded, HInv
<1> QED
  BY <1>3, <1>4, <1>5, <1>6, <1>7, StepKinds DEF HInv

LEMMA InitHistory == Init => HInv
<1> SUFFICES ASSUME Init PROVE HInv
  OBVIOUS
<1>1. PICK h \in Seq(Episodes) :
        /\ history = h /\ watched = Reverse(h)
        /\ \A i, j \in DOMAIN h : h[i] = h[j] => i = j
  BY StartsAreTables DEF Init
<1>2. Len(h) \in Nat /\ DOMAIN h = 1..Len(h)
  BY LenProperties
<1>3. PICK w : w = Reverse(h)
  OBVIOUS
<1>4. Len(w) = Len(h) /\ \A i \in 1..Len(h) : w[i] = h[(Len(h) - i) + 1]
  <2>1. w \in Seq(Episodes)
    BY <1>1, <1>3, InitTyped DEF TypeOK
  <2>2. DOMAIN w = 1..Len(h)
    BY <1>3 DEF Reverse
  <2>3. DOMAIN w = 1..Len(w) /\ Len(w) \in Nat
    BY <2>1, LenProperties
  <2>4. Len(w) = Len(h)
    BY <1>2, <2>2, <2>3
  <2> QED
    BY <1>3, <2>4 DEF Reverse
<1>5. ASSUME NEW i \in 1..Len(h), NEW k \in 1..Len(h)
      PROVE  w[i] = h[k] <=> i + k = Len(h) + 1
  <2>1. (Len(h) - i) + 1 \in 1..Len(h)
    BY <1>2
  <2>2. w[i] = h[(Len(h) - i) + 1]
    BY <1>4
  <2>3. w[i] = h[k] <=> (Len(h) - i) + 1 = k
    BY <1>1, <1>2, <2>1, <2>2
  <2> QED
    BY <1>2, <2>3
<1>6. ASSUME NEW k \in 1..Len(h), NEW i
      PROVE  IsLast(w, i, h[k]) <=> i \in 1..Len(h) /\ i + k = Len(h) + 1
  <2>1. ASSUME IsLast(w, i, h[k]) PROVE i \in 1..Len(h) /\ i + k = Len(h) + 1
    BY <1>4, <1>5, <2>1 DEF IsLast
  <2>2. ASSUME i \in 1..Len(h), i + k = Len(h) + 1 PROVE IsLast(w, i, h[k])
    <3>1. ASSUME NEW j \in i + 1..Len(h) PROVE w[j] # h[k]
      <4>1. j \in 1..Len(h) /\ j + k # Len(h) + 1
        BY <1>2, <2>2
      <4> QED
        BY <1>5, <4>1
    <3> QED
      BY <1>4, <1>5, <2>2, <3>1 DEF IsLast
  <2> QED
    BY <2>1, <2>2
<1>7. \A i \in 1..Len(w) : \E k \in 1..Len(h) : h[k] = w[i]
  <2>1. ASSUME NEW i \in 1..Len(h) PROVE (Len(h) - i) + 1 \in 1..Len(h)
    BY <1>2
  <2> QED
    BY <1>4, <2>1
<1>8. \A k \in 1..Len(h) : \E i \in 1..Len(w) : IsLast(w, i, h[k])
  <2> SUFFICES ASSUME NEW k \in 1..Len(h) PROVE \E i \in 1..Len(w) : IsLast(w, i, h[k])
    OBVIOUS
  <2>1. PICK i : i = (Len(h) - k) + 1
    OBVIOUS
  <2>2. i \in 1..Len(h) /\ i + k = Len(h) + 1
    BY <1>2, <2>1
  <2> QED
    BY <1>4, <1>6, <2>2
<1>9. \A j, k \in 1..Len(h), m, n \in 1..Len(w) :
         j < k /\ IsLast(w, m, h[j]) /\ IsLast(w, n, h[k]) => m > n
  <2> SUFFICES ASSUME NEW j \in 1..Len(h), NEW k \in 1..Len(h), NEW m \in 1..Len(w),
                      NEW n \in 1..Len(w), j < k, IsLast(w, m, h[j]), IsLast(w, n, h[k])
               PROVE  m > n
    OBVIOUS
  <2>1. m + j = Len(h) + 1 /\ n + k = Len(h) + 1
    BY <1>6
  <2> QED
    BY <1>2, <1>4, <2>1
<1>10. Recorded(history, watched)
  BY <1>1, <1>3, <1>7, <1>8, <1>9 DEF Recorded
<1>11. \A i \in Slots : chat[i].kind = "none"
  BY DEF Init, NoScreen
<1> QED
  BY <1>10, <1>11, InitTyped DEF HInv

\* The first page is the beginning of the sequence.
LEMMA FirstPageOf ==
    ASSUME NEW S, NEW s \in Seq(S), NEW size \in Nat \ {0},
           NEW p, p = PageOf(s, 1, size)
    PROVE  /\ p \in Seq(S) /\ Len(p) = Least(size, Len(s))
           /\ \A i \in 1..Len(p) : p[i] = s[i]
<1>1. Len(s) \in Nat
  BY LenProperties
<1>2. PICK n \in Int : n = Least(size, Len(s)) /\ n <= Len(s) /\ n >= 0
  BY <1>1 DEF Least
<1>3. (1 - 1) * size + 1 = 1 /\ 1 * size = size
  OBVIOUS
<1>4. p = SubSeq(s, 1, n)
  BY <1>2, <1>3 DEF PageOf
<1>a. PICK m \in Int : m = 1 /\ 1 <= m
  OBVIOUS
<1>b. p = SubSeq(s, m, n)
  BY <1>4, <1>a
<1>c. /\ p \in Seq(S)
      /\ Len(p) = IF m <= n THEN n - m + 1 ELSE 0
      /\ \A i \in 1..n - m + 1 : p[i] = s[m + i - 1]
  <2>1. n <= Len(s) /\ 1 <= m
    BY <1>2, <1>a
  <2>2. /\ SubSeq(s, m, n) \in Seq(S)
        /\ Len(SubSeq(s, m, n)) = IF m <= n THEN n - m + 1 ELSE 0
        /\ \A i \in 1..n - m + 1 : SubSeq(s, m, n)[i] = s[m + i - 1]
    BY <2>1, SubSeqIsSeq
  <2> QED
    BY <1>b, <2>2
<1>5. /\ p \in Seq(S)
      /\ Len(p) = IF 1 <= n THEN n - 1 + 1 ELSE 0
      /\ \A i \in 1..n - 1 + 1 : p[i] = s[1 + i - 1]
  BY <1>a, <1>c
<1>6. Len(p) = n
  BY <1>2, <1>5
<1>7. \A i \in 1..Len(p) : p[i] = s[i]
  BY <1>2, <1>5, <1>6
<1> QED
  BY <1>2, <1>5, <1>6, <1>7

LEMMA LastWatchIsLast ==
    ASSUME watched \in Seq(Episodes), NEW e, NEW i, IsLast(watched, i, e)
    PROVE  LastWatch(e) = i
<1> DEFINE P(n) == watched[n] = e /\ \A j \in n + 1..Len(watched) : watched[j] # e
<1>1. i \in 1..Len(watched) /\ P(i)
  BY DEF IsLast
<1>2. LastWatch(e) \in 1..Len(watched) /\ P(LastWatch(e))
  BY <1>1 DEF LastWatch
<1>3. PICK n : n = LastWatch(e)
  OBVIOUS
<1>4. IsLast(watched, n, e)
  BY <1>2, <1>3 DEF IsLast
<1> QED
  BY <1>3, <1>4, LastIsOne

\* Whatever was watched again, and whenever, the history screen shows the
\* episodes delivered last, each once, the latest first.
THEOREM HistoryShowsLatest == Spec => []HistoryIsLatest
<1>1. ASSUME HInv, NEW c, c \in Screens("history"), c.steady
      PROVE  /\ \A i, j \in DOMAIN c.items :
                   i < j => LastWatch(c.items[i]) > LastWatch(c.items[j])
             /\ \A e \in ToSet(watched) \ ToSet(c.items) :
                   /\ Len(c.items) = HistorySize
                   /\ \A f \in ToSet(c.items) : LastWatch(f) > LastWatch(e)
  <2>1. history \in Seq(Episodes) /\ watched \in Seq(Episodes)
    BY <1>1 DEF HInv, TypeOK
  <2>2. c.items = PageOf(history, 1, HistorySize)
    BY <1>1 DEF HInv, Screens
  <2>3. PICK p : p = c.items
    OBVIOUS
  <2>4. HistorySize \in Nat \ {0} /\ Len(history) \in Nat /\ Len(watched) \in Nat
    BY <2>1, SizesArePositive, LenProperties
  <2>5. /\ p \in Seq(Episodes) /\ Len(p) = Least(HistorySize, Len(history))
        /\ \A i \in 1..Len(p) : p[i] = history[i]
    BY <2>1, <2>2, <2>3, <2>4, FirstPageOf
  <2>6. DOMAIN p = 1..Len(p) /\ Len(p) \in Nat
    BY <2>5, LenProperties
  <2>7. Len(p) <= Len(history) /\ (Len(p) < Len(history) => Len(p) = HistorySize)
    BY <2>4, <2>5 DEF Least
  <2>8. ASSUME NEW j \in 1..Len(history), NEW k \in 1..Len(history), j < k
        PROVE  LastWatch(history[j]) > LastWatch(history[k])
    <3>1. Recorded(history, watched)
      BY <1>1 DEF HInv
    <3>2. PICK m \in 1..Len(watched) : IsLast(watched, m, history[j])
      BY <3>1 DEF Recorded
    <3>3. PICK n \in 1..Len(watched) : IsLast(watched, n, history[k])
      BY <3>1 DEF Recorded
    <3>4. m > n
      BY <2>8, <3>1, <3>2, <3>3 DEF Recorded
    <3> QED
      BY <2>1, <3>2, <3>3, <3>4, LastWatchIsLast
  <2>9. \A i, j \in DOMAIN p : i < j => LastWatch(p[i]) > LastWatch(p[j])
    <3> SUFFICES ASSUME NEW i \in DOMAIN p, NEW j \in DOMAIN p, i < j
                 PROVE  LastWatch(p[i]) > LastWatch(p[j])
      OBVIOUS
    <3>a. i \in 1..Len(p) /\ j \in 1..Len(p)
      BY <2>6
    <3>b. PICK m \in Nat, n \in Nat : m = Len(p) /\ n = Len(history) /\ m <= n
      BY <2>4, <2>6, <2>7
    <3>1. i \in 1..Len(history) /\ j \in 1..Len(history)
      BY <3>a, <3>b
    <3>2. p[i] = history[i] /\ p[j] = history[j]
      BY <2>5, <2>6
    <3> QED
      BY <2>8, <3>1, <3>2
  <2>10. ASSUME NEW e \in ToSet(watched) \ ToSet(p)
         PROVE  /\ Len(p) = HistorySize
                /\ \A f \in ToSet(p) : LastWatch(f) > LastWatch(e)
    <3>1. PICK i \in 1..Len(watched) : watched[i] = e
      BY <2>1, ToSetIn
    <3>2. PICK k \in 1..Len(history) : history[k] = e
      BY <1>1, <3>1 DEF HInv, Recorded
    <3>3. k \notin 1..Len(p)
      BY <2>5, <2>6, <3>2 DEF ToSet
    <3>a. k \in Nat /\ 1 <= k /\ k <= Len(history)
      BY <2>4
    <3>4. k > Len(p) /\ Len(p) < Len(history)
      BY <2>4, <2>6, <3>3, <3>a
    <3>5. ASSUME NEW f \in ToSet(p) PROVE LastWatch(f) > LastWatch(e)
      <4>1. PICK j \in 1..Len(p) : p[j] = f
        BY <2>6 DEF ToSet
      <4>2. j \in 1..Len(history) /\ j < k /\ history[j] = f
        BY <2>4, <2>5, <2>6, <2>7, <3>4, <4>1
      <4> QED
        BY <2>8, <3>2, <4>2
    <3> QED
      BY <2>7, <3>4, <3>5
  <2> QED
    BY <2>3, <2>9, <2>10
<1>2. HInv => HistoryIsLatest
  BY <1>1 DEF HistoryIsLatest
<1> QED
  BY <1>2, InitHistory, NextHistory, PTL DEF Spec

-----------------------------------------------------------------------------
(* 5. The label of a detail screen.                                        *)

\* Rows with different keys can be put in the order of their keys.
LEMMA OrderExists ==
    ASSUME NEW R, IsFiniteSet(R), NEW key \in [R -> Nat],
           \A x, y \in R : key[x] = key[y] => x = y
    PROVE  \E s \in [1..Cardinality(R) -> R] :
              \A i, j \in 1..Cardinality(R) :
                 i < j => s[i] # s[j] /\ key[s[i]] <= key[s[j]]
<1>1. PICK n \in Nat : n = Cardinality(R)
  BY FS_CardinalityType
<1> DEFINE UpToKey(x) == {y \in R : key[y] <= key[x]}
<1>2. ASSUME NEW x \in R
      PROVE  /\ IsFiniteSet(UpToKey(x)) /\ Cardinality(UpToKey(x)) \in 1..n
  <2>1. UpToKey(x) \in SUBSET R /\ x \in UpToKey(x)
    OBVIOUS
  <2> HIDE DEF UpToKey
  <2>2. IsFiniteSet(UpToKey(x)) /\ Cardinality(UpToKey(x)) <= n
    BY <1>1, <2>1, FS_Subset
  <2>3. Cardinality(UpToKey(x)) \in Nat /\ Cardinality(UpToKey(x)) # 0
    BY <2>1, <2>2, FS_CardinalityType, FS_EmptySet
  <2> QED
    BY <2>2, <2>3
<1>3. ASSUME NEW x \in R, NEW y \in R, key[x] < key[y]
      PROVE  Cardinality(UpToKey(x)) < Cardinality(UpToKey(y))
  <2>1. UpToKey(x) \in SUBSET UpToKey(y) /\ y \in UpToKey(y) /\ y \notin UpToKey(x)
    BY <1>3
  <2>2. UpToKey(x) # UpToKey(y)
    BY <2>1
  <2> HIDE DEF UpToKey
  <2>3. /\ Cardinality(UpToKey(x)) <= Cardinality(UpToKey(y))
        /\ Cardinality(UpToKey(x)) # Cardinality(UpToKey(y))
    BY <1>2, <2>1, <2>2, FS_Subset
  <2>4. Cardinality(UpToKey(x)) \in Nat /\ Cardinality(UpToKey(y)) \in Nat
    BY <1>2
  <2> QED
    BY <2>3, <2>4
<1> HIDE DEF UpToKey
<1> DEFINE rank == [x \in R |-> Cardinality(UpToKey(x))]
<1>4. rank \in [R -> 1..n]
  BY <1>2
<1>5. \A x, y \in R : key[x] < key[y] => rank[x] < rank[y]
  BY <1>3
<1>6. \A x, y \in R : rank[x] = rank[y] => x = y
  <2> SUFFICES ASSUME NEW x \in R, NEW y \in R, rank[x] = rank[y] PROVE x = y
    OBVIOUS
  <2>1. rank[x] \in Nat /\ rank[y] \in Nat /\ key[x] \in Nat /\ key[y] \in Nat
    BY <1>4
  <2>2. ~(key[x] < key[y]) /\ ~(key[y] < key[x])
    BY <1>5, <2>1
  <2> QED
    BY <2>1, <2>2
<1> HIDE DEF rank
<1>7. rank \in Injection(R, 1..n)
  BY <1>4, <1>6 DEF Injection, IsInjective
<1>8. IsFiniteSet(1..n) /\ Cardinality(1..n) = n
  BY FS_Interval
<1>9. rank \in Surjection(R, 1..n)
  BY <1>1, <1>7, <1>8, FS_Injection
<1>10. \A k \in 1..n : \E x \in R : rank[x] = k
  BY <1>9 DEF Surjection
<1> DEFINE s == [k \in 1..n |-> CHOOSE x \in R : rank[x] = k]
<1>11. \A k \in 1..n : s[k] \in R /\ rank[s[k]] = k
  BY <1>10
<1>12. s \in [1..n -> R]
  BY <1>11
<1>13. \A i, j \in 1..n : i < j => s[i] # s[j] /\ key[s[i]] <= key[s[j]]
  <2> SUFFICES ASSUME NEW i \in 1..n, NEW j \in 1..n, i < j
               PROVE  s[i] # s[j] /\ key[s[i]] <= key[s[j]]
    OBVIOUS
  <2>1. PICK x \in R, y \in R : x = s[i] /\ y = s[j] /\ rank[x] = i /\ rank[y] = j
    BY <1>11
  <2>2. x # y
    BY <2>1
  <2>3. ~(key[y] < key[x])
    BY <1>5, <2>1
  <2>4. key[x] \in Nat /\ key[y] \in Nat
    OBVIOUS
  <2> HIDE DEF s
  <2> QED
    BY <2>1, <2>2, <2>3, <2>4
<1> QED
  BY <1>1, <1>12, <1>13

\* An order of a list holds every row of it.
LEMMA OrderCovers ==
    ASSUME TypeOK, NEW l, ListTyped(l), NEW s \in Orders(l)
    PROVE  ToSet(s) = Selected(l)
<1>1. PICK n \in Nat : n = Cardinality(Selected(l))
  BY SelectedRows
<1>2. s \in [1..n -> Selected(l)] /\ \A i, j \in 1..n : i # j => s[i] # s[j]
  <2>1. s \in [1..n -> Selected(l)]
    BY <1>1 DEF Orders
  <2>2. Len(s) = n
    BY <1>1, OrdersAreSeqs
  <2> QED
    BY <2>1, <2>2, OrdersAreSeqs
<1>3. s \in Injection(1..n, Selected(l))
  BY <1>2 DEF Injection, IsInjective
<1>4. IsFiniteSet(1..n) /\ Cardinality(1..n) = n
  BY FS_Interval
<1>a. IsFiniteSet(Selected(l))
  BY SelectedRows
<1>5. s \in Surjection(1..n, Selected(l))
  BY <1>1, <1>3, <1>4, <1>a, FS_Injection
<1>6. \A x \in Selected(l) : \E i \in 1..n : s[i] = x
  BY <1>5 DEF Surjection
<1>7. DOMAIN s = 1..n
  BY <1>2
<1> QED
  BY <1>2, <1>6, <1>7 DEF ToSet

Favorites == List("favorites", 0, "")

\* The favourites come in one order at least: that of their rows.
LEMMA FavoritesInOrder ==
    ASSUME TypeOK
    PROVE  /\ ListTyped(Favorites) /\ Favorites.of = "favorites"
           /\ Selected(Favorites) = {a \in ToSet(favs) : ~anime[a].deleted}
           /\ \A a \in ToSet(favs) : /\ PlaceOf(favs, a) \in 1..Len(favs)
                                     /\ favs[PlaceOf(favs, a)] = a
           /\ \E s : s \in Orders(Favorites)
<1>1. ListTyped(Favorites) /\ Favorites.of = "favorites"
  BY ListsTyped DEF Favorites, List
<1>2. PICK l : l = Favorites
  OBVIOUS
<1>3. ListTyped(l) /\ l.of = "favorites"
  BY <1>1, <1>2
<1>4. Selected(l) = {a \in ToSet(favs) : ~anime[a].deleted}
  BY <1>3 DEF Selected
<1>5. favs \in Seq(Animes) /\ Len(favs) \in Nat /\ DOMAIN favs = 1..Len(favs)
  BY LenProperties DEF TypeOK
<1>6. \A a \in ToSet(favs) : PlaceOf(favs, a) \in 1..Len(favs) /\ favs[PlaceOf(favs, a)] = a
  <2> SUFFICES ASSUME NEW a \in ToSet(favs)
               PROVE  PlaceOf(favs, a) \in 1..Len(favs) /\ favs[PlaceOf(favs, a)] = a
    OBVIOUS
  <2>1. \E i \in DOMAIN favs : favs[i] = a
    BY DEF ToSet
  <2> QED
    BY <1>5, <2>1 DEF PlaceOf
<1>7. \E s : s \in Orders(l)
  <2>1. PICK R : R = Selected(l)
    OBVIOUS
  <2>2. IsFiniteSet(R) /\ R \subseteq ToSet(favs)
    BY <1>3, <1>4, <2>1, SelectedRows
  <2>3. PICK key \in [R -> Nat] : \A a \in R : key[a] = PlaceOf(favs, a)
    <3>1. \A a \in R : PlaceOf(favs, a) \in Nat
      BY <1>5, <1>6, <2>2
    <3>2. [a \in R |-> PlaceOf(favs, a)] \in [R -> Nat]
      BY <3>1
    <3> QED
      BY <3>2
  <2>4. \A x, y \in R : key[x] = key[y] => x = y
    BY <1>6, <2>2, <2>3
  <2>5. PICK s \in [1..Cardinality(R) -> R] :
           \A i, j \in 1..Cardinality(R) :
              i < j => s[i] # s[j] /\ key[s[i]] <= key[s[j]]
    BY <2>2, <2>4, OrderExists
  <2>6. \A x \in R : SortKey(l, x) = key[x]
    BY <1>3, <2>3 DEF SortKey
  <2>7. s \in Orders(l)
    <3>1. DOMAIN s = 1..Cardinality(R)
      OBVIOUS
    <3>2. \A i, j \in DOMAIN s :
             i < j => s[i] # s[j] /\ SortKey(l, s[i]) <= SortKey(l, s[j])
      BY <2>5, <2>6, <3>1
    <3> QED
      BY <2>1, <3>2 DEF Orders
  <2> QED
    BY <2>7
<1> QED
  BY <1>2, <1>3, <1>4, <1>6, <1>7

LEMMA OrdersAreSorted ==
    ASSUME NEW l, NEW s \in Orders(l), NEW j \in 1..Len(s), NEW k \in 1..Len(s), j < k,
           s \in Seq(Selected(l))
    PROVE  SortKey(l, s[j]) <= SortKey(l, s[k])
<1>1. DOMAIN s = 1..Len(s)
  BY LenProperties
<1> QED
  BY <1>1 DEF Orders

\* What LabelTells promises of a label.
Told(label, a) ==
    \/ label <=> a \in ToSet(favs)
    \/ a \in ToSet(favs) /\ Cardinality(NewerFavorites(a)) >= ListSize

\* A favourite that is not on the first page comes after ListSize newer ones.
LEMMA LabelIsTold ==
    ASSUME TypeOK, NEW a \in Animes, ~anime[a].deleted
    PROVE  Told(IsFavorite(a), a)
<1>1. PICK l : l = Favorites
  OBVIOUS
<1>2. /\ ListTyped(l) /\ Selected(l) = {b \in ToSet(favs) : ~anime[b].deleted}
      /\ \E s : s \in Orders(l)
  BY <1>1, FavoritesInOrder
<1>3. IsFavorite(a) <=> \E s \in Orders(l) : a \in ToSet(PageOf(s, 1, ListSize))
  BY <1>1 DEF IsFavorite, Favorites
<1>4. ListSize \in Nat \ {0}
  BY SizesArePositive
<1>5. ASSUME IsFavorite(a) PROVE a \in ToSet(favs)
  <2>1. PICK s \in Orders(l) : a \in ToSet(PageOf(s, 1, ListSize))
    BY <1>3, <1>5
  <2>2. s \in Seq(Selected(l))
    BY <1>2, OrdersAreSeqs
  <2>3. PageOf(s, 1, ListSize) \in Seq(Selected(l))
    BY <1>4, <2>2, FirstPageOf
  <2> QED
    BY <1>2, <2>1, <2>3, ToSetIn
<1>6. ASSUME ~IsFavorite(a), a \in ToSet(favs)
      PROVE  Cardinality(NewerFavorites(a)) >= ListSize
  <2>1. PICK s : s \in Orders(l)
    BY <1>2
  <2>2. s \in Seq(Selected(l)) /\ \A i, j \in 1..Len(s) : i # j => s[i] # s[j]
    BY <1>2, <2>1, OrdersAreSeqs
  <2>3. PICK n \in Nat : n = Len(s)
    BY <2>2, LenProperties
  <2>4. PICK p : p = PageOf(s, 1, ListSize)
    OBVIOUS
  <2>5. /\ p \in Seq(Selected(l)) /\ Len(p) = Least(ListSize, n)
        /\ \A i \in 1..Len(p) : p[i] = s[i]
    BY <1>4, <2>2, <2>3, <2>4, FirstPageOf
  <2>6. DOMAIN p = 1..Len(p)
    BY <2>5, LenProperties
  <2>7. \A i \in 1..Len(p) : s[i] # a
    BY <1>3, <1>6, <2>1, <2>4, <2>5, <2>6 DEF ToSet
  <2>8. \E k \in 1..n : s[k] = a
    <3>1. a \in ToSet(s)
      BY <1>2, <1>6, <2>1, OrderCovers
    <3> QED
      BY <2>2, <2>3, <3>1, ToSetIn
  <2>9. Len(p) = ListSize /\ ListSize <= n
    BY <1>4, <2>3, <2>5, <2>7, <2>8 DEF Least
  <2>a. PICK k \in 1..n : s[k] = a
    BY <2>8
  <2>b. PlaceOf(favs, a) \in 1..Len(favs) /\ favs[PlaceOf(favs, a)] = a
    BY <1>6, FavoritesInOrder
  <2> DEFINE Others == NewerFavorites(a)
  <2>10. \A j \in 1..ListSize : /\ PlaceOf(favs, s[j]) \in Others
                                /\ favs[PlaceOf(favs, s[j])] = s[j]
    <3>1. ASSUME NEW j \in 1..ListSize
          PROVE  /\ PlaceOf(favs, s[j]) \in Others
                 /\ favs[PlaceOf(favs, s[j])] = s[j]
      <4>1. PICK b : b = s[j]
        OBVIOUS
      <4>2. j \in 1..n
        BY <1>4, <2>9
      <4>3. b \in Selected(l) /\ b # a
        BY <2>2, <2>3, <2>7, <2>9, <4>1, <4>2, ElementOfSeq
      <4>4. b \in ToSet(favs) /\ ~anime[b].deleted
        BY <1>2, <4>3
      <4>5. PICK i \in 1..Len(favs) : i = PlaceOf(favs, b) /\ favs[i] = b
        BY <4>4, FavoritesInOrder
      <4>6. i < PlaceOf(favs, a)
        <5>1. j < k
          <6>1. k > ListSize
            BY <1>4, <2>a, <2>7, <2>9
          <6> QED
            BY <1>4, <2>3, <2>a, <6>1
        <5>2. SortKey(l, s[j]) <= SortKey(l, s[k])
          BY <1>2, <2>1, <2>2, <2>3, <2>a, <4>2, <5>1, OrdersAreSorted
        <5>3. PlaceOf(favs, b) <= PlaceOf(favs, a)
          BY <1>1, <2>a, <4>1, <5>2, FavoritesInOrder DEF SortKey
        <5>4. PlaceOf(favs, b) # PlaceOf(favs, a)
          BY <2>b, <4>3, <4>5
        <5>5. Len(favs) \in Nat
          BY LenProperties DEF TypeOK
        <5> QED
          BY <2>b, <4>5, <5>3, <5>4, <5>5
      <4>7. i \in 1..PlaceOf(favs, a) - 1
        BY <2>b, <4>5, <4>6
      <4> QED
        BY <4>1, <4>4, <4>5, <4>7 DEF NewerFavorites
    <3> QED
      BY <3>1
  <2> HIDE DEF Others
  <2> DEFINE place == [j \in 1..ListSize |-> PlaceOf(favs, s[j])]
  <2>11. place \in Injection(1..ListSize, Others)
    <3>1. place \in [1..ListSize -> Others]
      BY <2>10
    <3>2. ASSUME NEW i \in 1..ListSize, NEW j \in 1..ListSize, place[i] = place[j]
          PROVE  i = j
      <4>1. s[i] = s[j]
        BY <2>10, <3>2
      <4>2. i \in 1..n /\ j \in 1..n
        BY <1>4, <2>9
      <4> QED
        BY <2>2, <2>3, <4>1, <4>2
    <3> HIDE DEF place
    <3> QED
      BY <3>1, <3>2 DEF Injection, IsInjective
  <2>12. IsFiniteSet(Others)
    <3>1. Others \subseteq 1..PlaceOf(favs, a) - 1
      BY DEF Others, NewerFavorites
    <3>2. favs \in Seq(Animes)
      BY DEF TypeOK
    <3>3. Len(favs) \in Nat
      BY <3>2, LenProperties
    <3>4. PlaceOf(favs, a) \in Nat
      BY <2>b, <3>3
    <3>5. IsFiniteSet(1..PlaceOf(favs, a) - 1)
      BY <3>4, FS_Interval
    <3> QED
      BY <3>1, <3>5, FS_Subset
  <2>13. IsFiniteSet(1..ListSize) /\ Cardinality(1..ListSize) = ListSize
    BY <1>4, FS_Interval
  <2> HIDE DEF place
  <2>14. Cardinality(1..ListSize) <= Cardinality(Others)
    BY <2>11, <2>12, FS_Injection
  <2>15. Cardinality(Others) \in Nat
    BY <2>12, FS_CardinalityType
  <2>16. Cardinality(Others) >= ListSize
    BY <1>4, <2>13, <2>14, <2>15
  <2> QED
    BY <2>16 DEF Others
<1> QED
  BY <1>5, <1>6 DEF Told

\* A handler that goes on to the detail screen has found the anime, and nothing
\* that it read has changed if it is steady.
LInv ==
    /\ TypeOK
    /\ job.at \in {"view", "label"} /\ job.steady => ~anime[job.anime].deleted
    /\ \A i \in Slots : chat[i].kind = "detail" /\ chat[i].steady /\ chat[i].read =>
          Told(chat[i].label, chat[i].anime)

\* What a message or a press starts.
LEMMA HandlersBegin ==
    ASSUME HandleStart \/ HandleSearch \/ Menu \/ GenreMenu \/ Press
    PROVE  \/ job'.at \in {"get", "count", "history", "deliver", "seasons"}
           \/ \E q : job' = [Counting(FirstPage(q)) EXCEPT !.fresh = TRUE]
<1>1. \A c : Counting(c).at = "count"
  BY DEF Counting
<1>2. \A a, w : Getting(a, w).at = "get"
  BY DEF Getting
<1>3. CASE HandleStart
  BY <1>2, <1>3 DEF HandleStart, Begin
<1>4. CASE HandleSearch
  BY <1>4 DEF HandleSearch, Begin
<1>5. CASE Menu
  <2>1. CASE Begin([at |-> "history"])
    BY <2>1 DEF Begin
  <2>2. ASSUME NEW c, Begin(Counting(c)) PROVE job'.at = "count"
    BY <1>1, <2>2 DEF Begin
  <2> QED
    BY <1>5, <2>1, <2>2 DEF Menu
<1>6. CASE GenreMenu
  BY <1>1, <1>6 DEF GenreMenu, Begin
<1>7. CASE Press
  <2>1. PICK i \in Slots :
          \/ PressItem(chat[i]) \/ PressPage(chat[i]) \/ PressSeason(chat[i])
          \/ PressWatch(chat[i]) \/ PressBack(chat[i]) \/ PressFavorite(chat[i])
    BY <1>7 DEF Press
  <2>2. PICK c : c = chat[i]
    OBVIOUS
  <2>3. CASE PressItem(c)
    <3>1. ASSUME NEW x, Begin([at |-> "deliver", episode |-> x]) PROVE job'.at = "deliver"
      BY <3>1 DEF Begin
    <3>2. ASSUME NEW x, Begin(Getting(x, FALSE)) PROVE job'.at = "get"
      BY <1>2, <3>2 DEF Begin
    <3> QED
      BY <2>3, <3>1, <3>2 DEF PressItem
  <2>4. CASE PressPage(c)
    <3>1. PICK d : Begin(Counting(d))
      BY <2>4 DEF PressPage
    <3> QED
      BY <1>1, <3>1 DEF Begin
  <2>5. CASE PressSeason(c)
    BY <1>1, <2>5 DEF PressSeason, Begin
  <2>6. CASE PressWatch(c)
    BY <2>6 DEF PressWatch, Begin
  <2>7. CASE PressFavorite(c)
    BY <1>2, <2>7 DEF PressFavorite
  <2>8. CASE PressBack(c)
    BY <1>2, <2>8 DEF PressBack, Begin
  <2> QED
    BY <2>1, <2>2, <2>3, <2>4, <2>5, <2>6, <2>7, <2>8
<1> QED
  BY <1>3, <1>4, <1>5, <1>6, <1>7

LEMMA NextFound ==
    ASSUME LInv, [Next]_vars, TypeOK', job'.at \in {"view", "label"}, job'.steady
    PROVE  ~anime'[job'.anime].deleted
<1>1. JobTyped(job) /\ JobTyped(job')
  BY DEF LInv, TypeOK
<1> DEFINE S == [at: {"get", "view", "label"}, anime: Animes, watch: BOOLEAN,
                 steady: BOOLEAN]
<1>2. job' \in S
  BY <1>1, JobFields
<1>3. ASSUME job' = job, CatalogueKept PROVE ~anime'[job'.anime].deleted
  BY <1>2, <1>3 DEF LInv, CatalogueKept
<1>4. ASSUME UNCHANGED <<anime, episode, favs>> PROVE CatalogueKept
  BY <1>4 DEF CatalogueKept
<1>5. CASE GetAnime
  <2>1. job.at = "get" /\ ~anime[job.anime].deleted /\ job' = [job EXCEPT !.at = "view"]
        /\ anime' = anime
    BY <1>5 DEF GetAnime, Idle, tables
  <2>2. job \in S
    BY <1>1, <2>1, JobFields
  <2> QED
    BY <2>1, <2>2
<1>6. CASE RecordAnimeView
  <2>1. job.at = "view" /\ job' = [job EXCEPT !.at = "label"]
    BY <1>6 DEF RecordAnimeView
  <2>2. job \in S
    BY <1>1, <2>1, JobFields
  <2>3. job'.anime = job.anime /\ job.steady
    BY <2>1, <2>2
  <2>4. CatalogueKept
    <3>1. job.anime \in Animes
      BY <2>2
    <3>2. anime' = anime \/ \E n : anime' = [anime EXCEPT ![job.anime].views = n]
      BY <1>6 DEF RecordAnimeView
    <3>3. PICK b : b = job.anime
      OBVIOUS
    <3>4. ASSUME NEW n, anime' = [anime EXCEPT ![b].views = n], NEW a \in Animes
          PROVE  /\ anime'[a].deleted = anime[a].deleted
                 /\ anime'[a].score = anime[a].score
                 /\ anime'[a].seasons = anime[a].seasons
      <4>1. anime[a] \in Row /\ a \in DOMAIN anime
        BY RowOfAnime DEF LInv, TypeOK
      <4>2. anime'[a] = anime[a] \/ anime'[a] = [anime[a] EXCEPT !.views = n]
        BY <3>4, <4>1
      <4> QED
        BY <4>1, <4>2 DEF Row
    <3> QED
      BY <1>6, <3>2, <3>3, <3>4 DEF RecordAnimeView, CatalogueKept
  <2> QED
    BY <1>2, <2>1, <2>3, <2>4 DEF LInv, CatalogueKept
<1>7. CASE DeleteAnime \/ DeleteEpisode \/ RefreshPopularity
  <2>1. PICK j : j = UnsteadyJob /\ job' = j
    BY <1>7 DEF DeleteAnime, DeleteEpisode, RefreshPopularity, Changed
  <2>2. j.at = job.at /\ ~j.steady
    BY <1>1, <2>1, UnsteadyJobFields
  <2> QED
    BY <2>1, <2>2
<1>8. CASE HandleStart \/ HandleSearch \/ Menu \/ GenreMenu \/ Press
  <2>1. \/ job'.at \in {"get", "count", "history", "deliver", "seasons"}
        \/ \E q : job' = [Counting(FirstPage(q)) EXCEPT !.fresh = TRUE]
    BY <1>8, HandlersBegin
  <2>2. ASSUME NEW q, job' = [Counting(FirstPage(q)) EXCEPT !.fresh = TRUE]
        PROVE  job'.at = "count"
    BY <2>2 DEF Counting
  <2> QED
    BY <2>1, <2>2
<1>9. CASE Count
  BY <1>9, CountFields DEF LInv
<1>10. CASE Select \/ SendAnimeDetail \/ SendWatchEntry \/ ListSeasonsFails \/ DeliverEpisode
            \/ RecordProgress \/ ListHistory \/ CallFails \/ Restart
  <2>1. CASE DeliverEpisode
    <3>1. job.at = "deliver" /\ job' \in {Idle, [job EXCEPT !.at = "progress"]}
      BY <2>1 DEF DeliverEpisode
    <3>2. job \in [at: {"deliver", "progress"}, episode: Episodes]
      BY <1>1, <3>1, JobFields
    <3> QED
      BY <3>1, <3>2 DEF Idle
  <2>2. CASE Select \/ SendAnimeDetail \/ SendWatchEntry \/ ListSeasonsFails
             \/ RecordProgress \/ ListHistory \/ CallFails \/ Restart
    BY <2>2 DEF Select, SendAnimeDetail, SendWatchEntry, ListSeasonsFails, RecordProgress,
                ListHistory, CallFails, Restart, Idle, Counting
  <2> QED
    BY <1>10, <2>1, <2>2
<1>11. CASE UNCHANGED vars
  BY <1>3, <1>4, <1>11 DEF vars, tables
<1> QED
  BY <1>5, <1>6, <1>7, <1>8, <1>9, <1>10, <1>11 DEF Next

LEMMA NextLabels ==
    ASSUME LInv, [Next]_vars
    PROVE  LInv'
<1>1. TypeOK' /\ TypeOK
  BY NextTyped DEF LInv
<1>2. ASSUME NEW label, NEW a, Told(label, a), CatalogueKept PROVE Told(label, a)'
  <2>1. favs' = favs /\ \A i \in 1..Len(favs) : anime'[favs[i]].deleted = anime[favs[i]].deleted
    <3>1. favs \in Seq(Animes)
      BY <1>1 DEF TypeOK
    <3>2. \A i \in 1..Len(favs) : favs[i] \in Animes
      BY <3>1, ElementOfSeq
    <3> QED
      BY <1>2, <3>2 DEF CatalogueKept
  <2>2. ASSUME a \in ToSet(favs) PROVE NewerFavorites(a)' = NewerFavorites(a)
    <3>1. /\ PlaceOf(favs, a) \in 1..Len(favs) /\ PlaceOf(favs', a) = PlaceOf(favs, a)
          /\ Len(favs) \in Nat
      BY <1>2, <2>2, FavoritesInOrder, LenProperties DEF CatalogueKept, TypeOK, LInv
    <3>2. 1..PlaceOf(favs, a) - 1 \subseteq 1..Len(favs)
      BY <3>1
    <3> QED
      BY <1>2, <2>1, <3>1, <3>2 DEF NewerFavorites, CatalogueKept
  <2> QED
    BY <1>2, <2>1, <2>2 DEF Told
<1> DEFINE Shown(d) == d.kind = "detail" /\ d.steady /\ d.read => Told(d.label, d.anime)'
<1>3. ASSUME CatalogueKept, NEW i \in Slots, NEW d, d = chat'[i], Faded(chat[i], d)
      PROVE  Shown(d)
  <2>1. PICK c : c = chat[i]
    OBVIOUS
  <2>2. ScreenTyped(c) /\ Faded(c, d)
    BY <1>1, <1>3, <2>1 DEF TypeOK
  <2>3. ASSUME d.kind = "detail", d.steady, d.read PROVE Told(d.label, d.anime)'
    <3>1. d = c
      BY <2>2, <2>3, FadedKind
    <3>2. Told(c.label, c.anime)
      BY <2>1, <2>3, <3>1 DEF LInv
    <3> QED
      BY <1>2, <1>3, <3>1, <3>2
  <2> QED
    BY <2>3
<1>4. ASSUME CatalogueKept, NEW e, Show(e), Shown(e), NEW i \in Slots, NEW d, d = chat'[i]
      PROVE  Shown(d)
  <2>1. d = chat[i] \/ d = e
    BY <1>1, <1>4, ShowEither
  <2>2. CASE d = e
    BY <1>4, <2>2
  <2>3. CASE d = chat[i]
    <3>1. Faded(chat[i], d)
      BY <2>3 DEF Faded
    <3> QED
      BY <1>3, <1>4, <3>1
  <2> QED
    BY <2>1, <2>2, <2>3
<1>5. ASSUME NEW i \in Slots, NEW e, e = chat'[i] PROVE Shown(e)
  <2>1. CASE Alters
    <3>1. PICK c : c = chat[i]
      OBVIOUS
    <3>2. ScreenTyped(c) /\ e = Unsteady(c)
      BY <1>1, <1>5, <2>1, <3>1 DEF TypeOK, Alters
    <3>3. ~(e.kind = "detail" /\ e.steady)
      <4>1. e.kind = c.kind
        BY <3>2, UnsteadyTyped
      <4>2. CASE c.kind = "detail"
        <5>1. e = [c EXCEPT !.steady = FALSE]
          BY <3>2, <4>2 DEF Unsteady
        <5> QED
          BY <3>2, <4>2, <5>1, ScreenFields
      <4> QED
        BY <4>1, <4>2
    <3> QED
      BY <3>3
  <2>2. CASE CatalogueKept /\ UNCHANGED chat
    <3>1. Faded(chat[i], e)
      BY <1>5, <2>2 DEF Faded
    <3> QED
      BY <1>3, <1>5, <2>2, <3>1
  <2>3. CASE CatalogueKept /\ RecordProgress
    <3>1. Faded(chat[i], e)
      BY <1>5, <2>3 DEF RecordProgress, Faded
    <3> QED
      BY <1>3, <1>5, <2>3, <3>1
  <2>4. CASE CatalogueKept /\ ListHistory
    <3>1. PICK d : d.kind = "history" /\ Show(d)
      BY <2>4 DEF ListHistory
    <3> QED
      BY <1>4, <1>5, <2>4, <3>1
  <2>5. CASE CatalogueKept /\ Select
    <3>1. PICK d : d.kind = "list" /\ Show(d)
      BY <1>1, <2>5, SelectShows
    <3> QED
      BY <1>4, <1>5, <2>5, <3>1
  <2>6. CASE CatalogueKept /\ SendWatchEntry
    <3>1. CASE UNCHANGED chat
      BY <2>2, <2>6, <3>1
    <3>2. CASE chat' # chat
      <4>1. PICK d : d.kind = "seasons" /\ Show(d)
        BY <2>6, <3>2 DEF SendWatchEntry
      <4> QED
        BY <1>4, <1>5, <2>6, <4>1
    <3> QED
      BY <3>1, <3>2
  <2>7. CASE CatalogueKept /\ SendAnimeDetail
    <3>1. job.at = "label" /\ JobTyped(job)
      BY <1>1, <2>7 DEF SendAnimeDetail, TypeOK
    <3>2. job \in [at: {"get", "view", "label"}, anime: Animes, watch: BOOLEAN,
                   steady: BOOLEAN]
      BY <3>1, JobFields
    <3>3. PICK read \in BOOLEAN :
            Show([kind |-> "detail", anime |-> job.anime, read |-> read,
                  label |-> read /\ IsFavorite(job.anime), steady |-> job.steady])
      BY <2>7 DEF SendAnimeDetail
    <3>4. PICK d : d = [kind |-> "detail", anime |-> job.anime, read |-> read,
                        label |-> read /\ IsFavorite(job.anime), steady |-> job.steady]
      OBVIOUS
    <3>5. Show(d)
      BY <3>3, <3>4
    <3>6. ASSUME d.steady, d.read PROVE Told(d.label, d.anime)'
      <4>1. job.steady /\ read /\ d.anime = job.anime
        BY <3>4, <3>6
      <4>2. ~anime[job.anime].deleted /\ job.anime \in Animes
        BY <3>1, <3>2, <4>1 DEF LInv
      <4>3. Told(IsFavorite(job.anime), job.anime)
        BY <1>1, <4>2, LabelIsTold
      <4>4. d.label <=> IsFavorite(job.anime)
        BY <3>4, <4>1
      <4>5. Told(d.label, d.anime)
        BY <4>1, <4>3, <4>4 DEF Told
      <4> QED
        BY <1>2, <2>7, <4>5
    <3> QED
      BY <1>4, <1>5, <2>7, <3>5, <3>6
  <2> QED
    BY <1>1, <2>1, <2>2, <2>3, <2>4, <2>5, <2>6, <2>7, StepKinds
<1>6. \A i \in Slots : chat'[i].kind = "detail" /\ chat'[i].steady /\ chat'[i].read =>
          Told(chat[i].label, chat[i].anime)'
  <2>1. ASSUME NEW i \in Slots, NEW e, e = chat'[i]
        PROVE  e.kind = "detail" /\ e.steady /\ e.read =>
                  Told(chat[i].label, chat[i].anime)'
    <3>1. Shown(e)
      BY <1>5, <2>1
    <3> QED
      BY <2>1, <3>1 DEF Told
  <2> QED
    BY <2>1
<1> QED
  BY <1>1, <1>6, NextFound DEF LInv

\* The label of a detail screen tells what the press will do, but for a favourite
\* behind a page of newer ones.
THEOREM LabelsTold == Spec => []LabelTells
<1>1. Init => LInv
  <2> SUFFICES ASSUME Init PROVE LInv
    OBVIOUS
  <2>1. job.at = "idle" /\ \A i \in Slots : chat[i].kind = "none"
    BY DEF Init, Idle, NoScreen
  <2> QED
    BY <2>1, InitTyped DEF LInv
<1>2. LInv => LabelTells
  BY DEF LInv, Told, LabelTells, Screens
<1> QED
  BY <1>1, <1>2, NextLabels, PTL DEF Spec

-----------------------------------------------------------------------------
(* 6. A walk through the pages of a list.                                  *)

\* A list is the same as long as its rows and their keys are.
LEMMA RowsKept ==
    ASSUME TypeOK, CatalogueKept, NEW l, ListTyped(l)
    PROVE  /\ Selected(l)' = Selected(l) /\ Counted(l)' = Counted(l)
           /\ Orders(l)' = Orders(l)
<1>1. ToSet(favs) \subseteq Animes
  BY ToSetIn DEF TypeOK
<1>2. Selected(l)' = Selected(l)
  <2>1. CASE l.of = "s"
    BY <2>1 DEF Selected, Listable, CatalogueKept
  <2>2. CASE l.of = "gg"
    <3>1. Tagged[l.arg] \subseteq Animes
      BY <2>2, SearchesFindAnimes DEF ListTyped
    <3> QED
      BY <2>2, <3>1 DEF Selected, Listable, CatalogueKept
  <2>3. CASE l.of = "sq"
    <3>1. Matches[l.query] \subseteq Animes
      BY <2>3, SearchesFindAnimes DEF ListTyped
    <3> QED
      BY <2>3, <3>1 DEF Selected, Listable, CatalogueKept
  <2>4. CASE l.of = "favorites"
    BY <1>1, <2>4 DEF Selected, CatalogueKept
  <2>5. CASE l.of = "e"
    BY <2>5 DEF Selected, EpisodesOf, CatalogueKept
  <2> QED
    BY <2>1, <2>2, <2>3, <2>4, <2>5 DEF ListTyped
<1>3. Counted(l)' = Counted(l)
  BY <1>2 DEF Counted, CatalogueKept
<1>4. \A x \in RowsOf(l) : SortKey(l, x)' = SortKey(l, x)
  BY DEF SortKey, RowsOf, CatalogueKept
<1>5. PICK rows, n : rows = Selected(l) /\ n = Cardinality(rows)
  OBVIOUS
<1>6. rows \subseteq RowsOf(l)
  BY <1>5, SelectedRows
<1>7. Orders(l) = {s \in [1..n -> rows] :
                     \A i, j \in DOMAIN s :
                        i < j => s[i] # s[j] /\ SortKey(l, s[i]) <= SortKey(l, s[j])}
  BY <1>5 DEF Orders
<1>8. Orders(l)' = {s \in [1..n -> rows] :
                      \A i, j \in DOMAIN s :
                         i < j => s[i] # s[j] /\ SortKey(l, s[i])' <= SortKey(l, s[j])'}
  BY <1>2, <1>5 DEF Orders
<1>9. Orders(l)' = Orders(l)
  <2>1. ASSUME NEW s \in [1..n -> rows]
        PROVE  \A i \in DOMAIN s : SortKey(l, s[i])' = SortKey(l, s[i])
    BY <1>4, <1>6
  <2> QED
    BY <1>7, <1>8, <2>1
<1> QED
  BY <1>2, <1>3, <1>9

\* The token on the buttons of a search makes no difference to its rows.
LEMMA SameRows ==
    ASSUME NEW l, NEW m, l.of = m.of, l.query = m.query, l.of # "sq" => l.arg = m.arg
    PROVE  /\ Selected(l) = Selected(m) /\ Counted(l) = Counted(m)
           /\ Orders(l) = Orders(m) /\ SizeOf(l) = SizeOf(m)
           /\ Ordered(l) <=> Ordered(m)
<1>1. Selected(l) = Selected(m)
  BY DEF Selected
<1>2. Counted(l) = Counted(m) /\ SizeOf(l) = SizeOf(m)
  BY <1>1 DEF Counted, SizeOf
<1>3. \A x : SortKey(l, x) = SortKey(m, x)
  BY DEF SortKey
<1>4. Orders(l) = Orders(m)
  BY <1>1, <1>3 DEF Orders
<1> QED
  BY <1>1, <1>2, <1>4 DEF Ordered

OnWalk(c) == c.walked /\ c.steady /\ ~c.strayed

\* A page after the first one is there because something is counted for it.
Reached(c) ==
    c.page > 1 => (c.page - 1) * SizeOf(c.list) < Cardinality(Counted(c.list))

\* Watch led to the list: it is that of the one season, or of all the episodes.
DirectTo(l) ==
    \E a \in Animes : /\ Cardinality(SeasonsOf(a)) <= 1
                      /\ l = WatchList(a, SeasonsOf(a))

\* What a message of a walk shows, and what a handler goes on with.
ShownWalk(c) ==
    OnWalk(c) =>
        /\ \E s \in Orders(c.list) :
              /\ c.items = PageOf(s, c.page, SizeOf(c.list))
              /\ Ordered(c.list) => c.seen = UpTo(s, c.page * SizeOf(c.list))
        /\ c.next <=> /\ c.items # <<>>
                      /\ HasNext(c.page, SizeOf(c.list), Cardinality(Counted(c.list)))
        /\ Reached(c)
        /\ c.direct => DirectTo(c.list)

ReadWalk(c) ==
    OnWalk(c) =>
        /\ \A s \in Orders(c.list) :
              Ordered(c.list) => c.seen = UpTo(s, (c.page - 1) * SizeOf(c.list))
        /\ Reached(c)
        /\ c.direct => DirectTo(c.list)

CountedWalk(j) ==
    j.at = "select" /\ OnWalk(j.screen) =>
        j.total = Cardinality(Counted(j.screen.list))

WInv ==
    /\ QInv
    /\ \A i \in Slots : chat[i].kind = "list" => ShownWalk(chat[i])
    /\ job.at \in {"count", "select"} => ReadWalk(job.screen) /\ CountedWalk(job)

\* A walk goes on over a list that stays the same.
LEMMA WalksKept ==
    ASSUME TypeOK, CatalogueKept, NEW c, ListTyped(c.list)
    PROVE  /\ ShownWalk(c) => ShownWalk(c)'
           /\ ReadWalk(c) => ReadWalk(c)'
           /\ Cardinality(Counted(c.list))' = Cardinality(Counted(c.list))
<1>1. PICK l : l = c.list
  OBVIOUS
<1>2. Orders(l)' = Orders(l) /\ Counted(l)' = Counted(l)
  BY <1>1, RowsKept
<1>3. Ordered(l)' <=> Ordered(l)
  BY <1>2 DEF Ordered
<1>4. ASSUME DirectTo(l) PROVE DirectTo(l)'
  BY <1>4, ZenonT(30) DEF DirectTo, SeasonsOf, CatalogueKept
<1>5. Reached(c)' <=> Reached(c)
  BY <1>1, <1>2 DEF Reached
<1> QED
  BY <1>1, <1>2, <1>3, <1>4, <1>5 DEF ShownWalk, ReadWalk

\* A walk starts: nothing is seen.
LEMMA WalksStart ==
    ASSUME TypeOK, NEW l, ListTyped(l), NEW d, Opened(d, l), d.direct => DirectTo(l)
    PROVE  ReadWalk(d)
<1>1. d.page = 1 /\ d.seen = <<>> /\ d.list = l
  BY DEF Opened
<1>2. PICK size \in Nat \ {0} : size = SizeOf(l)
  BY SizesArePositive DEF SizeOf
<1>3. ASSUME NEW s \in Orders(l) PROVE UpTo(s, (d.page - 1) * size) = <<>>
  <2>1. s \in Seq(RowsOf(l))
    BY <1>3, OrdersAreSeqs
  <2>2. Len(s) \in Nat
    BY <2>1, LenProperties
  <2>3. (d.page - 1) * size = 0
    BY <1>1
  <2>4. UpTo(s, 0) = SubSeq(s, 1, 0)
    BY <2>2 DEF UpTo, Least
  <2> QED
    BY <2>1, <2>3, <2>4, SubSeqEmpty
<1>4. Reached(d)
  BY <1>1 DEF Reached
<1> QED
  BY <1>1, <1>2, <1>3, <1>4 DEF ReadWalk

\* A page is read: it joins what was seen.
LEMMA WalkShown ==
    ASSUME WInv, TypeOK, Select
    PROVE  \E d : d.kind = "list" /\ Show(d) /\ ShownWalk(d)
<1> DEFINE c == job.screen
           l == c.list
<1>1. JobTyped(job) /\ job.at = "select"
  BY DEF TypeOK, Select
<1>2. ListScreenTyped(c) /\ ListTyped(l) /\ (job.fresh => l.of = "sq")
  BY <1>1, JobFields, ListScreenFields
<1>3. PICK s, d :
        /\ s \in Orders(l)
        /\ d.kind = "list" /\ d.page = c.page /\ d.walked = c.walked
        /\ d.steady = c.steady /\ d.strayed = c.strayed /\ d.direct = c.direct
        /\ d.items = PageOf(s, c.page, SizeOf(l))
        /\ d.seen = c.seen \o d.items
        /\ d.next <=> d.items # <<>> /\ HasNext(c.page, SizeOf(l), job.total)
        /\ d.list.of = l.of /\ d.list.query = l.query
        /\ ~job.fresh => d.list = l
        /\ Show(d)
  BY SelectShows
<1>4. l.of # "sq" => d.list = l
  BY <1>2, <1>3
<1>5. PICK m : m = d.list
  OBVIOUS
<1>6. /\ Counted(m) = Counted(l) /\ Orders(m) = Orders(l) /\ SizeOf(m) = SizeOf(l)
      /\ Ordered(m) <=> Ordered(l)
  <2>1. PICK k : k = l
    OBVIOUS
  <2>2. m.of = k.of /\ m.query = k.query /\ (m.of # "sq" => m.arg = k.arg)
    BY <1>3, <1>4, <1>5, <2>1
  <2> QED
    BY <2>1, <2>2, SameRows
<1>7. ASSUME OnWalk(d)
      PROVE  /\ Ordered(m) => d.seen = UpTo(s, c.page * SizeOf(l))
             /\ job.total = Cardinality(Counted(l))
             /\ Reached(d)
             /\ d.direct => DirectTo(m)
  <2>1. OnWalk(c)
    BY <1>3, <1>7 DEF OnWalk
  <2>2. ReadWalk(c) /\ CountedWalk(job)
    BY <1>1 DEF WInv
  <2>3. ASSUME Ordered(m) PROVE d.seen = UpTo(s, c.page * SizeOf(l))
    <3>1. PICK page \in Nat \ {0}, size \in Nat \ {0} : page = c.page /\ size = SizeOf(l)
      BY <1>2, ListScreenFields, SizesArePositive DEF SizeOf
    <3>2. c.seen = UpTo(s, (page - 1) * size)
      BY <1>3, <1>6, <2>1, <2>2, <2>3, <3>1 DEF ReadWalk
    <3>3. s \in Seq(RowsOf(l))
      BY <1>2, <1>3, OrdersAreSeqs
    <3>4. UpTo(s, (page - 1) * size) \o PageOf(s, page, size) = UpTo(s, page * size)
      BY <3>3, PagesJoin
    <3> QED
      BY <1>3, <3>1, <3>2, <3>4
  <2>4. Reached(d)
    BY <1>3, <1>5, <1>6, <2>1, <2>2 DEF Reached, ReadWalk
  <2>5. ASSUME d.direct PROVE DirectTo(m)
    <3>1. DirectTo(l)
      BY <1>3, <2>1, <2>2, <2>5 DEF ReadWalk
    <3>2. PICK a : l = WatchList(a, SeasonsOf(a))
      BY <3>1 DEF DirectTo
    <3>3. PICK seasons : seasons = SeasonsOf(a)
      OBVIOUS
    <3>4. PICK k : k = WatchList(a, seasons) /\ k.of = "e"
      BY WatchListIs, Zenon
    <3> QED
      BY <1>4, <1>5, <3>1, <3>2, <3>3, <3>4
  <2> QED
    BY <1>1, <2>1, <2>2, <2>3, <2>4, <2>5 DEF CountedWalk
<1>8. ShownWalk(d)
  BY <1>3, <1>5, <1>6, <1>7 DEF ShownWalk
<1> QED
  BY <1>3, <1>8

\* The next page is asked of the same rows, unless the token has strayed.
LEMMA WalkRepeated ==
    ASSUME TypeOK, NEW c, ListScreenTyped(c), ShownWalk(c),
           OfItsQuery(c, FALSE, searches, restarts),
           c.list.of = "sq" => c.list.arg \in DOMAIN searches,
           NEW page, NEW walked,
           ~walked \/ (c.next /\ page = c.page + 1 /\ walked = c.walked)
    PROVE  ReadWalk(Repeated(c, page, walked))
<1>1. PICK d : d = Repeated(c, page, walked)
  OBVIOUS
<1>2. /\ d.page = page /\ d.walked = walked /\ d.steady = c.steady
      /\ d.direct = c.direct
      /\ d.seen = IF walked THEN c.seen ELSE <<>>
      /\ (d.strayed <=> c.strayed \/ (c.list.of = "sq" /\ c.era # restarts))
      /\ d.list = IF c.list.of = "sq"
                  THEN [c.list EXCEPT !.query = searches[c.list.arg]] ELSE c.list
  BY <1>1, RepeatedFields
<1>3. ASSUME OnWalk(d)
      PROVE  /\ \A s \in Orders(d.list) :
                   Ordered(d.list) => d.seen = UpTo(s, (d.page - 1) * SizeOf(d.list))
             /\ Reached(d)
             /\ d.direct => DirectTo(d.list)
  <2>1. c.next /\ page = c.page + 1 /\ walked = c.walked /\ walked /\ ~d.strayed /\ d.steady
    BY <1>2, <1>3 DEF OnWalk
  <2>2. OnWalk(c) /\ (c.list.of = "sq" => c.era = restarts)
    BY <1>2, <2>1 DEF OnWalk
  <2>3. PICK l, m : l = c.list /\ m = d.list
    OBVIOUS
  <2>4. m.of = l.of /\ m.query = l.query /\ m.arg = l.arg /\ (l.of # "sq" => m = l)
    <3>1. CASE l.of = "sq"
      <4>1. l \in [of: {"sq"}, arg: Nat, query: Queries]
        BY <2>3, <3>1, ListScreenFields DEF ListTyped
      <4>2. searches[l.arg] = l.query
        BY <2>2, <2>3, <3>1 DEF OfItsQuery, OnWalk
      <4>3. m = [l EXCEPT !.query = searches[l.arg]]
        BY <1>2, <2>3, <3>1
      <4> QED
        BY <3>1, <4>1, <4>2, <4>3
    <3>2. CASE l.of # "sq"
      BY <1>2, <2>3, <3>2
    <3> QED
      BY <3>1, <3>2
  <2>5. /\ Counted(m) = Counted(l) /\ Orders(m) = Orders(l) /\ SizeOf(m) = SizeOf(l)
        /\ Ordered(m) <=> Ordered(l)
    BY <2>4, SameRows
  <2>6. PICK n \in Nat \ {0}, size \in Nat \ {0} : n = c.page /\ size = SizeOf(l)
    BY ListScreenFields, SizesArePositive DEF SizeOf
  <2>7. d.page = n + 1 /\ d.page - 1 = n /\ d.seen = c.seen
    BY <1>2, <2>1, <2>6
  <2>8. PICK s \in Orders(l) : Ordered(l) => c.seen = UpTo(s, n * size)
    BY <2>2, <2>3, <2>6 DEF ShownWalk
  <2>9. \A t \in Orders(m) : Ordered(m) => d.seen = UpTo(t, (d.page - 1) * SizeOf(m))
    BY <2>5, <2>6, <2>7, <2>8 DEF Ordered
  <2>10. n * size < Cardinality(Counted(l))
    BY <2>1, <2>2, <2>3, <2>6 DEF ShownWalk, HasNext
  <2>11. Reached(d)
    BY <2>3, <2>5, <2>6, <2>7, <2>10 DEF Reached
  <2>12. ASSUME d.direct PROVE DirectTo(m)
    <3>1. DirectTo(l)
      BY <1>2, <2>2, <2>3, <2>12 DEF ShownWalk
    <3>2. PICK a : l = WatchList(a, SeasonsOf(a))
      BY <3>1 DEF DirectTo
    <3>3. l.of = "e"
      BY <3>2 DEF WatchList, List
    <3> QED
      BY <2>4, <3>1, <3>3
  <2> QED
    BY <2>3, <2>9, <2>11, <2>12
<1>4. ReadWalk(d)
  BY <1>3 DEF ReadWalk
<1> QED
  BY <1>1, <1>4

\* What the first page of a list is.
LEMMA FirstPageOpened ==
    ASSUME NEW l
    PROVE  \E d : d = FirstPage(l) /\ Opened(d, l) /\ d.direct = FALSE
<1>1. PICK d : d = FirstPage(l)
  OBVIOUS
<1>2. /\ d.kind = "list" /\ d.list = l /\ d.page = 1 /\ d.seen = <<>>
      /\ d.walked = TRUE /\ d.strayed = FALSE /\ d.era = restarts
      /\ d.asked = l.query /\ d.direct = FALSE
  BY <1>1 DEF FirstPage, ListScreen
<1> QED
  BY <1>1, <1>2 DEF Opened

LEMMA CountingFields ==
    ASSUME NEW c
    PROVE  /\ Counting(c).at = "count" /\ Counting(c).screen = c
           /\ [Counting(c) EXCEPT !.fresh = TRUE].at = "count"
           /\ [Counting(c) EXCEPT !.fresh = TRUE].screen = c
  BY DEF Counting

\* A list is opened at its first page.
OpensList(j) ==
    /\ j.at = "count"
    /\ \E l : /\ ListTyped(l) /\ Opened(j.screen, l)
              /\ j.screen.direct => DirectTo(l)

\* The page that a button asks for.
TurnsPage(c, j) ==
    /\ c.kind = "list"
    /\ c.list.of = "sq" => c.list.arg \in DOMAIN searches
    /\ \E page, walked :
          /\ j = Counting(Repeated(c, page, walked))
          /\ ~walked \/ (c.next /\ page = c.page + 1 /\ walked = c.walked)

LEMMA OpensFirstPage ==
    ASSUME NEW l, ListTyped(l)
    PROVE  /\ OpensList(Counting(FirstPage(l)))
           /\ OpensList([Counting(FirstPage(l)) EXCEPT !.fresh = TRUE])
<1>1. PICK d : d = FirstPage(l) /\ Opened(d, l) /\ d.direct = FALSE
  BY FirstPageOpened
<1>2. PICK j : j = Counting(d)
  OBVIOUS
<1>3. PICK k : k = [Counting(d) EXCEPT !.fresh = TRUE]
  OBVIOUS
<1>4. j.at = "count" /\ k.at = "count" /\ j.screen = d /\ k.screen = d
  BY <1>2, <1>3, CountingFields
<1>5. OpensList(j) /\ OpensList(k)
  BY <1>1, <1>4 DEF OpensList
<1> QED
  BY <1>1, <1>2, <1>3, <1>5

\* What leads to a handler that reads a list.
LEMMA HandlersOpen ==
    ASSUME TypeOK, HandleStart \/ HandleSearch \/ Menu \/ GenreMenu \/ Press,
           job'.at \in {"count", "select"}
    PROVE  /\ Quiet
           /\ OpensList(job') \/ \E i \in Slots : TurnsPage(chat[i], job')
<1> DEFINE Goal == Quiet /\ (OpensList(job') \/ \E i \in Slots : TurnsPage(chat[i], job'))
<1>1. ASSUME NEW l, ListTyped(l), Begin(Counting(FirstPage(l))) PROVE Goal
  BY <1>1, OpensFirstPage DEF Begin, Quiet
<1>2. ASSUME NEW a, NEW w, job' = Getting(a, w) PROVE FALSE
  BY <1>2 DEF Getting
<1>3. CASE HandleStart
  BY <1>2, <1>3 DEF HandleStart, Begin
<1>4. CASE HandleSearch
  <2>1. PICK q \in Queries :
          Begin([Counting(FirstPage(List("sq", 0, q))) EXCEPT !.fresh = TRUE])
    BY <1>4 DEF HandleSearch
  <2>2. ListTyped(List("sq", 0, q))
    BY ListsTyped
  <2>3. OpensList(job')
    BY <2>1, <2>2, OpensFirstPage DEF Begin
  <2> QED
    BY <2>1, <2>3 DEF Begin, Quiet
<1>5. CASE Menu
  <2>1. CASE Begin([at |-> "history"])
    BY <2>1 DEF Begin
  <2> QED
    BY <1>1, <1>5, <2>1, ListsTyped DEF Menu, Sorts
<1>6. CASE GenreMenu
  BY <1>1, <1>6, ListsTyped DEF GenreMenu
<1>7. CASE Press
  <2>1. PICK i \in Slots :
          \/ PressItem(chat[i]) \/ PressPage(chat[i]) \/ PressSeason(chat[i])
          \/ PressWatch(chat[i]) \/ PressBack(chat[i]) \/ PressFavorite(chat[i])
    BY <1>7 DEF Press
  <2>2. PICK c : c = chat[i] /\ ScreenTyped(c)
    BY DEF TypeOK
  <2>3. CASE PressItem(c)
    <3>1. ASSUME NEW x, Begin([at |-> "deliver", episode |-> x]) PROVE FALSE
      BY <3>1 DEF Begin
    <3> QED
      BY <1>2, <2>3, <3>1 DEF PressItem, Begin
  <2>4. CASE PressPage(c)
    <3>1. PICK page, walked :
            /\ Begin(Counting(Repeated(c, page, walked)))
            /\ ~walked \/ (c.next /\ page = c.page + 1 /\ walked = c.walked)
      BY <2>4 DEF PressPage
    <3>2. TurnsPage(c, job')
      BY <2>4, <3>1 DEF TurnsPage, PressPage, Begin
    <3> QED
      BY <2>2, <3>1, <3>2 DEF Begin, Quiet
  <2>5. CASE PressSeason(c)
    <3>1. PICK s \in c.seasons : Begin(Counting(FirstPage(List("e", <<c.anime, s>>, ""))))
      BY <2>5 DEF PressSeason
    <3>a. c \in [kind: {"seasons"}, anime: Animes, seasons: SUBSET Nat, steady: BOOLEAN]
      BY <2>2, <2>5, ScreenFields DEF PressSeason
    <3>2. c.anime \in Animes /\ s \in Nat
      BY <3>1, <3>a
    <3>3. ListTyped(List("e", <<c.anime, s>>, ""))
      BY <3>2, ListsTyped
    <3> QED
      BY <1>1, <3>1, <3>3
  <2>6. CASE PressWatch(c)
    BY <2>6 DEF PressWatch, Begin
  <2>7. CASE PressFavorite(c)
    BY <1>2, <2>7 DEF PressFavorite
  <2>8. CASE PressBack(c)
    BY <1>2, <2>8 DEF PressBack, Begin
  <2> QED
    BY <2>1, <2>2, <2>3, <2>4, <2>5, <2>6, <2>7, <2>8
<1> QED
  BY <1>3, <1>4, <1>5, <1>6, <1>7

LEMMA WatchOpens ==
    ASSUME TypeOK, SendWatchEntry \/ ListSeasonsFails, job'.at \in {"count", "select"}
    PROVE  Quiet /\ OpensList(job')
<1>1. job.anime \in Animes /\ job.at = "seasons"
  BY JobFields DEF TypeOK, SendWatchEntry, ListSeasonsFails
<1>2. \A s \in SeasonsOf(job.anime) : s \in Nat
  BY <1>1, RowOfAnime DEF SeasonsOf
<1>3. ASSUME NEW a \in Animes, NEW seasons, \A s \in seasons : s \in Nat
      PROVE  ListTyped(WatchList(a, seasons))
  <2>1. (IF seasons = {} THEN 0 ELSE CHOOSE s \in seasons : TRUE) \in Nat
    BY <1>3
  <2> QED
    BY <2>1, ListsTyped DEF WatchList
<1>4. CASE ListSeasonsFails
  <2>a. PICK a, steady : a = job.anime /\ steady = job.steady
    OBVIOUS
  <2>1. PICK l : l = WatchList(a, {})
    OBVIOUS
  <2>2. ListTyped(l)
    BY <1>1, <1>3, <2>a, <2>1
  <2>3. PICK d : /\ d = [FirstPage(l) EXCEPT !.steady = steady]
                 /\ Opened(d, l) /\ d.direct = FALSE
    BY WatchScreens, Zenon
  <2>4. job' = Counting(d) /\ Quiet
    BY <1>4, <2>a, <2>1, <2>3 DEF ListSeasonsFails, Quiet
  <2>5. PICK j : j = Counting(d) /\ j.at = "count" /\ j.screen = d
    BY CountingFields
  <2>6. OpensList(j)
    BY <2>2, <2>3, <2>5 DEF OpensList
  <2> QED
    BY <2>4, <2>5, <2>6
<1>5. CASE SendWatchEntry
  <2>a. PICK a, seasons, steady : /\ a = job.anime /\ seasons = SeasonsOf(a)
                                  /\ steady = job.steady
    OBVIOUS
  <2>1. SkipsPicker(seasons)
    BY <1>5, <2>a DEF SendWatchEntry, Idle
  <2>2. PICK l : l = WatchList(a, seasons)
    OBVIOUS
  <2>3. ListTyped(l) /\ DirectTo(l)
    <3>1. ListTyped(l)
      BY <1>1, <1>2, <1>3, <2>a, <2>2
    <3>2. a \in Animes /\ Cardinality(SeasonsOf(a)) <= 1 /\ l = WatchList(a, SeasonsOf(a))
      BY <1>1, <2>a, <2>1, <2>2 DEF SkipsPicker
    <3> QED
      BY <3>1, <3>2 DEF DirectTo
  <2>4. PICK d : /\ d = [FirstPage(l) EXCEPT !.direct = TRUE, !.steady = steady]
                 /\ Opened(d, l)
    BY WatchScreens, Zenon
  <2>5. job' = Counting(d) /\ Quiet
    BY <1>5, <2>a, <2>1, <2>2, <2>4 DEF SendWatchEntry, Quiet
  <2>6. PICK j : j = Counting(d) /\ j.at = "count" /\ j.screen = d
    BY CountingFields
  <2>7. OpensList(j)
    BY <2>3, <2>4, <2>6 DEF OpensList
  <2> QED
    BY <2>5, <2>6, <2>7
<1> QED
  BY <1>4, <1>5

\* What a step does to the handler of a list.
LEMMA NextReads ==
    ASSUME WInv, [Next]_vars, TypeOK', job'.at \in {"count", "select"}
    PROVE  (ReadWalk(job.screen) /\ CountedWalk(job))'
<1> DEFINE Goal == (ReadWalk(job.screen) /\ CountedWalk(job))'
<1>0. TypeOK /\ QInv /\ JobTyped(job) /\ JobTyped(job')
  BY DEF WInv, QInv, TypeOK
<1>a. PICK j : j = job'
  OBVIOUS
<1>b. PICK d : d = j.screen
  OBVIOUS
<1>c. ListScreenTyped(d) /\ ListTyped(d.list) /\ j.at \in {"count", "select"}
  BY <1>0, <1>a, <1>b, JobFields, ListScreenFields
<1>1. ASSUME ReadWalk(d)', j.at = "select" /\ OnWalk(d) =>
                              j.total = Cardinality(Counted(d.list))'
      PROVE  Goal
  BY <1>1, <1>a, <1>b DEF ReadWalk, CountedWalk, Reached, OnWalk, Ordered, DirectTo
<1>2. ASSUME UNCHANGED <<anime, episode, favs>> PROVE CatalogueKept
  BY <1>2 DEF CatalogueKept
<1>3. ASSUME ~OnWalk(d) PROVE Goal
  BY <1>1, <1>3 DEF ReadWalk, OnWalk
<1>4. ASSUME Quiet, OpensList(j) PROVE Goal
  <2>1. PICK l : /\ j.at = "count" /\ ListTyped(l) /\ Opened(d, l)
                 /\ d.direct => DirectTo(l)
    BY <1>4, <1>b DEF OpensList
  <2>2. ReadWalk(d)
    BY <1>0, <2>1, WalksStart
  <2>3. CatalogueKept
    BY <1>2, <1>4 DEF Quiet, tables
  <2> QED
    BY <1>0, <1>1, <1>c, <2>1, <2>2, <2>3, WalksKept
<1>5. ASSUME Quiet, NEW i \in Slots, TurnsPage(chat[i], j) PROVE Goal
  <2>1. PICK c : c = chat[i] /\ ScreenTyped(c) /\ TurnsPage(c, j)
    BY <1>0, <1>5 DEF TypeOK
  <2>2. ListScreenTyped(c) /\ ShownWalk(c) /\ OfItsQuery(c, FALSE, searches, restarts)
    BY <2>1, ScreenFields DEF WInv, QInv, TurnsPage
  <2>3. PICK page, walked :
          /\ j = Counting(Repeated(c, page, walked))
          /\ ~walked \/ (c.next /\ page = c.page + 1 /\ walked = c.walked)
    BY <2>1 DEF TurnsPage
  <2>4. j.at = "count" /\ d = Repeated(c, page, walked)
    BY <1>b, <2>3, CountingFields
  <2>5. ReadWalk(Repeated(c, page, walked))
    BY <1>0, <2>1, <2>2, <2>3, WalkRepeated DEF TurnsPage
  <2>6. CatalogueKept
    BY <1>2, <1>5 DEF Quiet, tables
  <2> QED
    BY <1>0, <1>1, <1>c, <2>4, <2>5, <2>6, WalksKept
<1>6. CASE HandleStart \/ HandleSearch \/ Menu \/ GenreMenu \/ Press
  <2>1. Quiet /\ (OpensList(job') \/ \E i \in Slots : TurnsPage(chat[i], job'))
    BY <1>0, <1>6, HandlersOpen
  <2> QED
    BY <1>4, <1>5, <1>a, <2>1
<1>7. CASE SendWatchEntry \/ ListSeasonsFails
  BY <1>0, <1>4, <1>7, <1>a, WatchOpens
<1>8. CASE Count
  <2>1. /\ j.at = "select" /\ d = job.screen /\ Quiet
        /\ j.total = Cardinality(Counted(d.list))
    BY <1>0, <1>8, <1>a, <1>b, CountFields
  <2>2. ReadWalk(d)
    BY <1>8, <2>1 DEF Count, WInv
  <2>3. CatalogueKept
    BY <1>2, <2>1 DEF Quiet, tables
  <2> QED
    BY <1>0, <1>1, <1>c, <2>1, <2>2, <2>3, WalksKept
<1>9. CASE UNCHANGED vars
  <2>1. CatalogueKept /\ j = job
    BY <1>2, <1>9, <1>a DEF vars, tables
  <2>2. ReadWalk(d) /\ (j.at = "select" /\ OnWalk(d) => j.total = Cardinality(Counted(d.list)))
    BY <1>b, <1>c, <2>1 DEF WInv, CountedWalk
  <2> QED
    BY <1>0, <1>1, <1>c, <2>1, <2>2, WalksKept
<1>10. CASE DeleteAnime \/ DeleteEpisode \/ RefreshPopularity
  <2>1. j = UnsteadyJob
    BY <1>10, <1>a DEF DeleteAnime, DeleteEpisode, RefreshPopularity, Changed
  <2>2. j.at = job.at /\ (job.at \in {"count", "select"} => ~j.screen.steady)
    BY <1>0, <2>1, UnsteadyJobFields
  <2>3. ~OnWalk(d)
    BY <1>b, <1>c, <2>2 DEF OnWalk
  <2> QED
    BY <1>3, <2>3
<1>11. CASE GetAnime \/ RecordAnimeView \/ SendAnimeDetail \/ DeliverEpisode
            \/ RecordProgress \/ ListHistory \/ CallFails
  BY <1>0, <1>11, CallsShowNoList
<1>12. CASE Select \/ Restart
  BY <1>12 DEF Select, Restart, Idle
<1> QED
  BY <1>6, <1>7, <1>8, <1>9, <1>10, <1>11, <1>12 DEF Next

LEMMA NextWalks ==
    ASSUME WInv, [Next]_vars
    PROVE  WInv'
<1>0. TypeOK /\ QInv /\ TypeOK' /\ QInv'
  BY NextTyped, NextKeepsQueries DEF WInv, QInv
<1>1. ASSUME CatalogueKept, NEW i \in Slots, NEW d, d = chat'[i], d.kind = "list",
             Faded(chat[i], d)
      PROVE  ShownWalk(d)'
  <2>1. PICK c : c = chat[i] /\ ScreenTyped(c)
    BY <1>0 DEF TypeOK
  <2>2. d.kind = c.kind /\ (d.steady => d = c)
    BY <1>1, <2>1, FadedKind
  <2>3. CASE d = c
    <3>1. ShownWalk(c) /\ ListTyped(c.list)
      BY <1>1, <2>1, <2>2, ScreenFields, ListScreenFields DEF WInv
    <3> QED
      BY <1>0, <1>1, <2>3, <3>1, WalksKept
  <2>4. CASE ~d.steady
    BY <2>4 DEF ShownWalk, OnWalk
  <2> QED
    BY <2>2, <2>3, <2>4
<1>2. ASSUME CatalogueKept, NEW e, Show(e), e.kind # "list", NEW i \in Slots,
             NEW d, d = chat'[i], d.kind = "list"
      PROVE  ShownWalk(d)'
  <2>1. d = chat[i]
    BY <1>0, <1>2, ShowEither
  <2>2. Faded(chat[i], d)
    BY <2>1 DEF Faded
  <2> QED
    BY <1>1, <1>2, <2>2
<1>3. ASSUME NEW i \in Slots, NEW d, d = chat'[i], d.kind = "list" PROVE ShownWalk(d)'
  <2>1. CASE Alters
    <3>1. PICK c : c = chat[i]
      OBVIOUS
    <3>2. ScreenTyped(c) /\ d = Unsteady(c)
      BY <1>0, <1>3, <2>1, <3>1 DEF TypeOK, Alters
    <3>3. c.kind = "list" /\ ListScreenTyped(c)
      BY <1>3, <3>2, UnsteadyTyped, ScreenFields
    <3>4. d = [c EXCEPT !.steady = FALSE]
      BY <3>2, <3>3 DEF Unsteady
    <3>5. ~d.steady
      BY <3>3, <3>4 DEF ListScreenTyped
    <3> QED
      BY <3>5 DEF ShownWalk, OnWalk
  <2>2. CASE CatalogueKept /\ UNCHANGED chat
    <3>1. Faded(chat[i], d)
      BY <1>3, <2>2 DEF Faded
    <3> QED
      BY <1>1, <1>3, <2>2, <3>1
  <2>3. CASE CatalogueKept /\ RecordProgress
    <3>1. Faded(chat[i], d)
      BY <1>3, <2>3 DEF RecordProgress, Faded
    <3> QED
      BY <1>1, <1>3, <2>3, <3>1
  <2>4. CASE CatalogueKept /\ (ListHistory \/ SendAnimeDetail)
    <3>1. PICK e : e.kind # "list" /\ Show(e)
      BY <2>4 DEF ListHistory, SendAnimeDetail
    <3> QED
      BY <1>2, <1>3, <2>4, <3>1
  <2>5. CASE CatalogueKept /\ SendWatchEntry
    <3>1. CASE UNCHANGED chat
      BY <2>2, <2>5, <3>1
    <3>2. CASE chat' # chat
      <4>1. PICK e : e.kind # "list" /\ Show(e)
        BY <2>5, <3>2 DEF SendWatchEntry
      <4> QED
        BY <1>2, <1>3, <2>5, <4>1
    <3> QED
      BY <3>1, <3>2
  <2>6. CASE CatalogueKept /\ Select
    <3>1. PICK e : e.kind = "list" /\ Show(e) /\ ShownWalk(e)
      BY <1>0, <2>6, WalkShown
    <3>2. CASE d = chat[i]
      <4>1. Faded(chat[i], d)
        BY <3>2 DEF Faded
      <4> QED
        BY <1>1, <1>3, <2>6, <4>1
    <3>3. CASE d = e
      <4>1. ListTyped(d.list)
        BY <1>0, <1>3, ScreenFields, ListScreenFields DEF TypeOK
      <4> QED
        BY <1>0, <2>6, <3>1, <3>3, <4>1, WalksKept
    <3> QED
      BY <1>0, <1>3, <3>1, <3>2, <3>3, ShowEither
  <2> QED
    BY <1>0, <2>1, <2>2, <2>3, <2>4, <2>5, <2>6, StepKinds
<1>4. \A i \in Slots : chat'[i].kind = "list" => ShownWalk(chat[i])'
  <2>1. ASSUME NEW i \in Slots, NEW d, d = chat'[i], d.kind = "list"
        PROVE  ShownWalk(chat[i])'
    <3>1. ShownWalk(d)'
      BY <1>3, <2>1
    <3> QED
      BY <2>1, <3>1 DEF ShownWalk, OnWalk, Reached, Ordered, DirectTo
  <2> QED
    BY <2>1
<1> QED
  BY <1>0, <1>4, NextReads DEF WInv

LEMMA InitWalks == Init => WInv
<1> SUFFICES ASSUME Init PROVE WInv
  OBVIOUS
<1>1. job.at = "idle" /\ \A i \in Slots : chat[i].kind = "none"
  BY DEF Init, Idle, NoScreen
<1> QED
  BY <1>1, InitQueries DEF WInv

\* The end of a walk: an order of the list is seen, all of it.
LEMMA WalkEnds ==
    ASSUME WInv, NEW c, c \in Screens("list"), Walked(c)
    PROVE  /\ ToSet(c.seen) = Selected(c.list)
           /\ Len(c.seen) = Cardinality(Selected(c.list))
           /\ c.page > 1 /\ c.items = <<>> =>
                 c.list.of = "favorites" /\ \E a \in ToSet(favs) : anime[a].deleted
           /\ c.direct => DirectTo(c.list)
<1>0. TypeOK
  BY DEF WInv, QInv
<1>1. ScreenTyped(c) /\ c.kind = "list" /\ ShownWalk(c)
  BY <1>0 DEF Screens, TypeOK, WInv
<1>2. ListScreenTyped(c) /\ ListTyped(c.list)
  BY <1>1, ScreenFields, ListScreenFields
<1>3. PICK l : l = c.list
  OBVIOUS
<1>4. OnWalk(c) /\ ~c.next /\ Ordered(l)
  BY <1>3 DEF Walked, OnWalk
<1>5. PICK page \in Nat \ {0}, size \in Nat \ {0} : page = c.page /\ size = SizeOf(l)
  BY <1>2, ListScreenFields, SizesArePositive DEF SizeOf
<1>6. PICK s \in Orders(l) : /\ c.items = PageOf(s, page, size)
                             /\ c.seen = UpTo(s, page * size)
  BY <1>1, <1>3, <1>4, <1>5 DEF ShownWalk
<1>7. /\ s \in Seq(RowsOf(l)) /\ Len(s) = Cardinality(Selected(l))
      /\ ToSet(s) = Selected(l)
  BY <1>0, <1>2, <1>3, OrdersAreSeqs, OrderCovers
<1>8. /\ Cardinality(Selected(l)) \in Nat /\ Cardinality(Counted(l)) \in Nat
      /\ Cardinality(Selected(l)) <= Cardinality(Counted(l))
      /\ Cardinality(Selected(l)) = Cardinality(Counted(l)) => Selected(l) = Counted(l)
  BY <1>0, <1>2, <1>3, SelectedRows
<1>9. c.items = <<>> => Len(s) <= (page - 1) * size
  BY <1>6, <1>7, PagesJoin
<1>10. PICK m \in Nat, n \in Nat : m = (page - 1) * size /\ n = page * size /\ m <= n
  <2>1. PICK k \in Nat : k = page - 1
    OBVIOUS
  <2>2. k * size \in Nat /\ page * size \in Nat /\ page * size = k * size + size
    BY <2>1
  <2> QED
    BY <2>1, <2>2
<1>11. Len(s) <= n
  <2>1. CASE c.items = <<>>
    BY <1>7, <1>8, <1>9, <1>10, <2>1
  <2>2. CASE c.items # <<>>
    <3>1. ~HasNext(page, size, Cardinality(Counted(l)))
      BY <1>1, <1>3, <1>4, <1>5, <2>2 DEF ShownWalk
    <3>2. ~(n < Cardinality(Counted(l)))
      BY <1>10, <3>1 DEF HasNext
    <3> QED
      BY <1>7, <1>8, <1>10, <3>2
  <2> QED
    BY <2>1, <2>2
<1>12. c.seen = s
  <2>1. Len(s) \in Nat
    BY <1>7, <1>8
  <2>2. Least(n, Len(s)) = Len(s)
    BY <1>11, <2>1 DEF Least
  <2>3. UpTo(s, n) = SubSeq(s, 1, Len(s))
    BY <2>2 DEF UpTo
  <2> QED
    BY <1>6, <1>7, <1>10, <2>3, SubSeqFull
<1>13. ASSUME c.page > 1, c.items = <<>>
       PROVE  l.of = "favorites" /\ \E a \in ToSet(favs) : anime[a].deleted
  <2>1. m < Cardinality(Counted(l))
    BY <1>1, <1>3, <1>4, <1>5, <1>10, <1>13 DEF ShownWalk, Reached
  <2>2. Selected(l) # Counted(l)
    BY <1>7, <1>8, <1>9, <1>10, <1>13, <2>1
  <2>3. l.of = "favorites"
    BY <2>2 DEF Counted
  <2> QED
    BY <2>2, <2>3 DEF Counted, Selected
<1> QED
  BY <1>1, <1>3, <1>4, <1>7, <1>12, <1>13 DEF ShownWalk

\* Whoever turns the pages of a list that does not change, and whose rows come in
\* one order, has seen each row once when there is no next button; the last page
\* is empty only after deleted favourites were counted.
THEOREM WalksAreComplete == Spec => []WalkComplete
<1>1. WInv => WalkComplete
  BY WalkEnds DEF WalkComplete
<1> QED
  BY <1>1, InitWalks, NextWalks, PTL DEF Spec

\* An episode refers to a row of the seasons of its anime, of which there are
\* finitely many.
SeasonRows ==
    /\ \A a \in Animes : IsFiniteSet(anime[a].seasons)
    /\ \A e \in Episodes : episode[e].season \in anime[Owner[e]].seasons \cup {0}

LEMMA InitSeasonRows == Init => SeasonRows
<1> SUFFICES ASSUME Init PROVE SeasonRows
  OBVIOUS
<1>1. PICK start \in Starts :
        /\ anime = [a \in Animes |->
              [deleted |-> FALSE, views |-> start.score[a], score |-> start.score[a],
               seasons |-> start.seasons[a]]]
        /\ episode = [e \in Episodes |->
              [season |-> start.season[e], number |-> start.number[e], deleted |-> FALSE]]
  BY DEF Init
<1>2. \A a \in Animes : anime[a].seasons = start.seasons[a]
  BY <1>1
<1>3. \A e \in Episodes : episode[e].season = start.season[e]
  BY <1>1
<1>4. /\ \A a \in Animes : IsFiniteSet(start.seasons[a])
      /\ \A e \in Episodes : start.season[e] \in start.seasons[Owner[e]] \cup {0}
  BY StartsAreTables
<1>5. \A e \in Episodes : Owner[e] \in Animes
  BY EpisodesHaveAnimes
<1> QED
  BY <1>2, <1>3, <1>4, <1>5 DEF SeasonRows

LEMMA NextSeasonRows ==
    ASSUME TypeOK, SeasonRows, [Next]_vars
    PROVE  SeasonRows'
<1>1. SeasonsKept
  BY StepKinds DEF Alters, CatalogueKept, SeasonsKept
<1>2. \A e \in Episodes : Owner[e] \in Animes
  BY EpisodesHaveAnimes
<1> QED
  BY <1>1, <1>2 DEF SeasonRows, SeasonsKept

\* The list that Watch leads to without asking for a season is all there is to
\* watch, but for episodes without a season beside others that have one.
THEOREM WatchListsAll == Spec => []WatchShowsAll
<1>1. ASSUME WInv, SeasonRows, NEW c, c \in Screens("list"), c.direct, Walked(c)
      PROVE  \/ ToSet(c.seen) = EpisodesOf(c.list.arg[1], 0)
             \/ /\ SeasonsOf(c.list.arg[1]) # {}
                /\ \E e \in EpisodesOf(c.list.arg[1], 0) : episode[e].season = 0
  <2>1. ToSet(c.seen) = Selected(c.list) /\ DirectTo(c.list)
    BY <1>1, WalkEnds
  <2>a. PICK a \in Animes : /\ Cardinality(SeasonsOf(a)) <= 1
                            /\ c.list = WatchList(a, SeasonsOf(a))
    BY <2>1 DEF DirectTo
  <2>b. PICK seasons : seasons = SeasonsOf(a)
    OBVIOUS
  <2>c. Cardinality(seasons) <= 1
    BY <2>a, <2>b
  <2>d. c.list = WatchList(a, seasons)
    BY <2>a, <2>b
  <2>e. PICK n : n = IF seasons = {} THEN 0 ELSE CHOOSE s \in seasons : TRUE
    OBVIOUS
  <2>f. PICK l : l = [of |-> "e", arg |-> <<a, n>>, query |-> ""]
    OBVIOUS
  <2>g. c.list = l
    BY <2>d, <2>e, <2>f DEF WatchList, List
  <2>3. l.of = "e" /\ l.arg = <<a, n>>
    BY <2>f
  <2>4. Selected(l) = EpisodesOf(a, n)
    BY <2>3 DEF Selected
  <2>5. CASE seasons = {}
    BY <2>1, <2>b, <2>e, <2>g, <2>3, <2>4, <2>5
  <2>6. CASE seasons # {}
    <3>1. n \in seasons
      BY <2>e, <2>6
    <3>2. IsFiniteSet(seasons)
      BY <1>1, <2>b DEF SeasonRows, SeasonsOf
    <3>3. seasons = {n}
      <4>1. Cardinality(seasons) \in Nat /\ Cardinality(seasons) # 0
        BY <2>6, <3>2, FS_CardinalityType, FS_EmptySet
      <4>2. Cardinality(seasons) = 1
        BY <2>c, <4>1
      <4>3. \E x : seasons = {x}
        BY <3>2, <4>2, FS_Singleton
      <4> QED
        BY <3>1, <4>3
    <3>4. ASSUME \A e \in EpisodesOf(a, 0) : episode[e].season # 0
          PROVE  EpisodesOf(a, n) = EpisodesOf(a, 0)
      <4>1. EpisodesOf(a, 0) = {e \in Episodes : Owner[e] = a /\ ~episode[e].deleted}
        BY DEF EpisodesOf
      <4>2. \A e \in EpisodesOf(a, 0) : episode[e].season = n
        BY <1>1, <2>b, <3>3, <3>4, <4>1 DEF SeasonRows, SeasonsOf
      <4> QED
        BY <4>1, <4>2 DEF EpisodesOf
    <3> QED
      BY <2>1, <2>b, <2>g, <2>3, <2>4, <2>6, <3>4
  <2> QED
    BY <2>5, <2>6
<1>2. WInv /\ SeasonRows => WatchShowsAll
  BY <1>1 DEF WatchShowsAll
<1>3. WInv => TypeOK
  BY DEF WInv, QInv
<1> QED
  BY <1>2, <1>3, InitWalks, NextWalks, InitSeasonRows, NextSeasonRows, PTL DEF Spec

=============================================================================
