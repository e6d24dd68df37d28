-------------------------- MODULE PublisherProofs --------------------------
(***************************************************************************)
(* Proofs about module Publisher, for any number of runs, channels and     *)
(* animes, and any number of stops and crashes.                            *)
(*                                                                         *)
(* The argument is about the locals of one run: what a run has sent it has *)
(* claimed, and what it is about to send it has not.  Section 1 shows that *)
(* every way in which the code changes these locals keeps that, section 2  *)
(* lifts it to the steps of the system, section 3 relates the locals to    *)
(* channel_posts and to Telegram, section 4 is about runs one at a time,   *)
(* section 5 counts what a run claims and posts.                           *)
(***************************************************************************)
EXTENDS Publisher, FiniteSetTheorems, WellFoundedInduction, TLAPS

RunOK(x) ==
    /\ x \in RunState
    /\ x.pc = "idle" <=> x.at = 0
    /\ x.pc \in {"send", "record"} <=> x.pending # {}

\* What was sent is claimed and went to one channel.
SentOnce(x) ==
    /\ \A p \in x.sent : p[1] \in x.used
    /\ \A p, q \in x.sent : p[1] = q[1] => p[2] = q[2]

\* Anime a is the next one of run x.
NextIs(x, a) == a \in x.pending /\ \A b \in x.pending : a <= b

\* What is pending is not claimed, but for the anime that is being recorded.
Claims(x) ==
    /\ SentOnce(x)
    /\ \A a \in x.pending : a \in x.used => x.pc = "record" /\ NextIs(x, a)

-----------------------------------------------------------------------------
(* 1. The locals of one run *)

LEMMA Positions ==
    /\ Len(Targets) \in Nat
    /\ DOMAIN Targets = 1..Len(Targets)
    /\ \A i \in 1..Len(Targets) : Targets[i] \in Channels
<1>1. Len(Targets) \in Nat /\ DOMAIN Targets = 1..Len(Targets)
  BY TargetsAreListed
<1> QED
  BY <1>1 DEF Channels

LEMMA IdleOK == RunOK(Idle) /\ Claims(Idle)
BY DEF RunOK, Claims, SentOnce, Idle, RunState

LEMMA TakeUnclaimed ==
    ASSUME NEW x, NEW c, NEW a \in Take(x, c)
    PROVE  a \in eligible /\ a \notin x.used /\ <<a, c>> \notin posts
BY DEF Take, Oldest, Candidates, Unposted

\* The end of a channel: the next one is fetched, or the run is over.
LEMMA AfterChannelOK ==
    ASSUME NEW x, x \in RunState, x.at # 0, SentOnce(x)
    PROVE  /\ RunOK(AfterChannel(x))
           /\ Claims(AfterChannel(x))
           /\ AfterChannel(x).pc \in {"idle", "fetch"}
           /\ AfterChannel(x).pending = {}
<1>1. CASE x.at < Len(Targets)
  <2> DEFINE y == [x EXCEPT !.pc = "fetch", !.at = @ + 1, !.pending = {}]
  <2>1. x.at \in 1..Len(Targets)
    BY Positions DEF RunState
  <2>2. x.at + 1 \in 1..Len(Targets)
    BY <1>1, <2>1, Positions
  <2>3. /\ y \in RunState
        /\ y.pc = "fetch" /\ y.at = x.at + 1 /\ y.pending = {}
        /\ y.used = x.used /\ y.sent = x.sent
    BY <2>2, Positions DEF RunState
  <2>4. AfterChannel(x) = y
    BY <1>1 DEF AfterChannel
  <2>5. RunOK(y)
    BY <2>2, <2>3 DEF RunOK
  <2>6. Claims(y)
    BY <2>3 DEF Claims, SentOnce
  <2> HIDE DEF y
  <2> QED
    BY <2>3, <2>4, <2>5, <2>6
<1>2. CASE ~(x.at < Len(Targets))
  BY <1>2, IdleOK DEF AfterChannel, Idle
<1> QED
  BY <1>1, <1>2

\* Run x has done with anime a, which it has claimed.
LEMMA AfterAnimeOK ==
    ASSUME NEW x, NEW a, x \in RunState, x.at # 0, SentOnce(x),
           a \in x.pending, \A b \in x.pending : b \in x.used => b = a
    PROVE  /\ RunOK(AfterAnime(x, a))
           /\ Claims(AfterAnime(x, a))
           /\ AfterAnime(x, a).pc # "record"
           /\ AfterAnime(x, a).pending \subseteq x.pending \ {a}
           /\ AfterAnime(x, a).pc = "send" => AfterAnime(x, a).at = x.at
<1>1. CASE x.pending = {a}
  BY <1>1, AfterChannelOK DEF AfterAnime
<1>2. CASE x.pending # {a}
  <2> DEFINE y == [x EXCEPT !.pc = "send", !.pending = @ \ {a}]
  <2>1. /\ y \in RunState
        /\ y.pc = "send" /\ y.at = x.at /\ y.pending = x.pending \ {a}
        /\ y.used = x.used /\ y.sent = x.sent
    BY DEF RunState
  <2>2. AfterAnime(x, a) = y
    BY <1>2 DEF AfterAnime
  <2>3. y.pending # {}
    BY <1>2, <2>1
  <2>4. RunOK(y)
    BY <2>1, <2>3 DEF RunOK
  <2>5. Claims(y)
    BY <2>1 DEF Claims, SentOnce
  <2> HIDE DEF y
  <2> QED
    BY <2>1, <2>2, <2>4, <2>5
<1> QED
  BY <1>1, <1>2

\* A channel is fetched.
LEMMA FetchOK ==
    ASSUME NEW x, NEW c, RunOK(x), Claims(x), x.pc = "fetch",
           eligible \subseteq Animes, Take(x, c) # {}
    PROVE  LET y == [x EXCEPT !.pc = "send", !.pending = Take(x, c)]
           IN  RunOK(y) /\ Claims(y)
<1> DEFINE y == [x EXCEPT !.pc = "send", !.pending = Take(x, c)]
<1>1. Take(x, c) \subseteq Animes /\ Take(x, c) \cap x.used = {}
  BY TakeUnclaimed
<1>2. /\ y \in RunState
      /\ y.pc = "send" /\ y.at = x.at /\ y.pending = Take(x, c)
      /\ y.used = x.used /\ y.sent = x.sent
  BY <1>1 DEF RunOK, RunState
<1>3. RunOK(y)
  BY <1>2 DEF RunOK
<1>4. Claims(y)
  BY <1>1, <1>2 DEF Claims, SentOnce
<1> QED
  BY <1>3, <1>4

\* The next anime is claimed, and perhaps posted.
LEMMA ClaimOK ==
    ASSUME NEW x, NEW a \in Animes, NEW c \in Channels, NEW y,
           RunOK(x), Claims(x), x.pc = "send", NextIs(x, a),
           y \in {Claim(x, a), Posted(Claim(x, a), a, c)}
    PROVE  /\ y \in RunState /\ y.pc = "send" /\ y.at = x.at /\ y.at # 0
           /\ y.pending = x.pending /\ y.used = x.used \cup {a}
           /\ SentOnce(y)
           /\ \A b \in y.pending : b \in y.used => b = a
<1>1. /\ y \in RunState /\ y.pc = "send" /\ y.at = x.at
      /\ y.pending = x.pending /\ y.used = x.used \cup {a}
      /\ y.sent \in {x.sent, x.sent \cup {<<a, c>>}}
  <2> DEFINE z == Claim(x, a)
  <2>1. /\ z \in RunState /\ z.pc = "send" /\ z.at = x.at
        /\ z.pending = x.pending /\ z.used = x.used \cup {a}
        /\ z.sent = x.sent
    BY DEF RunOK, RunState, Claim
  <2>2. z.sent \cup {<<a, c>>} \in SUBSET (Animes \X Channels)
    BY <2>1 DEF RunState
  <2>3. y = z \/ y = [z EXCEPT !.sent = z.sent \cup {<<a, c>>}]
    BY DEF Posted
  <2> HIDE DEF z
  <2> QED
    BY <2>1, <2>2, <2>3 DEF RunState
<1>2. x.at # 0
  BY DEF RunOK
<1>3. a \notin x.used
  BY DEF Claims, NextIs
<1>4. SentOnce(y)
  <2>1. \A p \in x.sent : p[1] \in x.used /\ p[1] # a
    BY <1>3 DEF Claims, SentOnce
  <2> QED
    BY <1>1, <2>1 DEF Claims, SentOnce
<1>5. \A b \in y.pending : b \in y.used => b = a
  BY <1>1 DEF Claims
<1> QED
  BY <1>1, <1>2, <1>4, <1>5

\* The next anime is posted and about to be recorded.
LEMMA SendOK ==
    ASSUME NEW x, NEW a \in Animes, NEW c \in Channels,
           RunOK(x), Claims(x), x.pc = "send", NextIs(x, a)
    PROVE  LET y == [Posted(Claim(x, a), a, c) EXCEPT !.pc = "record"]
           IN  /\ RunOK(y) /\ Claims(y)
               /\ y.pc = "record" /\ y.at = x.at /\ y.pending = x.pending
<1> DEFINE z == Posted(Claim(x, a), a, c)
           y == [z EXCEPT !.pc = "record"]
<1>1. /\ z \in RunState /\ z.pc = "send" /\ z.at = x.at /\ z.at # 0
      /\ z.pending = x.pending /\ SentOnce(z)
      /\ \A b \in z.pending : b \in z.used => b = a
  BY ClaimOK
<1> HIDE DEF z
<1>2. /\ y \in RunState
      /\ y.pc = "record" /\ y.at = z.at /\ y.pending = z.pending
      /\ y.used = z.used /\ y.sent = z.sent
  BY <1>1 DEF RunState
<1>3. RunOK(y)
  BY <1>1, <1>2 DEF RunOK, NextIs
<1>4. Claims(y)
  BY <1>1, <1>2 DEF Claims, SentOnce, NextIs
<1> QED
  BY <1>1, <1>2, <1>3, <1>4 DEF z

\* Nothing is the next anime but one.
LEMMA NextIsUnique ==
    ASSUME NEW x, x \in RunState, NEW a, NEW b, NextIs(x, a), NextIs(x, b)
    PROVE  a = b
<1>1. a \in Nat /\ b \in Nat
  BY AnimesAreNumbered DEF NextIs, RunState
<1>2. a <= b /\ b <= a
  BY DEF NextIs
<1> QED
  BY <1>1, <1>2

\* The anime that was being recorded is done with.
LEMMA RecordedOK ==
    ASSUME NEW x, NEW a, RunOK(x), Claims(x), x.pc = "record", NextIs(x, a)
    PROVE  /\ RunOK(AfterAnime(x, a))
           /\ Claims(AfterAnime(x, a))
           /\ AfterAnime(x, a).pc # "record"
           /\ AfterAnime(x, a).pending \subseteq x.pending \ {a}
           /\ AfterAnime(x, a).pc = "send" => AfterAnime(x, a).at = x.at
<1>1. x \in RunState /\ x.at # 0 /\ SentOnce(x) /\ a \in x.pending
  BY DEF RunOK, Claims, NextIs
<1>2. \A b \in x.pending : b \in x.used => b = a
  BY <1>1, NextIsUnique DEF Claims
<1> QED
  BY <1>1, <1>2, AfterAnimeOK
-----------------------------------------------------------------------------
(* 2. The steps of the system *)

TablesOK ==
    /\ eligible \subseteq Animes
    /\ posts \subseteq Animes \X Channels
    /\ shown \in [Animes \X Channels -> {"none", "one", "several"}]
    /\ lost \subseteq Animes \X Channels
    /\ cancelled \in BOOLEAN
    /\ crashes \in 0..MaxCrashes

LocalsOK ==
    /\ run \in [Runs -> RunState]
    /\ \A r \in Runs : RunOK(run[r]) /\ Claims(run[r])

\* A post that is about to be recorded is in the channel.
PostedIsShown ==
    \A r \in Runs, a \in Animes, c \in Channels :
        Current(r, "record", a, c) => shown[<<a, c>>] # "none"

IInv == TablesOK /\ LocalsOK /\ PostedIsShown /\ RecordedWasShown

LEMMA IInvImplies == IInv => TypeOK /\ RecordedWasShown /\ RunsDiversify
<1> SUFFICES ASSUME IInv PROVE TypeOK /\ RecordedWasShown /\ RunsDiversify
  OBVIOUS
<1>1. TypeOK
  BY DEF IInv, TablesOK, LocalsOK, RunOK, TypeOK
<1>2. RunsDiversify
  BY DEF IInv, LocalsOK, Claims, SentOnce, RunsDiversify
<1> QED
  BY <1>1, <1>2 DEF IInv

LEMMA OneRunChanges ==
    ASSUME LocalsOK, NEW r \in Runs, NEW y, RunOK(y), Claims(y),
           run' = [run EXCEPT ![r] = y]
    PROVE  LocalsOK'
<1>1. run' \in [Runs -> RunState] /\ run'[r] = y
  BY DEF LocalsOK, RunOK
<1>2. \A s \in Runs : s # r => run'[s] = run[s]
  BY DEF LocalsOK
<1>3. \A s \in Runs : RunOK(run'[s]) /\ Claims(run'[s])
  BY <1>1, <1>2 DEF LocalsOK
<1> QED
  BY <1>1, <1>3 DEF LocalsOK

\* A step of run r after which it is not about to record, that takes no post
\* out of a channel and records none that is not there.
LEMMA OneRunSteps ==
    ASSUME IInv, NEW r \in Runs, NEW y, RunOK(y), Claims(y), y.pc # "record",
           run' = [run EXCEPT ![r] = y], TablesOK',
           \A p \in Animes \X Channels : shown'[p] = "none" => shown[p] = "none",
           \A p \in posts' : p \in posts \/ shown[p] # "none"
    PROVE  IInv'
<1>1. LocalsOK'
  BY OneRunChanges DEF IInv
<1>2. run'[r] = y /\ \A s \in Runs : s # r => run'[s] = run[s]
  BY DEF IInv, LocalsOK
<1>3. PostedIsShown'
  <2> SUFFICES ASSUME NEW s \in Runs, NEW a \in Animes, NEW c \in Channels,
                      Current(s, "record", a, c)'
               PROVE  shown'[<<a, c>>] # "none"
    BY DEF PostedIsShown
  <2>1. s # r
    BY <1>2 DEF Current
  <2>2. Current(s, "record", a, c)
    BY <1>2, <2>1 DEF Current
  <2>3. shown[<<a, c>>] # "none"
    BY <2>2 DEF IInv, PostedIsShown
  <2> QED
    BY <2>3
<1>4. RecordedWasShown'
  BY DEF IInv, RecordedWasShown, TablesOK
<1> QED
  BY <1>1, <1>3, <1>4 DEF IInv

LEMMA Shows ==
    ASSUME TablesOK, NEW a \in Animes, NEW c \in Channels, Show(a, c)
    PROVE  /\ shown' \in [Animes \X Channels -> {"none", "one", "several"}]
           /\ shown'[<<a, c>>] # "none"
           /\ \A p \in Animes \X Channels :
                 shown'[p] = "none" => shown[p] = "none"
           /\ \A p \in Animes \X Channels :
                 p # <<a, c>> => shown'[p] = shown[p]
           /\ shown[<<a, c>>] = "none" => shown'[<<a, c>>] = "one"
<1>1. <<a, c>> \in Animes \X Channels
  OBVIOUS
<1> QED
  BY <1>1 DEF TablesOK, Show

LEMMA CurrentFacts ==
    ASSUME LocalsOK, NEW r \in Runs, NEW label, NEW a, NEW c, Current(r, label, a, c)
    PROVE  /\ RunOK(run[r]) /\ Claims(run[r]) /\ run[r].pc = label
           /\ NextIs(run[r], a) /\ c = Targets[run[r].at]
BY DEF LocalsOK, Current, NextIs

LEMMA InitInv == Init => IInv
<1> SUFFICES ASSUME Init PROVE IInv
  OBVIOUS
<1>1. \A r \in Runs : run[r] = Idle
  BY DEF Init
<1>2. LocalsOK
  BY <1>1, IdleOK DEF Init, LocalsOK, RunOK
<1>3. PostedIsShown
  BY <1>1 DEF PostedIsShown, Current, Idle
<1>4. crashes \in 0..MaxCrashes
  BY MaxCrashesIsNumber DEF Init
<1> QED
  BY <1>2, <1>3, <1>4 DEF Init, IInv, TablesOK, RecordedWasShown

LEMMA StartInv == ASSUME IInv, NEW r \in Runs, Start(r) PROVE IInv'
<1> DEFINE x == run[r]
           y == [x EXCEPT !.pc = "fetch", !.at = 1]
<1>1. RunOK(x) /\ Claims(x) /\ x.pc = "idle" /\ run' = [run EXCEPT ![r] = y]
  BY DEF IInv, LocalsOK, Start
<1>2. 1 \in DOMAIN Targets
  BY Positions, TargetsAreListed DEF Start
<1> HIDE DEF x
<1>3. /\ y \in RunState
      /\ y.pc = "fetch" /\ y.at = 1
      /\ y.pending = x.pending /\ y.used = x.used /\ y.sent = x.sent
  BY <1>1, <1>2 DEF RunOK, RunState
<1>4. RunOK(y)
  BY <1>1, <1>3 DEF RunOK
<1>5. Claims(y)
  BY <1>1, <1>3 DEF RunOK, Claims, SentOnce
<1>6. TablesOK' /\ shown' = shown /\ posts' = posts
  BY DEF IInv, TablesOK, Start
<1> HIDE DEF y
<1> QED
  BY <1>1, <1>3, <1>4, <1>5, <1>6, OneRunSteps

LEMMA FetchInv ==
    ASSUME IInv, NEW r \in Runs, NEW c \in Channels, Fetch(r, c)
    PROVE  IInv'
<1> DEFINE x == run[r]
           y == [x EXCEPT !.pc = "send", !.pending = Take(x, c)]
<1>1. RunOK(x) /\ Claims(x) /\ x.pc = "fetch" /\ eligible \subseteq Animes
  BY DEF IInv, LocalsOK, TablesOK, Fetch
<1>2. TablesOK' /\ shown' = shown /\ posts' = posts
  BY DEF IInv, TablesOK, Fetch
<1>3. CASE Take(x, c) = {}
  <2>1. run' = [run EXCEPT ![r] = AfterChannel(x)]
    BY <1>3 DEF Fetch
  <2>2. /\ RunOK(AfterChannel(x)) /\ Claims(AfterChannel(x))
        /\ AfterChannel(x).pc # "record"
    BY <1>1, AfterChannelOK DEF RunOK, Claims
  <2> QED
    BY <1>2, <2>1, <2>2, OneRunSteps
<1>4. CASE Take(x, c) # {}
  <2>1. run' = [run EXCEPT ![r] = y]
    BY <1>4 DEF Fetch
  <2>2. RunOK(y) /\ Claims(y)
    BY <1>1, <1>4, FetchOK
  <2>3. y.pc # "record"
    BY <1>1 DEF RunOK, RunState
  <2> HIDE DEF y
  <2> QED
    BY <1>2, <2>1, <2>2, <2>3, OneRunSteps
<1> QED
  BY <1>3, <1>4

LEMMA FetchFailsInv == ASSUME IInv, NEW r \in Runs, FetchFails(r) PROVE IInv'
<1> DEFINE x == run[r]
<1>1. /\ RunOK(x) /\ Claims(x) /\ x.pc = "fetch"
      /\ run' = [run EXCEPT ![r] = AfterChannel(x)]
  BY DEF IInv, LocalsOK, FetchFails
<1>2. /\ RunOK(AfterChannel(x)) /\ Claims(AfterChannel(x))
      /\ AfterChannel(x).pc # "record"
  BY <1>1, AfterChannelOK DEF RunOK, Claims
<1>3. TablesOK' /\ shown' = shown /\ posts' = posts
  BY DEF IInv, TablesOK, FetchFails
<1> QED
  BY <1>1, <1>2, <1>3, OneRunSteps

LEMMA SendInv ==
    ASSUME IInv, NEW r \in Runs, NEW a \in Animes, NEW c \in Channels,
           Send(r, a, c)
    PROVE  IInv'
<1> DEFINE x == run[r]
           y == [Posted(Claim(x, a), a, c) EXCEPT !.pc = "record"]
<1>1. /\ RunOK(x) /\ Claims(x) /\ x.pc = "send"
      /\ NextIs(x, a) /\ c = Targets[x.at]
  BY CurrentFacts DEF IInv, Send
<1>2. run' = [run EXCEPT ![r] = y] /\ Show(a, c)
  BY DEF Send
<1>3. RunOK(y) /\ Claims(y) /\ y.pc = "record" /\ y.at = x.at /\ y.pending = x.pending
  BY <1>1, SendOK
<1> HIDE DEF y
<1>4. LocalsOK'
  BY <1>2, <1>3, OneRunChanges DEF IInv
<1>5. run'[r] = y /\ \A s \in Runs : s # r => run'[s] = run[s]
  BY <1>2 DEF IInv, LocalsOK
<1>6. /\ shown' \in [Animes \X Channels -> {"none", "one", "several"}]
      /\ shown'[<<a, c>>] # "none"
      /\ \A p \in Animes \X Channels : shown'[p] = "none" => shown[p] = "none"
  BY <1>2, Shows DEF IInv
<1>7. TablesOK' /\ posts' = posts
  BY <1>6 DEF IInv, TablesOK, Send
<1>8. PostedIsShown'
  <2> SUFFICES ASSUME NEW s \in Runs, NEW b \in Animes, NEW d \in Channels,
                      Current(s, "record", b, d)'
               PROVE  shown'[<<b, d>>] # "none"
    BY DEF PostedIsShown
  <2>1. CASE s # r
    <3>1. Current(s, "record", b, d)
      BY <1>5, <2>1 DEF Current
    <3>2. shown[<<b, d>>] # "none"
      BY <3>1 DEF IInv, PostedIsShown
    <3> QED
      BY <1>6, <3>2
  <2>2. CASE s = r
    <3>1. NextIs(x, b) /\ d = Targets[x.at]
      BY <1>3, <1>5, <2>2 DEF Current, NextIs
    <3>2. b = a /\ d = c
      BY <1>1, <3>1, NextIsUnique DEF RunOK
    <3> QED
      BY <1>6, <3>2
  <2> QED
    BY <2>1, <2>2
<1>9. RecordedWasShown'
  BY <1>6, <1>7 DEF IInv, RecordedWasShown, TablesOK
<1> QED
  BY <1>4, <1>7, <1>8, <1>9 DEF IInv
LEMMA SendFailsInv ==
    ASSUME IInv, NEW r \in Runs, NEW a \in Animes, NEW c \in Channels,
           SendFails(r, a, c)
    PROVE  IInv'
<1> DEFINE x == run[r]
<1>1. /\ RunOK(x) /\ Claims(x) /\ x.pc = "send" /\ NextIs(x, a)
  BY CurrentFacts DEF IInv, SendFails
<1>2. ASSUME NEW y \in {Claim(x, a), Posted(Claim(x, a), a, c)}
      PROVE  /\ RunOK(AfterAnime(y, a)) /\ Claims(AfterAnime(y, a))
             /\ AfterAnime(y, a).pc # "record"
  <2>1. /\ y \in RunState /\ y.at # 0 /\ SentOnce(y) /\ y.pending = x.pending
        /\ \A b \in y.pending : b \in y.used => b = a
    BY <1>1, ClaimOK
  <2>2. a \in y.pending
    BY <1>1, <2>1 DEF NextIs
  <2> QED
    BY <2>1, <2>2, AfterAnimeOK
<1>3. CASE /\ run' = [run EXCEPT ![r] = AfterAnime(Claim(x, a), a)]
           /\ UNCHANGED <<shown, lost>>
  <2>1. TablesOK' /\ posts' = posts
    BY <1>3 DEF IInv, TablesOK, SendFails
  <2> QED
    BY <1>2, <1>3, <2>1, OneRunSteps
<1>4. CASE /\ run' = [run EXCEPT ![r] = AfterAnime(Posted(Claim(x, a), a, c), a)]
           /\ Show(a, c)
           /\ lost' = lost \cup {<<a, c>>}
  <2>1. /\ shown' \in [Animes \X Channels -> {"none", "one", "several"}]
        /\ \A p \in Animes \X Channels : shown'[p] = "none" => shown[p] = "none"
    BY <1>4, Shows DEF IInv
  <2>2. TablesOK' /\ posts' = posts
    BY <1>4, <2>1 DEF IInv, TablesOK, SendFails
  <2> QED
    BY <1>2, <1>4, <2>1, <2>2, OneRunSteps
<1> QED
  BY <1>3, <1>4 DEF SendFails

LEMMA RecordInv ==
    ASSUME IInv, NEW r \in Runs, NEW a \in Animes, NEW c \in Channels,
           Record(r, a, c) \/ RecordFails(r, a, c)
    PROVE  IInv'
<1> DEFINE x == run[r]
<1>1. Current(r, "record", a, c)
  BY DEF Record, RecordFails
<1>2. RunOK(x) /\ Claims(x) /\ x.pc = "record" /\ NextIs(x, a)
  BY <1>1, CurrentFacts DEF IInv
<1>3. /\ RunOK(AfterAnime(x, a)) /\ Claims(AfterAnime(x, a))
      /\ AfterAnime(x, a).pc # "record"
  BY <1>2, RecordedOK
<1>4. shown[<<a, c>>] # "none"
  BY <1>1 DEF IInv, PostedIsShown
<1>5. TablesOK' /\ shown' = shown /\ posts' \subseteq posts \cup {<<a, c>>}
  BY DEF IInv, TablesOK, Record, RecordFails
<1>6. run' = [run EXCEPT ![r] = AfterAnime(x, a)]
  BY DEF Record, RecordFails
<1> QED
  BY <1>3, <1>4, <1>5, <1>6, OneRunSteps

LEMMA KilledInv ==
    ASSUME IInv, Killed, crashes' \in 0..MaxCrashes
    PROVE  IInv'
<1>1. \A r \in Runs : run'[r] = Idle
  BY DEF Killed
<1>2. run' \in [Runs -> RunState]
  BY IdleOK DEF Killed, RunOK
<1>3. LocalsOK'
  BY <1>1, <1>2, IdleOK DEF LocalsOK
<1>4. PostedIsShown'
  BY <1>1 DEF PostedIsShown, Current, Idle
<1>5. TablesOK' /\ RecordedWasShown'
  BY DEF IInv, TablesOK, RecordedWasShown, Killed
<1> QED
  BY <1>3, <1>4, <1>5 DEF IInv

LEMMA OtherInv ==
    ASSUME IInv, Cancel \/ (\E a \in Animes : ChangeAnime(a)) \/ UNCHANGED vars
    PROVE  IInv'
<1>1. run' = run /\ shown' = shown /\ posts' = posts
  BY DEF Cancel, ChangeAnime, vars
<1>2. TablesOK'
  <2>1. CASE Cancel
    BY <2>1, MaxCrashesIsNumber DEF IInv, TablesOK, Cancel
  <2>2. CASE \E a \in Animes : ChangeAnime(a)
    BY <2>2 DEF IInv, TablesOK, ChangeAnime
  <2>3. CASE UNCHANGED vars
    BY <2>3 DEF IInv, TablesOK, vars
  <2> QED
    BY <2>1, <2>2, <2>3
<1>3. LocalsOK'
  BY <1>1 DEF IInv, LocalsOK
<1>4. PostedIsShown' /\ RecordedWasShown'
  BY <1>1 DEF IInv, PostedIsShown, RecordedWasShown, Current
<1> QED
  BY <1>2, <1>3, <1>4 DEF IInv

LEMMA NextInv == IInv /\ [Next]_vars => IInv'
<1> SUFFICES ASSUME IInv, [Next]_vars PROVE IInv'
  OBVIOUS
<1>1. ASSUME NEW r \in Runs, Start(r) PROVE IInv'
  BY <1>1, StartInv
<1>2. ASSUME NEW r \in Runs, Step(r) PROVE IInv'
  BY <1>2, FetchInv, FetchFailsInv, SendInv, SendFailsInv, RecordInv DEF Step
<1>3. CASE Crash
  <2>1. crashes' \in 0..MaxCrashes
    BY <1>3, MaxCrashesIsNumber DEF Crash, IInv, TablesOK
  <2> QED
    BY <1>3, <2>1, KilledInv DEF Crash
<1>4. CASE Exit
  <2>1. crashes' \in 0..MaxCrashes
    BY <1>4 DEF Exit, IInv, TablesOK
  <2> QED
    BY <1>4, <2>1, KilledInv DEF Exit
<1>5. CASE Cancel \/ (\E a \in Animes : ChangeAnime(a)) \/ UNCHANGED vars
  BY <1>5, OtherInv
<1> QED
  BY <1>1, <1>2, <1>3, <1>4, <1>5 DEF Next

-----------------------------------------------------------------------------
(* Results for every deployment, runs overlapping as they may *)

\* The strengthening that carries the results below holds in every state.
THEOREM Inductive == Spec => []IInv
<1>1. Init => IInv
  BY InitInv
<1>2. IInv /\ [Next]_vars => IInv'
  BY NextInv
<1> QED
  BY <1>1, <1>2, PTL DEF Spec

\* The variables of Publisher have their types.
THEOREM PublisherTypeCorrect == Spec => []TypeOK
<1>1. IInv => TypeOK
  BY IInvImplies
<1> QED
  BY <1>1, Inductive, PTL

\* An anime that channel_posts keeps from a channel (the NOT EXISTS of
\* PendingAnimeForPosting) was posted there, whatever runs overlap, whatever
\* calls fail and whenever the process stops.
THEOREM RecordsAreTrue == Spec => []RecordedWasShown
<1>1. IInv => RecordedWasShown
  BY IInvImplies
<1> QED
  BY <1>1, Inductive, PTL

\* No run of runForChannel over its channels posts an anime to two of them.
THEOREM ChannelsDiversify == Spec => []RunsDiversify
<1>1. IInv => RunsDiversify
  BY IInvImplies
<1> QED
  BY <1>1, Inductive, PTL

-----------------------------------------------------------------------------
(* 4. When runs do not overlap, a channel gets an anime again only if the  *)
(* record of an earlier post was lost.  Beside IInv, every post is accounted*)
(* for (it is recorded, lost, or about to be recorded), and no pending anime*)
(* has been recorded since it was fetched.  The latter is what overlapping *)
(* runs break.                                                             *)

Serial == \A r, s \in Runs : r = s

Pairs == Animes \X Channels

Accounted ==
    \A p \in Pairs :
        shown[p] # "none" =>
            p \in posts \/ p \in lost \/ \E r \in Runs : Current(r, "record", p[1], p[2])

PendingUnposted ==
    \A r \in Runs : \A a \in run[r].pending :
        <<a, Targets[run[r].at]>> \notin posts

SInv == IInv /\ Accounted /\ PendingUnposted /\ RepeatedOnlyIfLost

-----------------------------------------------------------------------------
\* What a step of the only run has to show.
LEMMA OnlyRunSteps ==
    ASSUME SInv, Serial, IInv', NEW r \in Runs, NEW y, run' = [run EXCEPT ![r] = y],
           \A b \in y.pending : <<b, Targets[y.at]>> \notin posts',
           \A p \in Pairs : shown'[p] # "none" =>
               p \in posts' \/ p \in lost' \/ Current(r, "record", p[1], p[2])',
           \A p \in Pairs : shown'[p] = "several" => p \in lost'
    PROVE  SInv'
<1>1. run'[r] = y /\ \A s \in Runs : s = r
  BY DEF SInv, IInv, LocalsOK, Serial
<1>2. PendingUnposted'
  BY <1>1 DEF PendingUnposted
<1>3. Accounted'
  BY DEF Accounted
<1>4. RepeatedOnlyIfLost'
  BY DEF RepeatedOnlyIfLost, Pairs
<1> QED
  BY <1>2, <1>3, <1>4 DEF SInv

\* While the only run is not about to record, every post is recorded or lost.
LEMMA SettledPosts ==
    ASSUME SInv, Serial, NEW r \in Runs, run[r].pc # "record", NEW p \in Pairs,
           shown[p] # "none"
    PROVE  p \in posts \/ p \in lost
BY DEF SInv, Accounted, Serial, Current

\* While it is, the post that is recorded may be neither.
LEMMA UnsettledPost ==
    ASSUME SInv, Serial, NEW r \in Runs, NEW a \in Animes, NEW c \in Channels,
           Current(r, "record", a, c), NEW p \in Pairs, shown[p] # "none"
    PROVE  p \in posts \/ p \in lost \/ p = <<a, c>>
<1> SUFFICES ASSUME p \notin posts, p \notin lost PROVE p = <<a, c>>
  OBVIOUS
<1>1. PICK s \in Runs : Current(s, "record", p[1], p[2])
  BY DEF SInv, Accounted
<1>2. s = r
  BY DEF Serial
<1>3. /\ RunOK(run[r]) /\ NextIs(run[r], a) /\ c = Targets[run[r].at]
      /\ NextIs(run[r], p[1]) /\ p[2] = Targets[run[r].at]
  BY <1>1, <1>2, CurrentFacts DEF SInv, IInv
<1>4. p[1] = a
  BY <1>3, NextIsUnique DEF RunOK
<1> QED
  BY <1>3, <1>4 DEF Pairs

LEMMA PendingNow ==
    ASSUME SInv, NEW r \in Runs, NEW label, NEW a, NEW c, Current(r, label, a, c)
    PROVE  /\ c = Targets[run[r].at]
           /\ \A b \in run[r].pending : <<b, c>> \notin posts
           /\ <<a, c>> \notin posts
BY DEF SInv, PendingUnposted, Current

\* Nothing is pending once the run has done with the last anime of a channel.
LEMMA AfterAnimePending ==
    ASSUME NEW x, NEW y, RunOK(y), y.pc # "record", y.pending \subseteq x.pending,
           y.pc = "send" => y.at = x.at, NEW b \in y.pending
    PROVE  b \in x.pending /\ y.at = x.at
BY DEF RunOK

LEMMA SInitInv == Init => SInv
<1> SUFFICES ASSUME Init PROVE SInv
  OBVIOUS
<1>1. IInv
  BY InitInv
<1>2. Accounted /\ PendingUnposted /\ RepeatedOnlyIfLost
  BY DEF Init, Accounted, PendingUnposted, RepeatedOnlyIfLost, Idle, Pairs
<1> QED
  BY <1>1, <1>2 DEF SInv

LEMMA SStartInv ==
    ASSUME SInv, IInv', Serial, NEW r \in Runs, Start(r)
    PROVE  SInv'
<1> DEFINE y == [run[r] EXCEPT !.pc = "fetch", !.at = 1]
<1>1. run' = [run EXCEPT ![r] = y] /\ run[r].pc = "idle"
  BY DEF Start
<1>2. run[r] \in RunState /\ run[r].pending = {}
  BY <1>1 DEF SInv, IInv, LocalsOK, RunOK
<1>3. y.pending = {}
  BY <1>2 DEF RunState
<1>4. shown' = shown /\ posts' = posts /\ lost' = lost
  BY DEF Start
<1>5. \A p \in Pairs : shown[p] = "several" => p \in lost
  BY DEF SInv, RepeatedOnlyIfLost, Pairs
<1>6. \A p \in Pairs : shown[p] # "none" => p \in posts \/ p \in lost
  BY <1>1, SettledPosts
<1> HIDE DEF y
<1> QED
  BY <1>1, <1>3, <1>4, <1>5, <1>6, OnlyRunSteps

LEMMA SFetchInv ==
    ASSUME SInv, IInv', Serial, NEW r \in Runs,
           FetchFails(r) \/ \E c \in Channels : Fetch(r, c)
    PROVE  SInv'
<1> DEFINE x == run[r]
<1>1. RunOK(x) /\ Claims(x) /\ x.pc = "fetch"
  BY DEF SInv, IInv, LocalsOK, Fetch, FetchFails
<1>2. shown' = shown /\ posts' = posts /\ lost' = lost
  BY DEF Fetch, FetchFails
<1>3. \A p \in Pairs : shown[p] = "several" => p \in lost
  BY DEF SInv, RepeatedOnlyIfLost, Pairs
<1>4. \A p \in Pairs : shown[p] # "none" => p \in posts \/ p \in lost
  BY <1>1, SettledPosts
<1>5. AfterChannel(x).pending = {}
  BY <1>1, AfterChannelOK DEF RunOK, Claims
<1>6. CASE run' = [run EXCEPT ![r] = AfterChannel(x)]
  BY <1>2, <1>3, <1>4, <1>5, <1>6, OnlyRunSteps
<1>7. ASSUME NEW c \in Channels, Fetch(r, c), Take(x, c) # {}
      PROVE  SInv'
  <2> DEFINE y == [x EXCEPT !.pc = "send", !.pending = Take(x, c)]
  <2>1. run' = [run EXCEPT ![r] = y] /\ c = Targets[x.at]
    BY <1>7 DEF Fetch
  <2>2. y.pending = Take(x, c) /\ y.at = x.at
    BY <1>1 DEF RunOK, RunState
  <2>3. \A b \in y.pending : <<b, Targets[y.at]>> \notin posts
    BY <2>1, <2>2, TakeUnclaimed
  <2> HIDE DEF y
  <2> QED
    BY <1>2, <1>3, <1>4, <2>1, <2>3, OnlyRunSteps
<1> QED
  BY <1>6, <1>7 DEF Fetch, FetchFails

LEMMA SSendInv ==
    ASSUME SInv, IInv', Serial, NEW r \in Runs, NEW a \in Animes, NEW c \in Channels,
           Send(r, a, c)
    PROVE  SInv'
<1> DEFINE x == run[r]
           y == [Posted(Claim(x, a), a, c) EXCEPT !.pc = "record"]
<1>1. /\ RunOK(x) /\ Claims(x) /\ x.pc = "send"
      /\ NextIs(x, a) /\ c = Targets[x.at]
  BY CurrentFacts DEF SInv, IInv, Send
<1>2. \A b \in x.pending : <<b, c>> \notin posts
  BY PendingNow DEF Send
<1>3. <<a, c>> \in Pairs /\ <<a, c>> \notin posts
  <2>1. a \in x.pending
    BY <1>1 DEF NextIs
  <2> QED
    BY <1>2, <2>1 DEF Pairs
<1>4. /\ run' = [run EXCEPT ![r] = y]
      /\ posts' = posts /\ lost' = lost
  BY DEF Send
<1>5. RunOK(y) /\ Claims(y) /\ y.pc = "record" /\ y.at = x.at /\ y.pending = x.pending
  BY <1>1, SendOK
<1> HIDE DEF y
<1>6. /\ \A p \in Pairs : p # <<a, c>> => shown'[p] = shown[p]
      /\ shown[<<a, c>>] = "none" => shown'[<<a, c>>] = "one"
  BY Shows DEF SInv, IInv, Send, Pairs
<1>7. \A p \in Pairs : shown[p] # "none" => p \in posts \/ p \in lost
  BY <1>1, SettledPosts
<1>8. Current(r, "record", a, c)'
  <2>1. run'[r] = y
    BY <1>4 DEF SInv, IInv, LocalsOK
  <2> QED
    BY <1>1, <1>5, <2>1 DEF Current, NextIs
<1>9. \A p \in Pairs : shown'[p] = "several" => p \in lost'
  <2>1. \A p \in Pairs : shown[p] = "several" => p \in lost
    BY DEF SInv, RepeatedOnlyIfLost, Pairs
  <2>2. shown'[<<a, c>>] = "several" => <<a, c>> \in lost
    BY <1>3, <1>6, <1>7
  <2> QED
    BY <1>4, <1>6, <2>1, <2>2
<1>10. \A p \in Pairs : shown'[p] # "none" =>
          p \in posts' \/ p \in lost' \/ Current(r, "record", p[1], p[2])'
  BY <1>4, <1>6, <1>7, <1>8
<1>11. \A b \in y.pending : <<b, Targets[y.at]>> \notin posts'
  BY <1>1, <1>2, <1>4, <1>5
<1> QED
  BY <1>4, <1>9, <1>10, <1>11, OnlyRunSteps

LEMMA SSendFailsInv ==
    ASSUME SInv, IInv', Serial, NEW r \in Runs, NEW a \in Animes, NEW c \in Channels,
           SendFails(r, a, c)
    PROVE  SInv'
<1> DEFINE x == run[r]
<1>1. /\ RunOK(x) /\ Claims(x) /\ x.pc = "send"
      /\ NextIs(x, a) /\ c = Targets[x.at]
  BY CurrentFacts DEF SInv, IInv, SendFails
<1>2. \A b \in x.pending : <<b, c>> \notin posts
  BY PendingNow DEF SendFails
<1>3. ASSUME NEW z \in {Claim(x, a), Posted(Claim(x, a), a, c)},
             NEW b \in AfterAnime(z, a).pending
      PROVE  <<b, Targets[AfterAnime(z, a).at]>> \notin posts
  <2>1. /\ z \in RunState /\ z.at # 0 /\ SentOnce(z)
        /\ z.pending = x.pending /\ z.at = x.at
        /\ \A d \in z.pending : d \in z.used => d = a
    BY <1>1, ClaimOK
  <2>2. a \in z.pending
    BY <1>1, <2>1 DEF NextIs
  <2>3. b \in z.pending /\ AfterAnime(z, a).at = z.at
    BY <2>1, <2>2, AfterAnimeOK, AfterAnimePending
  <2> QED
    BY <1>1, <1>2, <2>1, <2>3
<1>4. posts' = posts
  BY DEF SendFails
<1>5. \A p \in Pairs : shown[p] = "several" => p \in lost
  BY DEF SInv, RepeatedOnlyIfLost, Pairs
<1>6. \A p \in Pairs : shown[p] # "none" => p \in posts \/ p \in lost
  BY <1>1, SettledPosts
<1>7. CASE /\ run' = [run EXCEPT ![r] = AfterAnime(Claim(x, a), a)]
           /\ UNCHANGED <<shown, lost>>
  BY <1>3, <1>4, <1>5, <1>6, <1>7, OnlyRunSteps
<1>8. CASE /\ run' = [run EXCEPT ![r] = AfterAnime(Posted(Claim(x, a), a, c), a)]
           /\ Show(a, c)
           /\ lost' = lost \cup {<<a, c>>}
  <2>1. \A p \in Pairs : p # <<a, c>> => shown'[p] = shown[p]
    BY <1>8, Shows DEF SInv, IInv, Pairs
  <2> QED
    BY <1>3, <1>4, <1>5, <1>6, <1>8, <2>1, OnlyRunSteps
<1> QED
  BY <1>7, <1>8 DEF SendFails

LEMMA SRecordInv ==
    ASSUME SInv, IInv', Serial, NEW r \in Runs, NEW a \in Animes, NEW c \in Channels,
           Record(r, a, c) \/ RecordFails(r, a, c)
    PROVE  SInv'
<1> DEFINE x == run[r]
           y == AfterAnime(x, a)
<1>1. Current(r, "record", a, c)
  BY DEF Record, RecordFails
<1>2. /\ RunOK(x) /\ Claims(x) /\ x.pc = "record"
      /\ NextIs(x, a) /\ c = Targets[x.at]
  BY <1>1, CurrentFacts DEF SInv, IInv
<1>3. \A b \in x.pending : <<b, c>> \notin posts
  BY <1>1, PendingNow
<1>4. /\ RunOK(y) /\ y.pc # "record"
      /\ y.pending \subseteq x.pending \ {a}
      /\ y.pc = "send" => y.at = x.at
  BY <1>2, RecordedOK
<1>5. /\ run' = [run EXCEPT ![r] = y] /\ shown' = shown
      /\ \/ posts' = posts \cup {<<a, c>>} /\ lost' = lost
         \/ posts' = posts /\ lost' = lost \cup {<<a, c>>}
  BY DEF Record, RecordFails
<1> HIDE DEF y
<1>6. \A b \in y.pending : b \in x.pending /\ b # a /\ y.at = x.at
  BY <1>4, AfterAnimePending
<1>7. \A b \in y.pending : <<b, Targets[y.at]>> \notin posts'
  BY <1>2, <1>3, <1>5, <1>6
<1>8. \A p \in Pairs : shown[p] = "several" => p \in lost
  BY DEF SInv, RepeatedOnlyIfLost, Pairs
<1>9. \A p \in Pairs : shown[p] # "none" => p \in posts \/ p \in lost \/ p = <<a, c>>
  BY <1>1, UnsettledPost
<1> QED
  BY <1>5, <1>7, <1>8, <1>9, OnlyRunSteps

LEMMA SKilledInv == ASSUME SInv, IInv', Killed PROVE SInv'
<1>1. \A r \in Runs : run'[r] = Idle
  BY DEF Killed
<1>2. /\ shown' = shown /\ posts' = posts /\ lost \subseteq lost'
      /\ \A p \in Pairs : \A r \in Runs : Current(r, "record", p[1], p[2]) => p \in lost'
  BY DEF Killed, Pairs
<1>3. PendingUnposted'
  BY <1>1 DEF PendingUnposted, Idle
<1>4. Accounted'
  BY <1>2 DEF SInv, Accounted
<1>5. RepeatedOnlyIfLost'
  BY <1>2 DEF SInv, RepeatedOnlyIfLost
<1> QED
  BY <1>3, <1>4, <1>5 DEF SInv

LEMMA SOtherInv ==
    ASSUME SInv, IInv',
           Cancel \/ (\E a \in Animes : ChangeAnime(a)) \/ UNCHANGED vars
    PROVE  SInv'
<1>1. run' = run /\ shown' = shown /\ posts' = posts /\ lost' = lost
  BY DEF Cancel, ChangeAnime, vars
<1>2. PendingUnposted' /\ RepeatedOnlyIfLost'
  BY <1>1 DEF SInv, PendingUnposted, RepeatedOnlyIfLost
<1>3. Accounted'
  BY <1>1 DEF SInv, Accounted, Current
<1> QED
  BY <1>2, <1>3 DEF SInv

LEMMA SNextInv == ASSUME Serial PROVE SInv /\ [Next]_vars => SInv'
<1> SUFFICES ASSUME SInv, [Next]_vars PROVE SInv'
  OBVIOUS
<1> IInv'
  BY NextInv DEF SInv
<1>1. ASSUME NEW r \in Runs, Start(r) PROVE SInv'
  BY <1>1, SStartInv
<1>2. ASSUME NEW r \in Runs, Step(r) PROVE SInv'
  BY <1>2, SFetchInv, SSendInv, SSendFailsInv, SRecordInv DEF Step
<1>3. CASE Crash \/ Exit
  BY <1>3, SKilledInv DEF Crash, Exit
<1>4. CASE Cancel \/ (\E a \in Animes : ChangeAnime(a)) \/ UNCHANGED vars
  BY <1>4, SOtherInv
<1> QED
  BY <1>1, <1>2, <1>3, <1>4 DEF Next

-----------------------------------------------------------------------------
(* Results *)

\* With runs that do not overlap, the comment above Run holds but for lost
\* records: the same channel repeats an anime only if some earlier post of it
\* there could not be recorded.
THEOREM SerialRepeatedOnlyIfLost ==
    ASSUME Serial
    PROVE  Spec => []RepeatedOnlyIfLost
<1>1. Init => SInv
  BY SInitInv
<1>2. SInv /\ [Next]_vars => SInv'
  BY SNextInv
<1>3. SInv => RepeatedOnlyIfLost
  BY DEF SInv
<1> QED
  BY <1>1, <1>2, <1>3, PTL DEF Spec

\* With runs that do not overlap, a recorded post is never repeated: the next
\* anime of a run has no row in channel_posts when it is sent.
THEOREM SerialRecordedNotRepeated ==
    ASSUME Serial
    PROVE  Spec => RecordedNotRepeated
<1>1. Init => SInv
  BY SInitInv
<1>2. SInv /\ [Next]_vars => SInv'
  BY SNextInv
<1>3. SInv /\ [Next]_vars => [\A p \in posts : shown'[p] = shown[p]]_vars
  <2> SUFFICES ASSUME SInv, Next, NEW p \in posts PROVE shown'[p] = shown[p]
    BY DEF vars
  <2>1. p \in Pairs
    BY DEF SInv, IInv, TablesOK, Pairs
  <2>2. ASSUME NEW a \in Animes, NEW c \in Channels, NEW r \in Runs,
               Current(r, "send", a, c), Show(a, c)
        PROVE  shown'[p] = shown[p]
    <3>1. p # <<a, c>>
      BY <2>2, PendingNow
    <3> QED
      BY <2>1, <2>2, <3>1, Shows DEF SInv, IInv, Pairs
  <2>3. ASSUME NEW r \in Runs, Start(r) \/ Step(r)
        PROVE  shown'[p] = shown[p]
    BY <2>2, <2>3 DEF Start, Step, Fetch, FetchFails, Send, SendFails, Record,
                      RecordFails
  <2>4. CASE Crash \/ Exit \/ Cancel \/ \E a \in Animes : ChangeAnime(a)
    BY <2>4 DEF Crash, Exit, Killed, Cancel, ChangeAnime
  <2> QED
    BY <2>3, <2>4 DEF Next
<1> QED
  BY <1>1, <1>2, <1>3, PTL DEF Spec, RecordedNotRepeated

-----------------------------------------------------------------------------
(* 5. How much a run posts.  At every position of Targets a run may claim  *)
(* PostsPerRun animes, and what it claims there it posts there or nowhere. *)

\* There is no induction over sets here; the least element of a set of
\* naturals takes its place.
LEMMA LeastNumber ==
    ASSUME NEW S \in SUBSET Nat, S # {}
    PROVE  \E n \in S : \A m \in S : n <= m
<1> DEFINE R == {p \in Nat \X Nat : p[1] < p[2]}
<1>1. IsWellFoundedOn(R, Nat)
  BY NatLessThanWellFounded, Zenon DEF OpToRel
<1>2. PICK n \in S : \A m \in S : <<m, n>> \notin R
  <2> HIDE DEF R
  <2> QED
    BY <1>1, WFMin, Zenon
<1>3. \A m \in S : ~ (m < n)
  BY <1>2
<1> QED
  BY <1>3

LEMMA FiniteAnimes ==
    ASSUME NEW S, S \subseteq Animes
    PROVE  IsFiniteSet(S) /\ Cardinality(S) \in Nat
  BY AnimesAreNumbered, FS_Subset, FS_CardinalityType

LEMMA FewerAnimes ==
    ASSUME NEW S, NEW T, S \subseteq T, T \subseteq Animes
    PROVE  Cardinality(S) <= Cardinality(T)
  BY FiniteAnimes, FS_Subset

LEMMA UnionOfAnimes ==
    ASSUME NEW S, NEW T, S \subseteq Animes, T \subseteq Animes
    PROVE  Cardinality(S \cup T) <= Cardinality(S) + Cardinality(T)
<1>1. Cardinality(S \cup T) = Cardinality(S) + Cardinality(T) - Cardinality(S \cap T)
  BY FiniteAnimes, FS_Union
<1>2. /\ Cardinality(S) \in Nat /\ Cardinality(T) \in Nat
      /\ Cardinality(S \cap T) \in Nat
  <2>1. S \cap T \subseteq Animes
    OBVIOUS
  <2> QED
    BY <2>1, FiniteAnimes
<1> QED
  BY <1>1, <1>2

\* The animes of S before anime a.
Earlier(S, a) == {b \in S : b < a}

LEMMA OldestEarlier ==
    ASSUME NEW S, S \subseteq Animes, NEW k
    PROVE  /\ Oldest(S, k) = {a \in S : Cardinality(Earlier(S, a)) < k}
           /\ \A a : Earlier(S, a) \subseteq Animes
           /\ \A a : Cardinality(Earlier(S, a)) \in Nat
           /\ \A a \in S : /\ Earlier(S, a) \cup {a} \subseteq Animes
                           /\ Cardinality(Earlier(S, a) \cup {a}) =
                                 Cardinality(Earlier(S, a)) + 1
<1>1. Oldest(S, k) = {a \in S : Cardinality(Earlier(S, a)) < k}
  BY DEF Oldest, Earlier
<1>2. ASSUME NEW a
      PROVE  /\ Earlier(S, a) \subseteq Animes
             /\ IsFiniteSet(Earlier(S, a))
             /\ Cardinality(Earlier(S, a)) \in Nat
  <2>1. Earlier(S, a) \subseteq Animes
    BY DEF Earlier
  <2> QED
    BY <2>1, FiniteAnimes
<1>3. ASSUME NEW a \in S
      PROVE  /\ Earlier(S, a) \cup {a} \subseteq Animes
             /\ Cardinality(Earlier(S, a) \cup {a}) = Cardinality(Earlier(S, a)) + 1
  <2>1. a \notin Earlier(S, a)
    BY AnimesAreNumbered DEF Earlier
  <2> QED
    BY <1>2, <2>1, FS_AddElement
<1> QED
  BY <1>1, <1>2, <1>3

\* No more than the limit are returned: the last of them has fewer before it.
LEMMA OldestAtMost ==
    ASSUME NEW S, S \subseteq Animes, NEW k \in Nat
    PROVE  Cardinality(Oldest(S, k)) <= k
<1> DEFINE left == {k - Cardinality(Earlier(S, a)) : a \in Oldest(S, k)}
<1>1. \A a \in Oldest(S, k) : a \in S /\ Cardinality(Earlier(S, a)) < k
  BY OldestEarlier
<1>2. \A a : Cardinality(Earlier(S, a)) \in Nat
  BY OldestEarlier
<1>3. CASE Oldest(S, k) = {}
  BY <1>3, FS_EmptySet
<1>4. CASE Oldest(S, k) # {}
  <2>1. left \in SUBSET Nat
    BY <1>1, <1>2
  <2>2. left # {}
    BY <1>4
  <2>3. PICK n \in left : \A m \in left : n <= m
    <3> HIDE DEF left
    <3> QED
      BY <2>1, <2>2, LeastNumber
  <2>4. PICK last \in Oldest(S, k) : n = k - Cardinality(Earlier(S, last))
    BY <2>3
  <2>5. ASSUME NEW a \in Oldest(S, k)
        PROVE  Cardinality(Earlier(S, a)) <= Cardinality(Earlier(S, last))
    <3>1. k - Cardinality(Earlier(S, a)) \in left
      OBVIOUS
    <3>2. n <= k - Cardinality(Earlier(S, a))
      BY <2>3, <3>1
    <3> HIDE DEF left
    <3> QED
      BY <1>2, <2>4, <3>2
  <2>6. last \in S /\ last \in Nat
    BY <1>1, AnimesAreNumbered
  <2>7. ASSUME NEW a \in Oldest(S, k), last < a
        PROVE  FALSE
    <3>1. a \in S /\ a \in Nat
      BY <1>1, AnimesAreNumbered
    <3>2. \A b \in Earlier(S, last) \cup {last} : b \in Nat /\ b \in S /\ b < a
      BY <2>6, <2>7, <3>1, AnimesAreNumbered DEF Earlier
    <3>3. Earlier(S, last) \cup {last} \subseteq Earlier(S, a)
      BY <3>2 DEF Earlier
    <3>4. Cardinality(Earlier(S, last) \cup {last}) <= Cardinality(Earlier(S, a))
      BY <3>3, FewerAnimes, OldestEarlier
    <3>5. Cardinality(Earlier(S, last) \cup {last}) = Cardinality(Earlier(S, last)) + 1
      BY <2>6, OldestEarlier
    <3> QED
      BY <1>2, <2>5, <3>4, <3>5
  <2>8. \A a \in Oldest(S, k) : a \in S /\ a \in Nat /\ ~(last < a)
    BY <1>1, <2>7, AnimesAreNumbered
  <2>9. Oldest(S, k) \subseteq Earlier(S, last) \cup {last}
    BY <2>6, <2>8 DEF Earlier
  <2>10. /\ Earlier(S, last) \cup {last} \subseteq Animes
         /\ Cardinality(Earlier(S, last) \cup {last}) = Cardinality(Earlier(S, last)) + 1
    BY <2>6, OldestEarlier
  <2>11. Cardinality(Oldest(S, k)) <= Cardinality(Earlier(S, last) \cup {last})
    BY <2>9, <2>10, FewerAnimes
  <2>12. Cardinality(Oldest(S, k)) \in Nat
    <3>1. Oldest(S, k) \subseteq Animes
      BY <1>1
    <3> QED
      BY <3>1, FiniteAnimes
  <2>13. Cardinality(Earlier(S, last)) < k
    BY <1>1
  <2> QED
    BY <1>2, <2>10, <2>11, <2>12, <2>13
<1> QED
  BY <1>3, <1>4

\* Fewer than the limit are returned only if there are no more: before the
\* oldest that is left out there are as many as the limit.
LEMMA OldestFills ==
    ASSUME NEW S, S \subseteq Animes, NEW k \in Nat, Oldest(S, k) # S
    PROVE  k <= Cardinality(Oldest(S, k))
<1>1. Oldest(S, k) \subseteq S
  BY OldestEarlier
<1>2. PICK a \in S \ Oldest(S, k) : \A b \in S \ Oldest(S, k) : a <= b
  <2>1. S \ Oldest(S, k) \in SUBSET Nat /\ S \ Oldest(S, k) # {}
    BY <1>1, AnimesAreNumbered
  <2> QED
    BY <2>1, LeastNumber
<1>3. \A b \in S : b \in Nat /\ (b < a => b \in Oldest(S, k))
  <2>1. a \in Nat /\ \A b \in S : b \in Nat
    BY AnimesAreNumbered
  <2> QED
    BY <1>2, <2>1
<1>4. Earlier(S, a) \subseteq Oldest(S, k)
  BY <1>3 DEF Earlier
<1>5. ~(Cardinality(Earlier(S, a)) < k)
  BY <1>2, OldestEarlier
<1>6. Oldest(S, k) \subseteq Animes
  BY <1>1
<1>7. Cardinality(Earlier(S, a)) <= Cardinality(Oldest(S, k))
  BY <1>4, <1>6, FewerAnimes
<1>8. Cardinality(Earlier(S, a)) \in Nat /\ Cardinality(Oldest(S, k)) \in Nat
  BY <1>6, FiniteAnimes, OldestEarlier
<1> QED
  BY <1>5, <1>7, <1>8

-----------------------------------------------------------------------------
\* The animes posted to channel c; the positions up to k at which c is listed.
PostedTo(sent, c) == {a \in Animes : <<a, c>> \in sent}
Places(c, k) == {i \in 1..k : Targets[i] = c}

\* What may be claimed and posted at the first k positions.
Within(used, sent, k) ==
    /\ used \subseteq Animes
    /\ k \in 0..Len(Targets)
    /\ Cardinality(used) <= PostsPerRun * k
    /\ \A c \in Channels :
          Cardinality(PostedTo(sent, c)) <= PostsPerRun * Cardinality(Places(c, k))

\* What run x has claimed and posted, and still may at this position.
Quota(x) ==
    /\ x.pc = "idle" => x.used = {} /\ x.sent = {}
    /\ x.pc = "fetch" => Within(x.used, x.sent, x.at - 1)
    /\ x.pc \in {"send", "record"} =>
          Within(x.used \cup x.pending,
                 x.sent \cup (x.pending \X {Targets[x.at]}), x.at)

Quotas == \A r \in Runs : Quota(run[r])

LEMMA PlacesCounted ==
    ASSUME NEW c, NEW k \in Nat
    PROVE  /\ IsFiniteSet(Places(c, k))
           /\ Cardinality(Places(c, k)) \in Nat
           /\ Cardinality(Places(c, k + 1)) =
                 IF Targets[k + 1] = c
                 THEN Cardinality(Places(c, k)) + 1
                 ELSE Cardinality(Places(c, k))
<1>1. IsFiniteSet(Places(c, k))
  <2>1. IsFiniteSet(1..k)
    BY FS_Interval
  <2>2. Places(c, k) \subseteq 1..k
    BY DEF Places
  <2> QED
    BY <2>1, <2>2, FS_Subset
<1>2. CASE Targets[k + 1] = c
  <2>1. Places(c, k + 1) = Places(c, k) \cup {k + 1} /\ k + 1 \notin Places(c, k)
    BY <1>2 DEF Places
  <2> QED
    BY <1>1, <1>2, <2>1, FS_AddElement, FS_CardinalityType
<1>3. CASE Targets[k + 1] # c
  <2>1. Places(c, k + 1) = Places(c, k)
    BY <1>3 DEF Places
  <2> QED
    BY <1>1, <1>3, <2>1, FS_CardinalityType
<1> QED
  BY <1>2, <1>3

LEMMA Multiplied ==
    ASSUME NEW m \in Nat, NEW n \in Nat, m <= n
    PROVE  /\ PostsPerRun * m \in Nat
           /\ PostsPerRun * n \in Nat
           /\ PostsPerRun * m <= PostsPerRun * n
           /\ PostsPerRun * (n + 1) = PostsPerRun * n + PostsPerRun
  BY PostsPerRunPositive

LEMMA WithinLess ==
    ASSUME NEW U, NEW S, NEW V, NEW T, NEW k, Within(U, S, k),
           V \subseteq U, T \subseteq S
    PROVE  Within(V, T, k)
<1>1. Cardinality(V) <= PostsPerRun * k
  <2>1. /\ Cardinality(V) <= Cardinality(U)
        /\ Cardinality(V) \in Nat /\ Cardinality(U) \in Nat
    BY FewerAnimes, FiniteAnimes DEF Within
  <2> QED
    BY <2>1, Positions, PostsPerRunPositive DEF Within
<1>2. ASSUME NEW c \in Channels
      PROVE  Cardinality(PostedTo(T, c)) <= PostsPerRun * Cardinality(Places(c, k))
  <2>1. PostedTo(T, c) \subseteq PostedTo(S, c) /\ PostedTo(S, c) \subseteq Animes
    BY DEF PostedTo
  <2>2. /\ Cardinality(PostedTo(T, c)) <= Cardinality(PostedTo(S, c))
        /\ Cardinality(PostedTo(T, c)) \in Nat /\ Cardinality(PostedTo(S, c)) \in Nat
    BY <2>1, FewerAnimes, FiniteAnimes
  <2>3. PostsPerRun * Cardinality(Places(c, k)) \in Nat
    BY PlacesCounted, PostsPerRunPositive, Positions, SMTT(30) DEF Within
  <2> QED
    BY <2>2, <2>3 DEF Within
<1> QED
  BY <1>1, <1>2 DEF Within

LEMMA WithinNext ==
    ASSUME NEW U, NEW S, NEW k, Within(U, S, k), k < Len(Targets),
           NEW T, T \subseteq Animes, Cardinality(T) <= PostsPerRun
    PROVE  Within(U \cup T, S \cup (T \X {Targets[k + 1]}), k + 1)
<1>0. k \in Nat /\ k + 1 \in 0..Len(Targets)
  BY Positions DEF Within
<1>1. Cardinality(U \cup T) <= PostsPerRun * (k + 1)
  <2>1. Cardinality(U \cup T) <= Cardinality(U) + Cardinality(T)
    BY UnionOfAnimes DEF Within
  <2>2. /\ Cardinality(U \cup T) \in Nat /\ Cardinality(U) \in Nat
        /\ Cardinality(T) \in Nat
    <3>1. U \cup T \subseteq Animes /\ U \subseteq Animes
      BY DEF Within
    <3> QED
      BY <3>1, FiniteAnimes
  <2>3. Cardinality(U) <= PostsPerRun * k
    BY DEF Within
  <2>4. /\ PostsPerRun * (k + 1) = PostsPerRun * k + PostsPerRun
        /\ PostsPerRun * k \in Nat
    BY <1>0, Multiplied
  <2> QED
    BY <2>1, <2>2, <2>3, <2>4, PostsPerRunPositive
<1>2. ASSUME NEW c \in Channels
      PROVE  Cardinality(PostedTo(S \cup (T \X {Targets[k + 1]}), c))
                <= PostsPerRun * Cardinality(Places(c, k + 1))
  <2> DEFINE P == PostedTo(S, c)
             Q == PostedTo(S \cup (T \X {Targets[k + 1]}), c)
             n == Cardinality(Places(c, k))
  <2>1. P \subseteq Animes /\ Q \subseteq Animes
    BY DEF PostedTo
  <2>2. /\ Cardinality(P) \in Nat /\ Cardinality(Q) \in Nat
        /\ Cardinality(T) \in Nat
    BY <2>1, FiniteAnimes
  <2>3. Cardinality(P) <= PostsPerRun * n
    BY DEF Within
  <2>4. n \in Nat /\ PostsPerRun * n \in Nat
    BY <1>0, PlacesCounted, PostsPerRunPositive
  <2>5. CASE Targets[k + 1] = c
    <3>1. Q = P \cup T
      BY <2>5 DEF PostedTo
    <3>2. Cardinality(Q) <= Cardinality(P) + Cardinality(T)
      BY <2>1, <3>1, UnionOfAnimes
    <3>3. Cardinality(Places(c, k + 1)) = n + 1
      BY <1>0, <2>5, PlacesCounted
    <3>4. PostsPerRun * (n + 1) = PostsPerRun * n + PostsPerRun
      BY <2>4, Multiplied
    <3> HIDE DEF P, Q, n
    <3>5. Cardinality(Q) <= PostsPerRun * (n + 1)
      BY <2>2, <2>3, <2>4, <3>2, <3>4, PostsPerRunPositive
    <3> QED
      BY <3>3, <3>5 DEF Q
  <2>6. CASE Targets[k + 1] # c
    <3>1. Q = P
      BY <2>6 DEF PostedTo
    <3>2. Cardinality(Places(c, k + 1)) = n
      BY <1>0, <2>6, PlacesCounted
    <3> QED
      BY <2>3, <3>1, <3>2
  <2> QED
    BY <2>5, <2>6
<1> QED
  BY <1>0, <1>1, <1>2 DEF Within

-----------------------------------------------------------------------------
\* The end of a channel.
LEMMA AfterChannelQuota ==
    ASSUME NEW x, x \in RunState, x.at # 0, Within(x.used, x.sent, x.at)
    PROVE  Quota(AfterChannel(x))
<1>1. CASE x.at < Len(Targets)
  <2> DEFINE y == [x EXCEPT !.pc = "fetch", !.at = @ + 1, !.pending = {}]
  <2>1. x.at \in Nat
    BY Positions DEF RunState
  <2>2. y.pc = "fetch" /\ y.at - 1 = x.at /\ y.used = x.used /\ y.sent = x.sent
    BY <2>1 DEF RunState
  <2>3. AfterChannel(x) = y
    BY <1>1 DEF AfterChannel
  <2> HIDE DEF y
  <2> QED
    BY <2>2, <2>3 DEF Quota
<1>2. CASE ~(x.at < Len(Targets))
  BY <1>2 DEF AfterChannel, Idle, Quota
<1> QED
  BY <1>1, <1>2

\* What a run may post at its position includes the anime it has done with.
LEMMA AfterAnimeQuota ==
    ASSUME NEW x, NEW a, x \in RunState, x.at # 0, a \in x.pending,
           Within(x.used \cup x.pending,
                  x.sent \cup (x.pending \X {Targets[x.at]}), x.at)
    PROVE  Quota(AfterAnime(x, a))
<1>1. CASE x.pending = {a}
  <2>1. Within(x.used, x.sent, x.at)
    BY WithinLess
  <2> QED
    BY <1>1, <2>1, AfterChannelQuota DEF AfterAnime
<1>2. CASE x.pending # {a}
  <2> DEFINE y == [x EXCEPT !.pc = "send", !.pending = @ \ {a}]
  <2>1. /\ y.pc = "send" /\ y.at = x.at /\ y.pending = x.pending \ {a}
        /\ y.used = x.used /\ y.sent = x.sent
    BY DEF RunState
  <2>2. AfterAnime(x, a) = y
    BY <1>2 DEF AfterAnime
  <2> HIDE DEF y
  <2>3. /\ y.used \cup y.pending \subseteq x.used \cup x.pending
        /\ y.sent \cup (y.pending \X {Targets[y.at]})
              \subseteq x.sent \cup (x.pending \X {Targets[x.at]})
    BY <2>1
  <2>4. Within(y.used \cup y.pending,
               y.sent \cup (y.pending \X {Targets[y.at]}), x.at)
    BY <2>3, WithinLess
  <2> QED
    BY <2>1, <2>2, <2>4 DEF Quota
<1> QED
  BY <1>1, <1>2

\* Claiming and posting a pending anime uses up what was reserved for it.
LEMMA ClaimQuota ==
    ASSUME NEW x, NEW a \in Animes, NEW c, NEW y, RunOK(x), Quota(x),
           x.pc = "send", NextIs(x, a), c = Targets[x.at],
           y \in {Claim(x, a), Posted(Claim(x, a), a, c)}
    PROVE  /\ y.pending = x.pending /\ y.at = x.at
           /\ Within(y.used \cup y.pending,
                     y.sent \cup (y.pending \X {Targets[y.at]}), y.at)
<1> DEFINE z == Claim(x, a)
<1>1. /\ z.pc = "send" /\ z.at = x.at /\ z \in [pc: {"send"}, at: DOMAIN Targets \cup {0},
         used: SUBSET Animes, pending: SUBSET Animes, sent: SUBSET (Animes \X Channels)]
      /\ z.pending = x.pending /\ z.used = x.used \cup {a} /\ z.sent = x.sent
  BY DEF RunOK, RunState, Claim
<1>2. y = z \/ y = [z EXCEPT !.sent = z.sent \cup {<<a, c>>}]
  BY DEF Posted
<1> HIDE DEF z
<1>3. /\ y.at = x.at /\ y.pending = x.pending /\ y.used = x.used \cup {a}
      /\ y.sent \subseteq x.sent \cup {<<a, c>>}
  BY <1>1, <1>2
<1>4. y.used \cup y.pending \subseteq x.used \cup x.pending
  BY <1>3 DEF NextIs
<1>5. y.sent \cup (y.pending \X {Targets[y.at]})
         \subseteq x.sent \cup (x.pending \X {Targets[x.at]})
  BY <1>3 DEF NextIs
<1>6. Within(x.used \cup x.pending,
             x.sent \cup (x.pending \X {Targets[x.at]}), x.at)
  BY DEF Quota
<1> QED
  BY <1>3, <1>4, <1>5, <1>6, WithinLess

-----------------------------------------------------------------------------
\* A step of run r.
LEMMA OneQuotaChanges ==
    ASSUME IInv, Quotas, NEW r \in Runs, NEW y, Quota(y),
           run' = [run EXCEPT ![r] = y]
    PROVE  Quotas'
<1>1. \A s \in Runs : run'[s] = IF s = r THEN y ELSE run[s]
  BY DEF IInv, LocalsOK
<1> QED
  BY <1>1 DEF Quotas

LEMMA FetchQuota ==
    ASSUME IInv, Quotas, NEW r \in Runs,
           FetchFails(r) \/ \E c \in Channels : Fetch(r, c)
    PROVE  Quotas'
<1> DEFINE x == run[r]
<1>1. RunOK(x) /\ x.pc = "fetch" /\ x.at # 0 /\ Within(x.used, x.sent, x.at - 1)
  BY DEF IInv, LocalsOK, RunOK, Quotas, Quota, Fetch, FetchFails
<1>2. x.at \in Nat /\ x.at - 1 \in Nat /\ x.at - 1 < Len(Targets) /\ (x.at - 1) + 1 = x.at
  BY <1>1, Positions DEF RunOK, RunState
<1>3. ASSUME NEW T, T \subseteq Animes, Cardinality(T) <= PostsPerRun
      PROVE  Within(x.used \cup T, x.sent \cup (T \X {Targets[x.at]}), x.at)
  BY <1>1, <1>2, <1>3, WithinNext
<1>4. CASE run' = [run EXCEPT ![r] = AfterChannel(x)]
  <2>1. Cardinality({}) <= PostsPerRun
    BY FS_EmptySet, PostsPerRunPositive
  <2>2. Within(x.used \cup {}, x.sent \cup ({} \X {Targets[x.at]}), x.at)
    BY <1>3, <2>1
  <2>3. Within(x.used, x.sent, x.at)
    BY <2>2, WithinLess
  <2>4. Quota(AfterChannel(x))
    BY <1>1, <2>3, AfterChannelQuota DEF RunOK
  <2> QED
    BY <1>4, <2>4, OneQuotaChanges
<1>5. ASSUME NEW c \in Channels, Fetch(r, c), Take(x, c) # {}
      PROVE  Quotas'
  <2> DEFINE y == [x EXCEPT !.pc = "send", !.pending = Take(x, c)]
  <2>1. run' = [run EXCEPT ![r] = y]
    BY <1>5 DEF Fetch
  <2>2. /\ y.pc = "send" /\ y.at = x.at /\ y.pending = Take(x, c)
        /\ y.used = x.used /\ y.sent = x.sent
    BY <1>1 DEF RunOK, RunState
  <2>3. Take(x, c) \subseteq Animes
    BY TakeUnclaimed DEF IInv, TablesOK
  <2>4. Cardinality(Take(x, c)) <= PostsPerRun
    <3>1. Candidates(c) \ x.used \subseteq Animes
      BY DEF Candidates, Oldest, Unposted, IInv, TablesOK
    <3> QED
      BY <3>1, OldestAtMost, PostsPerRunPositive DEF Take
  <2>5. Within(x.used \cup Take(x, c),
               x.sent \cup (Take(x, c) \X {Targets[x.at]}), x.at)
    BY <1>3, <2>3, <2>4
  <2> HIDE DEF y
  <2>6. Quota(y)
    BY <2>2, <2>5 DEF Quota
  <2> QED
    BY <2>1, <2>6, OneQuotaChanges
<1> QED
  BY <1>4, <1>5 DEF Fetch, FetchFails

LEMMA PostQuota ==
    ASSUME IInv, Quotas, NEW r \in Runs, NEW a \in Animes, NEW c \in Channels,
           Send(r, a, c) \/ SendFails(r, a, c)
    PROVE  Quotas'
<1> DEFINE x == run[r]
           z == Posted(Claim(x, a), a, c)
           y == [z EXCEPT !.pc = "record"]
<1>1. /\ RunOK(x) /\ Claims(x) /\ x.pc = "send" /\ NextIs(x, a)
      /\ c = Targets[x.at] /\ Quota(x)
  BY CurrentFacts DEF IInv, Send, SendFails, Quotas
<1>2. ASSUME NEW v \in {Claim(x, a), z}
      PROVE  /\ v \in RunState /\ v.at # 0 /\ a \in v.pending
             /\ Within(v.used \cup v.pending,
                       v.sent \cup (v.pending \X {Targets[v.at]}), v.at)
  <2>1. v \in RunState /\ v.at = x.at /\ v.at # 0 /\ v.pending = x.pending
    BY <1>1, ClaimOK
  <2>2. a \in v.pending
    BY <1>1, <2>1 DEF NextIs
  <2>3. Within(v.used \cup v.pending,
               v.sent \cup (v.pending \X {Targets[v.at]}), v.at)
    BY <1>1, ClaimQuota
  <2> QED
    BY <2>1, <2>2, <2>3
<1>3. CASE Send(r, a, c)
  <2>1. run' = [run EXCEPT ![r] = y]
    BY <1>3 DEF Send
  <2>2. /\ z \in RunState
        /\ Within(z.used \cup z.pending,
                  z.sent \cup (z.pending \X {Targets[z.at]}), z.at)
    BY <1>2
  <2> HIDE DEF z
  <2>3. /\ y.pc = "record" /\ y.at = z.at /\ y.pending = z.pending
        /\ y.used = z.used /\ y.sent = z.sent
    BY <2>2 DEF RunState
  <2> HIDE DEF y
  <2>4. Quota(y)
    BY <2>2, <2>3 DEF Quota
  <2> QED
    BY <2>1, <2>4, OneQuotaChanges
<1>4. CASE SendFails(r, a, c)
  <2>1. PICK v \in {Claim(x, a), z} : run' = [run EXCEPT ![r] = AfterAnime(v, a)]
    BY <1>4 DEF SendFails
  <2>2. Quota(AfterAnime(v, a))
    BY <1>2, AfterAnimeQuota
  <2> QED
    BY <2>1, <2>2, OneQuotaChanges
<1> QED
  BY <1>3, <1>4

LEMMA RecordQuota ==
    ASSUME IInv, Quotas, NEW r \in Runs, NEW a \in Animes, NEW c \in Channels,
           Record(r, a, c) \/ RecordFails(r, a, c)
    PROVE  Quotas'
<1> DEFINE x == run[r]
<1>1. Current(r, "record", a, c) /\ run' = [run EXCEPT ![r] = AfterAnime(x, a)]
  BY DEF Record, RecordFails
<1>2. x \in RunState /\ x.at # 0 /\ a \in x.pending /\ x.pc = "record"
  BY <1>1, CurrentFacts DEF IInv, RunOK, NextIs
<1>3. Within(x.used \cup x.pending,
             x.sent \cup (x.pending \X {Targets[x.at]}), x.at)
  BY <1>2 DEF Quotas, Quota
<1> QED
  BY <1>1, <1>2, <1>3, AfterAnimeQuota, OneQuotaChanges

LEMMA StartQuota ==
    ASSUME IInv, Quotas, NEW r \in Runs, Start(r)
    PROVE  Quotas'
<1> DEFINE x == run[r]
           y == [x EXCEPT !.pc = "fetch", !.at = 1]
<1>1. /\ x \in RunState /\ x.used = {} /\ x.sent = {}
      /\ run' = [run EXCEPT ![r] = y]
  BY DEF IInv, LocalsOK, Quotas, Quota, Start
<1> HIDE DEF x
<1>2. y.pc = "fetch" /\ y.at - 1 = 0 /\ y.used = {} /\ y.sent = {}
  BY <1>1 DEF RunState
<1>3. Within({}, {}, 0)
  <2>1. \A c : PostedTo({}, c) = {} /\ Places(c, 0) = {}
    BY DEF PostedTo, Places
  <2>2. 0 \in 0..Len(Targets) /\ PostsPerRun * 0 = 0
    BY Positions, PostsPerRunPositive
  <2>3. Cardinality({}) = 0
    BY FS_EmptySet
  <2> QED
    BY <2>1, <2>2, <2>3 DEF Within
<1> HIDE DEF y
<1>4. Quota(y)
  BY <1>2, <1>3 DEF Quota
<1> QED
  BY <1>1, <1>4, OneQuotaChanges

LEMMA NextQuotas == IInv /\ Quotas /\ [Next]_vars => Quotas'
<1> SUFFICES ASSUME IInv, Quotas, [Next]_vars PROVE Quotas'
  OBVIOUS
<1>1. ASSUME NEW r \in Runs, Start(r) \/ Step(r) PROVE Quotas'
  BY <1>1, StartQuota, FetchQuota, PostQuota, RecordQuota DEF Step
<1>2. CASE Crash \/ Exit
  <2>1. \A r \in Runs : run'[r] = Idle
    BY <1>2 DEF Crash, Exit, Killed
  <2> QED
    BY <2>1 DEF Quotas, Quota, Idle
<1>3. CASE Cancel \/ (\E a \in Animes : ChangeAnime(a)) \/ UNCHANGED vars
  BY <1>3 DEF Cancel, ChangeAnime, vars, Quotas
<1> QED
  BY <1>1, <1>2, <1>3 DEF Next

LEMMA InitQuotas == Init => Quotas
BY DEF Init, Quotas, Quota, Idle

LEMMA QuotasKept ==
    ASSUME IInv, Quotas
    PROVE  PostsPerRunKept
<1> SUFFICES ASSUME NEW r \in Runs, NEW c \in Channels
             PROVE  Cardinality(PostedTo(run[r].sent, c)) <=
                       PostsPerRun * Cardinality({i \in DOMAIN Targets : Targets[i] = c})
  BY DEF PostsPerRunKept, PostedTo
<1> DEFINE x == run[r]
           All == Places(c, Len(Targets))
<1>1. RunOK(x) /\ Quota(x)
  BY DEF IInv, LocalsOK, Quotas
<1>2. {i \in DOMAIN Targets : Targets[i] = c} = All
  BY Positions DEF Places
<1>3. IsFiniteSet(All) /\ Cardinality(All) \in Nat
  BY Positions, PlacesCounted
<1>4. CASE x.pc = "idle"
  <2>1. PostedTo(x.sent, c) = {}
    BY <1>1, <1>4 DEF Quota, PostedTo
  <2>2. PostsPerRun * Cardinality(All) \in Nat
    BY <1>3, PostsPerRunPositive
  <2>3. Cardinality({}) = 0
    BY FS_EmptySet
  <2> HIDE DEF All, x
  <2>4. Cardinality(PostedTo(x.sent, c)) <= PostsPerRun * Cardinality(All)
    BY <2>1, <2>2, <2>3
  <2> QED
    BY <1>2, <2>4 DEF x
<1>5. CASE x.pc # "idle"
  <2>1. PICK k : Within(x.used, x.sent, k)
    BY <1>1, <1>5, WithinLess DEF Quota, RunOK, RunState
  <2>2. k \in Nat /\ Places(c, k) \subseteq All
    BY <2>1, Positions DEF Within, Places
  <2>3. Cardinality(Places(c, k)) <= Cardinality(All)
    BY <1>3, <2>2, FS_Subset
  <2>4. /\ PostsPerRun * Cardinality(Places(c, k)) <= PostsPerRun * Cardinality(All)
        /\ PostsPerRun * Cardinality(Places(c, k)) \in Nat
        /\ PostsPerRun * Cardinality(All) \in Nat
    BY <1>3, <2>2, <2>3, PlacesCounted, Multiplied
  <2>5. Cardinality(PostedTo(x.sent, c)) <= PostsPerRun * Cardinality(Places(c, k))
    BY <2>1 DEF Within
  <2>6. Cardinality(PostedTo(x.sent, c)) \in Nat
    BY FiniteAnimes DEF PostedTo
  <2> HIDE DEF All, x
  <2>7. Cardinality(PostedTo(x.sent, c)) <= PostsPerRun * Cardinality(All)
    BY <2>4, <2>5, <2>6
  <2> QED
    BY <1>2, <2>7 DEF x
<1> QED
  BY <1>4, <1>5

\* "up to cfg.PostsPerRun": runForChannel posts no more than that to a channel
\* for every time the channel is listed, whatever fails and overlaps.
THEOREM QuotaKept == Spec => []PostsPerRunKept
<1>1. Init => IInv /\ Quotas
  BY InitInv, InitQuotas
<1>2. IInv /\ Quotas /\ [Next]_vars => (IInv /\ Quotas)'
  BY NextInv, NextQuotas
<1>3. IInv /\ Quotas => PostsPerRunKept
  BY QuotasKept
<1> QED
  BY <1>1, <1>2, <1>3, PTL DEF Spec

-----------------------------------------------------------------------------
\* The limit leaves room for all that the run has claimed at the channels
\* before this one, and for the share of this channel.
LEMMA LimitWideEnough ==
    ASSUME IInv, Quotas, WantedLimit <= 50, NEW r \in Runs, NEW c \in Channels,
           Fetch(r, c), Cardinality(Take(run[r], c)) < PostsPerRun
    PROVE  Unposted(c) \ run[r].used \subseteq Take(run[r], c)
<1> DEFINE x == run[r]
           rest == Candidates(c) \ x.used
<1>1. RunOK(x) /\ x.pc = "fetch" /\ Within(x.used, x.sent, x.at - 1)
  BY DEF IInv, LocalsOK, Quotas, Quota, Fetch
<1>2. PICK k \in Nat : k = x.at - 1 /\ k + 1 <= Len(Targets)
  <2>1. x.at \in 1..Len(Targets)
    BY <1>1, Positions DEF RunOK, RunState
  <2>2. x.at - 1 \in Nat /\ (x.at - 1) + 1 <= Len(Targets)
    BY <2>1, Positions
  <2> QED
    BY <2>2
<1>3. /\ Unposted(c) \subseteq Animes /\ Candidates(c) \subseteq Unposted(c)
      /\ Candidates(c) \subseteq Animes /\ x.used \subseteq Animes
      /\ rest \subseteq Animes
  BY <1>1 DEF Unposted, Candidates, Oldest, Within, IInv, TablesOK
<1>4. Take(x, c) = rest
  <2>1. Take(x, c) = Oldest(rest, PostsPerRun)
    BY DEF Take
  <2>2. Take(x, c) \subseteq Animes
    BY <1>3, <2>1 DEF Oldest
  <2>3. Cardinality(Take(x, c)) \in Nat
    BY <2>2, FiniteAnimes
  <2>4. ~(PostsPerRun <= Cardinality(Take(x, c)))
    BY <2>3, PostsPerRunPositive
  <2> HIDE DEF rest
  <2> QED
    BY <1>3, <2>1, <2>4, OldestFills, PostsPerRunPositive
<1>5. Cardinality(x.used) <= PostsPerRun * k
  BY <1>1, <1>2 DEF Within
<1>6. Cardinality(Candidates(c)) <= Cardinality(rest) + Cardinality(x.used)
  <2>1. Cardinality(rest \cup x.used) <= Cardinality(rest) + Cardinality(x.used)
    BY <1>3, UnionOfAnimes
  <2>2. Cardinality(Candidates(c)) <= Cardinality(rest \cup x.used)
    <3>1. Candidates(c) \subseteq rest \cup x.used /\ rest \cup x.used \subseteq Animes
      BY <1>3
    <3> HIDE DEF rest
    <3> QED
      BY <3>1, FewerAnimes
  <2>3. /\ Cardinality(rest \cup x.used) \in Nat /\ Cardinality(rest) \in Nat
        /\ Cardinality(x.used) \in Nat /\ Cardinality(Candidates(c)) \in Nat
    <3>1. rest \cup x.used \subseteq Animes
      BY <1>3
    <3> HIDE DEF rest
    <3> QED
      BY <1>3, <3>1, FiniteAnimes
  <2> HIDE DEF rest
  <2> QED
    BY <2>1, <2>2, <2>3
<1>7. /\ Cardinality(rest) \in Nat /\ Cardinality(x.used) \in Nat
      /\ Cardinality(Candidates(c)) \in Nat
  BY <1>3, FiniteAnimes
<1>8. /\ PostsPerRun * k \in Nat
      /\ PostsPerRun * k + PostsPerRun <= PostsPerRun * Len(Targets)
      /\ PostsPerRun * Len(Targets) \in Nat
  <2>1. /\ PostsPerRun * (k + 1) <= PostsPerRun * Len(Targets)
        /\ PostsPerRun * Len(Targets) \in Nat
    <3>1. k + 1 \in Nat /\ Len(Targets) \in Nat /\ k + 1 <= Len(Targets)
      BY <1>2, Positions
    <3>2. PICK m \in Nat : m = k + 1
      BY <3>1
    <3>3. PostsPerRun * m <= PostsPerRun * Len(Targets)
      BY <3>1, <3>2, Multiplied
    <3> QED
      BY <3>1, <3>2, <3>3, PostsPerRunPositive
  <2>2. PostsPerRun * (k + 1) = PostsPerRun * k + PostsPerRun /\ PostsPerRun * k \in Nat
    BY Multiplied
  <2> QED
    BY <2>1, <2>2
<1>9. Limit = PostsPerRun * Len(Targets) + PostsPerRun /\ Limit \in Nat
  <2>1. WantedLimit = PostsPerRun * Len(Targets) + PostsPerRun
    BY DEF WantedLimit
  <2>2. ~(WantedLimit > 50)
    BY <1>8, <2>1, PostsPerRunPositive
  <2> QED
    BY <1>8, <2>1, <2>2, PostsPerRunPositive DEF Limit
<1>10. Candidates(c) = Unposted(c)
  <2>1. ~(Limit <= Cardinality(Candidates(c)))
    <3>1. Cardinality(rest) < PostsPerRun
      BY <1>4
    <3> HIDE DEF rest, x
    <3> QED
      BY <1>5, <1>6, <1>7, <1>8, <1>9, <3>1, PostsPerRunPositive
  <2> QED
    BY <1>3, <1>9, <2>1, OldestFills DEF Candidates
<1> QED
  BY <1>4, <1>10

\* "Fetch a wider pool than needed": if the wanted limit is within the 50 that
\* the repository grants, a run that takes less than its share of a channel has
\* left nothing it could have taken, however much it posted to the channels
\* before (publisher.go:113-129).
THEOREM PoolIsWide == Spec => SharesFilledWithinLimit
<1>1. Init => IInv /\ Quotas
  BY InitInv, InitQuotas
<1>2. IInv /\ Quotas /\ [Next]_vars => (IInv /\ Quotas)'
  BY NextInv, NextQuotas
<1>3. IInv /\ Quotas /\ [Next]_vars =>
         [WantedLimit <= 50 => \A r \in Runs, c \in Channels : ShareFilled(r, c)]_vars
  BY LimitWideEnough DEF ShareFilled
<1> QED
  BY <1>1, <1>2, <1>3, PTL DEF Spec, SharesFilledWithinLimit
=============================================================================
