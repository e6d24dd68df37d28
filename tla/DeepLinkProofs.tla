--------------------------- MODULE DeepLinkProofs ---------------------------
(***************************************************************************)
(* Proofs about DeepLink, for any number of announcements, links and       *)
(* messages, and any bounds.                                               *)
(*                                                                         *)
(* The number that becomes part of a source id comes with the link or out  *)
(* of a message of the bot, through the conversation and the batch.        *)
(* Section 1 types the messages, section 2 the locals of a coroutine,      *)
(* section 3 the steps; section 4 is the arithmetic.  Section 5 is about   *)
(* whose answer is stored: at most one coroutine talks, and when it stops, *)
(* what it has not received yet is in abandoned.                           *)
(***************************************************************************)
EXTENDS DeepLink, TLAPS, FiniteSetTheorems, FunctionTheorems, SequenceTheorems

Tasks ==
    [at : {"link", "wait", "store", "join"}, todo : Seq(Links),
     inbox : Seq(Messages), read : Nat, files : Seq(Files), tries : Nat,
     joined : SUBSET Channels, asked : SUBSET Channels]

\* Whoever talks, stores or joins has a link; whoever stores has a file.
SoundTask(t) ==
    /\ t \in Tasks
    /\ t.at # "link" => t.todo # <<>>
    /\ t.at = "store" => t.files # <<>>

IdsArePacked ==
    \A row \in stored : row.id = SourceId(row.msg, row.number) /\ row.msg # 0

IInv ==
    /\ TypeOK
    /\ \A f \in Fetchers : SoundTask(task[f])
    /\ IdsArePacked

-----------------------------------------------------------------------------
(* 1. The messages.                                                        *)

\* A sequence made of a finite set has the elements of the set.
LEMMA SetToSeqType ==
  ASSUME NEW S, IsFiniteSet(S)
  PROVE  SetToSeq(S) \in Seq(S)
  <1>1. ExistsBijection(1..Cardinality(S), S) /\ Cardinality(S) \in Nat
    BY FS_CardinalityType
  <1>2. PICK g : g \in [1..Cardinality(S) -> S] /\ IsInjective(g)
    BY <1>1, Fun_ExistsBij DEF Bijection, Injection
  <1>3. SetToSeq(S) \in [1..Cardinality(S) -> S]
    BY <1>2 DEF SetToSeq
  <1>4. QED
    BY <1>1, <1>3, SeqDef

LEMMA AnnouncementType ==
  ASSUME NEW l \in Links
  PROVE  AnnouncementOf(l) \in Nat
  <1>1. \E f \in Fetchers : l \in ToSet(LinksOf[f])
    BY DEF Links
  <1>2. QED
    BY <1>1, AnnouncementsAreNumbered DEF AnnouncementOf

\* The messages that may answer the links S: a file is for the anime of its
\* announcement, and one of those the link is for unless a button led astray.
From(S) ==
    {m \in Messages :
        /\ m.of \in S
        /\ m.kind = "file" =>
              /\ m.file[1] = AnnouncementOf(m.of)
              /\ m.file[2] \in Promised(m.of) \/ m.astray}

LEMMA SeqMore == ASSUME NEW S, NEW T, S \subseteq T PROVE Seq(S) \subseteq Seq(T)
  BY SeqDef

LEMMA FromMore ==
  ASSUME NEW S, NEW T, S \subseteq T
  PROVE  Seq(From(S)) \subseteq Seq(From(T)) /\ Seq(From(S)) \subseteq Seq(Messages)
  <1>1. From(S) \subseteq From(T) /\ From(S) \subseteq Messages
    BY DEF From
  <1>2. QED
    BY <1>1, SeqMore

\* What may be found for a link: by the link itself, or by a button.
Findable(l, found, astray) ==
    /\ IsFiniteSet(found) /\ found \subseteq Numbers
    /\ astray \in BOOLEAN
    /\ found \subseteq Promised(l) \/ astray

LEMMA FilesFrom ==
  ASSUME NEW l \in Links, NEW found, NEW astray, Findable(l, found, astray)
  PROVE  FileMessages(l, found, astray) \subseteq From({l})
         /\ IsFiniteSet(FileMessages(l, found, astray))
  <1> DEFINE File(n) == Message("file", l, {}, <<>>, <<AnnouncementOf(l), n>>, astray)
  <1>1. <<>> \in Seq(Buttons)
    BY EmptySeq
  <1>2. ASSUME NEW n \in found PROVE File(n) \in From({l})
    <2>1. PICK m : m = File(n)
      OBVIOUS
    <2>2. /\ m = [kind |-> "file", of |-> l, channels |-> {}, buttons |-> <<>>,
                  file |-> <<AnnouncementOf(l), n>>, astray |-> astray]
      BY <2>1 DEF Message
    <2>3. <<AnnouncementOf(l), n>> \in Nat \X Numbers /\ astray \in BOOLEAN
      BY AnnouncementType DEF Findable
    <2>4. m \in Messages
      BY <2>2, <2>3 DEF Messages
    <2>5. m.of = l /\ m.file[1] = AnnouncementOf(l) /\ m.file[2] = n /\ m.astray = astray
      BY <2>2
    <2>6. n \in Promised(l) \/ astray
      BY DEF Findable
    <2>7. m \in From({l})
      BY <2>4, <2>5, <2>6 DEF From
    <2>8. QED
      BY <2>1, <2>7
  <1>3. FileMessages(l, found, astray) = {File(n) : n \in found}
    BY DEF FileMessages
  <1> HIDE DEF File
  <1> DEFINE g == [n \in found |-> File(n)]
  <1>4. g \in Surjection(found, FileMessages(l, found, astray))
    BY <1>3 DEF Surjection, Range
  <1>5. IsFiniteSet(FileMessages(l, found, astray))
    BY <1>4, FS_Surjection DEF Findable
  <1>6. QED
    BY <1>2, <1>3, <1>5

LEMMA WordFrom ==
  ASSUME NEW l \in Links, NEW kind \in {"menu", "gate", "text"},
         NEW channels \in SUBSET Channels, NEW buttons \in Seq(Buttons)
  PROVE  Message(kind, l, channels, buttons, <<>>, FALSE) \in From({l})
  <1>1. PICK m : m = Message(kind, l, channels, buttons, <<>>, FALSE)
    OBVIOUS
  <1>2. m = [kind |-> kind, of |-> l, channels |-> channels, buttons |-> buttons,
             file |-> <<>>, astray |-> FALSE]
    BY <1>1 DEF Message
  <1>3. m \in Messages /\ m.of = l /\ m.kind # "file"
    BY <1>2 DEF Messages
  <1>4. QED
    BY <1>1, <1>3 DEF From

LEMMA AnswersFrom ==
  ASSUME NEW l \in Links, NEW found, NEW astray, Findable(l, found, astray)
  PROVE  \A answer \in Answers(l, found, astray) : answer \in Seq(From({l}))
  <1> DEFINE text == Message("text", l, {}, <<>>, <<>>, FALSE)
             menus == {Message("menu", l, {}, menu, <<>>, FALSE) : menu \in Menus}
             gates == {Message("gate", l, {c}, <<>>, <<>>, FALSE) : c \in Channels}
             files == FileMessages(l, found, astray)
             all == SetToSeq(files)
  <1>0. <<>> \in Seq(Buttons)
    BY EmptySeq
  <1>1. text \in From({l}) /\ gates \subseteq From({l})
    BY <1>0, WordFrom
  <1>2. menus \subseteq From({l})
    BY MenusHaveButtons, WordFrom
  <1>3. files \subseteq From({l}) /\ IsFiniteSet(files)
    BY FilesFrom
  <1> HIDE DEF files
  <1>4. all \in Seq(files)
    BY <1>3, SetToSeqType
  <1> HIDE DEF all
  <1>5. all \in Seq(From({l}))
    BY <1>3, <1>4, SeqMore
  <1>6. Answers(l, found, astray)
           = {<<>>, <<text>>, all, <<text>> \o all}
                \cup {<<m>> : m \in menus \cup gates \cup files}
    BY DEF Answers, all, files
  <1> HIDE DEF menus, gates, text
  <1>7. <<>> \in Seq(From({l})) /\ <<text>> \in Seq(From({l}))
    BY <1>1, EmptySeq
  <1>8. <<text>> \o all \in Seq(From({l}))
    BY <1>5, <1>7, ConcatProperties
  <1>9. \A m \in menus \cup gates \cup files : <<m>> \in Seq(From({l}))
    BY <1>1, <1>2, <1>3
  <1>10. QED
    BY <1>5, <1>6, <1>7, <1>8, <1>9

\* The link is followed, or a button of one of its menus is clicked.
Turned(l) == Started(l) \/ \E b : Clicked(l, b)

LEMMA TurnedFinds ==
  ASSUME NEW l \in Links, Turned(l)
  PROVE  \E found, astray : Findable(l, found, astray) /\ Asked(l, found, astray)
  <1>1. /\ IsFiniteSet(Delivers[l]) /\ Delivers[l] \subseteq Numbers
        /\ IsFiniteSet(Behind[l]) /\ Behind[l] \subseteq Numbers
    BY NumbersAreParsed
  <1>2. Findable(l, Delivers[l], FALSE)
    BY <1>1 DEF Findable, Promised
  <1>3. ASSUME NEW b PROVE Findable(l, Leads(l, b), ~Straight(l, b))
    <2>1. Leads(l, b) \subseteq Behind[l]
      BY DEF Leads
    <2>2. IsFiniteSet(Leads(l, b)) /\ Leads(l, b) \subseteq Numbers
      BY <1>1, <2>1, FS_Subset
    <2>3. Straight(l, b) => Leads(l, b) \subseteq Promised(l)
      BY <2>1 DEF Straight, Leads, Promised
    <2>4. QED
      BY <2>2, <2>3 DEF Findable
  <1>4. QED
    BY <1>2, <1>3 DEF Turned, Started, Clicked

\* What comes of it answers the link.
LEMMA TurnedFrom ==
  ASSUME NEW l \in Links, NEW S, l \in S, sent \in Seq(From(S)), Turned(l)
  PROVE  sent' \in Seq(From(S))
  <1>1. PICK found, astray : Findable(l, found, astray) /\ Asked(l, found, astray)
    BY TurnedFinds
  <1>2. PICK answer \in Answers(l, found, astray) : sent' = sent \o answer
    BY <1>1 DEF Asked
  <1>3. answer \in Seq(From(S))
    BY <1>1, AnswersFrom, FromMore
  <1>4. QED
    BY <1>2, <1>3, ConcatProperties

LEMMA TurnedType ==
  ASSUME NEW l \in Links, sent \in Seq(Messages), Turned(l)
  PROVE  sent' \in Seq(Messages)
  <1>1. PICK found, astray : Findable(l, found, astray) /\ Asked(l, found, astray)
    BY TurnedFinds
  <1>2. PICK answer \in Answers(l, found, astray) : sent' = sent \o answer
    BY <1>1 DEF Asked
  <1>3. answer \in Seq(Messages)
    BY <1>1, AnswersFrom, FromMore
  <1>4. QED
    BY <1>2, <1>3, ConcatProperties

LEMMA CloseType ==
  ASSUME sent \in Seq(Messages), abandoned \subseteq Links, Close
  PROVE  abandoned' \subseteq Links
  <1>1. \A m \in ToSet(sent) : m \in Messages
    BY LenProperties DEF ToSet
  <1>2. \A m \in Messages : m.of \in Links
    BY DEF Messages
  <1>3. QED
    BY <1>1, <1>2 DEF Close

-----------------------------------------------------------------------------
(* 2. The locals of a coroutine.                                           *)

LEMMA LinkType ==
  ASSUME NEW f \in Fetchers, SoundTask(task[f]), task[f].todo # <<>>
  PROVE  Link(f) \in Links /\ Tail(task[f].todo) \in Seq(Links)
  BY HeadTailProperties DEF Link, SoundTask, Tasks

LEMMA BeginSound ==
  ASSUME NEW links \in Seq(Links)
  PROVE  SoundTask(Begin(links))
  <1>1. \A S : <<>> \in Seq(S)
    BY EmptySeq
  <1>2. QED
    BY <1>1 DEF SoundTask, Tasks, Begin

LEMMA NextLinkSound ==
  ASSUME NEW f \in Fetchers, SoundTask(task[f]), task[f].todo # <<>>
  PROVE  SoundTask(NextLink(f))
  BY LinkType, BeginSound DEF NextLink

LEMMA AfterFileSound ==
  ASSUME NEW f \in Fetchers, SoundTask(task[f]), task[f].at = "store"
  PROVE  SoundTask(AfterFile(f)) /\ Head(task[f].files) \in Files
  <1>1. task[f].files \in Seq(Files) /\ task[f].files # <<>> /\ task[f].todo # <<>>
    BY DEF SoundTask, Tasks
  <1>2. Head(task[f].files) \in Files /\ Tail(task[f].files) \in Seq(Files)
    BY <1>1, HeadTailProperties
  <1>3. CASE Len(task[f].files) = 1
    BY <1>1, <1>2, <1>3, NextLinkSound DEF AfterFile
  <1>4. CASE Len(task[f].files) # 1
    <2>1. Tail(task[f].files) # <<>>
      <3>1. Len(task[f].files) \in Nat /\ Len(task[f].files) # 0
        BY <1>1, EmptySeq
      <3>2. Len(Tail(task[f].files)) = Len(task[f].files) - 1
        BY <1>1, HeadTailProperties
      <3>3. \A n \in Nat : n # 0 /\ n # 1 => n - 1 # 0
        OBVIOUS
      <3>4. Len(Tail(task[f].files)) # 0
        BY <1>4, <3>1, <3>2, <3>3
      <3>5. QED
        BY <3>4, EmptySeq
    <2>2. AfterFile(f) = [task[f] EXCEPT !.files = Tail(@)]
      BY <1>4 DEF AfterFile
    <2>3. QED
      BY <1>1, <1>2, <2>1, <2>2 DEF SoundTask, Tasks
  <1>5. QED
    BY <1>3, <1>4

\* A message is taken from the conversation.
LEMMA RestSound ==
  ASSUME NEW f \in Fetchers, SoundTask(task[f]), Reads(f)
  PROVE  /\ SoundTask(Rest(f)) /\ task[f].todo # <<>>
         /\ Head(task[f].inbox) \in Messages
         /\ Rest(f).at = "wait" /\ Rest(f).todo = task[f].todo
  <1>1. /\ task[f].inbox \in Seq(Messages) /\ task[f].inbox # <<>>
        /\ task[f].at = "wait" /\ task[f].todo # <<>>
    BY DEF Reads, SoundTask, Tasks
  <1>2. Head(task[f].inbox) \in Messages /\ Tail(task[f].inbox) \in Seq(Messages)
    BY <1>1, HeadTailProperties
  <1> DEFINE inbox == Tail(task[f].inbox)
             read == task[f].read + 1
  <1>3. read \in Nat
    BY DEF SoundTask, Tasks
  <1>4. Rest(f) = [task[f] EXCEPT !.inbox = inbox, !.read = read]
    BY DEF Rest
  <1> HIDE DEF inbox, read
  <1>5. inbox \in Seq(Messages)
    BY <1>2 DEF inbox
  <1>6. QED
    BY <1>1, <1>2, <1>3, <1>4, <1>5 DEF SoundTask, Tasks

-----------------------------------------------------------------------------
(* 3. The steps.                                                           *)

\* A step that stores nothing.
LEMMA QuietStep ==
  ASSUME IInv, NEW f \in Fetchers, NEW t, SoundTask(t), Goto(f, t),
         sent' \in Seq(Messages), stored' = stored, abandoned' \subseteq Links
  PROVE  IInv'
  <1>1. \A g \in Fetchers : SoundTask(task'[g])
    BY DEF IInv, TypeOK, Goto
  <1>2. task' \in [Fetchers -> Tasks]
    BY DEF IInv, TypeOK, Goto, SoundTask, Tasks
  <1>3. QED
    BY <1>1, <1>2 DEF IInv, TypeOK, IdsArePacked, Tasks

LEMMA ArriveInv == IInv /\ Arrive => IInv'
  <1> SUFFICES ASSUME IInv, Arrive PROVE IInv'
    OBVIOUS
  <1>1. sent \in Seq(Messages) /\ sent # <<>>
    BY DEF IInv, TypeOK, Arrive
  <1>2. Head(sent) \in Messages /\ sent' \in Seq(Messages)
    BY <1>1, HeadTailProperties DEF Arrive
  <1>3. ASSUME NEW f \in Fetchers PROVE SoundTask(task'[f])
    <2>1. SoundTask(task[f]) /\ task[f].inbox \in Seq(Messages)
      BY DEF IInv, SoundTask, Tasks
    <2>2. Append(task[f].inbox, Head(sent)) \in Seq(Messages)
      BY <1>2, <2>1, AppendProperties
    <2>3. SoundTask([task[f] EXCEPT !.inbox = Append(@, Head(sent))])
      BY <2>1, <2>2 DEF SoundTask, Tasks
    <2>4. QED
      BY <2>1, <2>3 DEF Arrive
  <1>4. task' = [f \in Fetchers |-> task'[f]]
    BY DEF Arrive
  <1>5. task' \in [Fetchers -> Tasks]
    BY <1>3, <1>4 DEF SoundTask
  <1>6. UNCHANGED <<stored, abandoned>>
    BY DEF Arrive
  <1>7. QED
    BY <1>2, <1>3, <1>5, <1>6 DEF IInv, TypeOK, IdsArePacked, Tasks

LEMMA OpenInv == ASSUME IInv, NEW f \in Fetchers, Open(f) PROVE IInv'
  <1>1. SoundTask(task[f]) /\ Link(f) \in Links /\ task[f].todo # <<>>
    BY LinkType DEF IInv, Open
  <1>2. sent' \in Seq(Messages)
    BY <1>1, TurnedType DEF IInv, TypeOK, Open, Turned
  <1> DEFINE t == [task[f] EXCEPT !.at = "wait", !.inbox = <<>>, !.read = 0, !.files = <<>>]
  <1>3. \A S : <<>> \in Seq(S)
    BY EmptySeq
  <1>4. SoundTask(t)
    BY <1>1, <1>3 DEF SoundTask, Tasks
  <1>5. Goto(f, t) /\ UNCHANGED <<stored, abandoned>>
    BY DEF Open
  <1> HIDE DEF t
  <1>6. QED
    BY <1>2, <1>4, <1>5, QuietStep DEF IInv, TypeOK

\* A step that gives the link up.
LEMMA GiveUpInv ==
  ASSUME IInv, NEW f \in Fetchers, task[f].todo # <<>>, Goto(f, NextLink(f)),
         Close \/ abandoned' = abandoned, UNCHANGED <<sent, stored>>
  PROVE  IInv'
  <1>1. SoundTask(NextLink(f)) /\ sent \in Seq(Messages) /\ abandoned \subseteq Links
    BY NextLinkSound DEF IInv, TypeOK
  <1>2. sent' \in Seq(Messages) /\ abandoned' \subseteq Links
    BY <1>1, CloseType
  <1>3. QED
    BY <1>1, <1>2, QuietStep

LEMMA ReadFileInv == ASSUME IInv, NEW f \in Fetchers, ReadFile(f) PROVE IInv'
  <1> DEFINE m == Head(task[f].inbox)
             files == Append(task[f].files, m)
             t == [Rest(f) EXCEPT !.files = files]
             u == [task[f] EXCEPT !.at = "store", !.files = files]
  <1>1. /\ SoundTask(task[f]) /\ SoundTask(Rest(f)) /\ Rest(f).at = "wait"
        /\ task[f].todo # <<>> /\ m \in Files
    BY RestSound DEF IInv, ReadFile, Files
  <1>2. files \in Seq(Files) /\ files # <<>>
    <2>1. task[f].files \in Seq(Files)
      BY <1>1 DEF SoundTask, Tasks
    <2>2. files \in Seq(Files) /\ Len(files) = Len(task[f].files) + 1
      BY <1>1, <2>1, AppendProperties
    <2>3. Len(task[f].files) \in Nat
      BY <2>1, LenProperties
    <2>4. Len(files) # 0
      BY <2>2, <2>3
    <2>5. QED
      BY <2>2, <2>4, EmptySeq
  <1> HIDE DEF m, files
  <1>3. SoundTask(t) /\ SoundTask(u)
    BY <1>1, <1>2 DEF SoundTask, Tasks
  <1>4. /\ Goto(f, t) \/ Goto(f, u)
        /\ Close \/ abandoned' = abandoned
        /\ UNCHANGED <<sent, stored>>
    BY DEF ReadFile, files, m
  <1> HIDE DEF t, u
  <1>5. sent' \in Seq(Messages) /\ abandoned' \subseteq Links
    BY <1>4, CloseType DEF IInv, TypeOK
  <1>6. QED
    BY <1>3, <1>4, <1>5, QuietStep

LEMMA ReadGateInv == ASSUME IInv, NEW f \in Fetchers, ReadGate(f) PROVE IInv'
  <1> DEFINE c == Head(task[f].inbox).channels
             t == [task[f] EXCEPT !.at = "join", !.asked = c]
  <1>1. SoundTask(task[f]) /\ task[f].todo # <<>> /\ Head(task[f].inbox) \in Messages
    BY RestSound DEF IInv, ReadGate
  <1>2. c \in SUBSET Channels
    BY <1>1 DEF Messages
  <1>3. Goto(f, t) /\ Close /\ UNCHANGED <<sent, stored>>
    BY DEF ReadGate
  <1> HIDE DEF c
  <1>4. SoundTask(t)
    BY <1>1, <1>2 DEF SoundTask, Tasks
  <1> HIDE DEF t
  <1>5. sent' \in Seq(Messages) /\ abandoned' \subseteq Links
    BY <1>3, CloseType DEF IInv, TypeOK
  <1>6. QED
    BY <1>3, <1>4, <1>5, QuietStep

LEMMA ReadMenuInv == ASSUME IInv, NEW f \in Fetchers, ReadMenu(f) PROVE IInv'
  <1>1. SoundTask(Rest(f)) /\ Head(task[f].inbox) \in Messages
    BY RestSound DEF IInv, ReadMenu, Clickable
  <1>2. PICK l \in Links : l = Head(task[f].inbox).of
    BY <1>1 DEF Messages
  <1>3. Turned(l)
    BY <1>2 DEF ReadMenu, Turned
  <1>4. sent' \in Seq(Messages)
    BY <1>3, TurnedType DEF IInv, TypeOK
  <1>5. Goto(f, Rest(f)) /\ UNCHANGED <<stored, abandoned>>
    BY DEF ReadMenu
  <1>6. QED
    BY <1>1, <1>4, <1>5, QuietStep DEF IInv, TypeOK

LEMMA ReadOtherInv == ASSUME IInv, NEW f \in Fetchers, ReadOther(f) PROVE IInv'
  <1>1. SoundTask(Rest(f)) /\ task[f].todo # <<>>
    BY RestSound DEF IInv, ReadOther
  <1>2. CASE IsBatch(f)
    <2>1. Goto(f, Rest(f)) /\ UNCHANGED <<sent, stored, abandoned>>
      BY <1>2 DEF ReadOther
    <2>2. QED
      BY <1>1, <2>1, QuietStep DEF IInv, TypeOK
  <1>3. CASE ~IsBatch(f)
    BY <1>1, <1>3, GiveUpInv DEF ReadOther
  <1>4. QED
    BY <1>2, <1>3

LEMMA TimeOutInv == ASSUME IInv, NEW f \in Fetchers, TimeOut(f) PROVE IInv'
  <1>1. SoundTask(task[f]) /\ task[f].at = "wait" /\ task[f].todo # <<>>
    BY DEF IInv, TimeOut, SoundTask
  <1> DEFINE t == [task[f] EXCEPT !.at = "store"]
  <1>2. /\ Close /\ UNCHANGED <<sent, stored>>
        /\ Goto(f, NextLink(f)) \/ (Streaming(f) /\ Goto(f, t))
    BY DEF TimeOut
  <1>3. Streaming(f) => SoundTask(t)
    BY <1>1 DEF Streaming, SoundTask, Tasks
  <1> HIDE DEF t
  <1>4. sent' \in Seq(Messages) /\ abandoned' \subseteq Links
    BY <1>2, CloseType DEF IInv, TypeOK
  <1>5. CASE Goto(f, NextLink(f))
    BY <1>1, <1>2, <1>5, GiveUpInv
  <1>6. CASE Streaming(f) /\ Goto(f, t)
    BY <1>2, <1>3, <1>4, <1>6, QuietStep
  <1>7. QED
    BY <1>2, <1>5, <1>6

LEMMA JoinInv == ASSUME IInv, NEW f \in Fetchers, Join(f) PROVE IInv'
  <1> DEFINE t == [task[f] EXCEPT !.at = "link", !.inbox = <<>>, !.asked = {},
                                 !.joined = @ \cup NewChannels(f), !.tries = @ + 1]
  <1>1. SoundTask(task[f]) /\ task[f].at = "join" /\ task[f].todo # <<>>
    BY DEF IInv, Join, SoundTask
  <1>2. /\ UNCHANGED <<sent, stored, abandoned>>
        /\ Goto(f, NextLink(f)) \/ Goto(f, t)
    BY DEF Join
  <1>3. SoundTask(t)
    <2>1. <<>> \in Seq(Messages)
      BY EmptySeq
    <2>2. NewChannels(f) \subseteq Channels
      BY <1>1 DEF NewChannels, SoundTask, Tasks
    <2>3. task[f].joined \cup NewChannels(f) \in SUBSET Channels /\ task[f].tries + 1 \in Nat
      BY <1>1, <2>2 DEF SoundTask, Tasks
    <2>4. QED
      BY <1>1, <2>1, <2>3 DEF SoundTask, Tasks
  <1> HIDE DEF t
  <1>4. CASE Goto(f, NextLink(f))
    BY <1>1, <1>2, <1>4, GiveUpInv
  <1>5. CASE Goto(f, t)
    BY <1>2, <1>3, <1>5, QuietStep DEF IInv, TypeOK
  <1>6. QED
    BY <1>2, <1>4, <1>5

LEMMA NumberType ==
  ASSUME NEW n \in Numbers
  PROVE  /\ n[1] \in Nat /\ n[2] \in Nat /\ n = <<n[1], n[2]>>
         /\ n[1] < 1000 /\ n[2] < 10000
  <1>1. n = <<n[1], n[2]>> /\ n[1] \in 0..999 /\ n[2] \in 0..9999
    BY DEF Numbers, Seasons, Episodes
  <1>2. \A i : i \in 0..999 => i \in Nat /\ i < 1000
    BY SMT
  <1>3. \A i : i \in 0..9999 => i \in Nat /\ i < 10000
    BY SMT
  <1>4. QED
    BY <1>1, <1>2, <1>3

\* A file of a batch brings its own number, that of a link its label.
LEMMA NumberOfFile ==
  ASSUME NEW f \in Fetchers, SoundTask(task[f]), task[f].todo # <<>>, NEW m \in Files
  PROVE  NumberOf(f, m) \in Numbers
  <1>1. Season[f] \in Seasons
    BY NumbersAreParsed
  <1>2. CASE IsBatch(f)
    <2>1. m.file[2] \in Numbers
      BY DEF Files, Messages
    <2>2. m.file[2][1] \in Seasons /\ m.file[2][2] \in Episodes
      BY <2>1 DEF Numbers
    <2>3. QED
      BY <1>1, <1>2, <2>2 DEF NumberOf, Numbers
  <1>3. CASE ~IsBatch(f)
    <2>1. Label[Link(f)] \in Episodes
      BY <1>3, LinkType, NumbersAreParsed DEF IsBatch
    <2>2. QED
      BY <1>1, <1>3, <2>1 DEF NumberOf, Numbers
  <1>4. QED
    BY <1>2, <1>3

LEMMA RowType ==
  ASSUME NEW f \in Fetchers, SoundTask(task[f]), task[f].todo # <<>>, NEW m \in Files
  PROVE  /\ Row(f, m) \in Rows
         /\ Row(f, m).id = SourceId(Row(f, m).msg, Row(f, m).number)
         /\ Row(f, m).msg # 0
  <1>1. m.file \in Nat \X Numbers /\ m.of \in Links /\ m.astray \in BOOLEAN
    BY DEF Files, Messages
  <1>2. PICK number \in Numbers : number = NumberOf(f, m)
    BY NumberOfFile
  <1>3. Announcement[f] \in Nat /\ Announcement[f] # 0
    BY AnnouncementsAreNumbered
  <1>4. SourceId(Announcement[f], number) \in Nat
    <2>1. number[1] \in Nat /\ number[2] \in Nat
      BY <1>2, NumberType
    <2>2. QED
      BY <1>3, <2>1, SMTT(30) DEF SourceId
  <1>5. Link(f) \in Links
    BY LinkType
  <1>6. Row(f, m) = [msg |-> Announcement[f], number |-> number,
                     id |-> SourceId(Announcement[f], number),
                     file |-> m.file, link |-> Link(f), of |-> m.of,
                     astray |-> m.astray]
    BY <1>2 DEF Row
  <1>7. QED
    BY <1>1, <1>2, <1>3, <1>4, <1>5, <1>6 DEF Rows

LEMMA StoreInv == ASSUME IInv, NEW f \in Fetchers, Store(f) PROVE IInv'
  <1> DEFINE row == Row(f, Head(task[f].files))
  <1>1. SoundTask(task[f]) /\ task[f].at = "store" /\ task[f].todo # <<>>
    BY DEF IInv, Store, SoundTask
  <1>2. SoundTask(AfterFile(f)) /\ Head(task[f].files) \in Files
    BY <1>1, AfterFileSound
  <1>3. row \in Rows /\ row.id = SourceId(row.msg, row.number) /\ row.msg # 0
    BY <1>1, <1>2, RowType
  <1>4. /\ Goto(f, AfterFile(f)) /\ UNCHANGED <<sent, abandoned>>
        /\ stored' = stored \cup {row}
    BY DEF Store
  <1> HIDE DEF row
  <1>5. \A g \in Fetchers : SoundTask(task'[g])
    BY <1>2, <1>4 DEF IInv, TypeOK, Goto
  <1>6. task' \in [Fetchers -> Tasks]
    BY <1>2, <1>4 DEF IInv, TypeOK, Goto, SoundTask, Tasks
  <1>7. stored' \subseteq Rows /\ IdsArePacked'
    BY <1>3, <1>4 DEF IInv, TypeOK, IdsArePacked
  <1>8. QED
    BY <1>4, <1>5, <1>6, <1>7 DEF IInv, TypeOK, Tasks

LEMMA DiscardInv == ASSUME IInv, NEW f \in Fetchers, Discard(f) PROVE IInv'
  <1>1. SoundTask(AfterFile(f))
    BY AfterFileSound DEF IInv, Discard
  <1>2. Goto(f, AfterFile(f)) /\ UNCHANGED <<sent, stored, abandoned>>
    BY DEF Discard
  <1>3. QED
    BY <1>1, <1>2, QuietStep DEF IInv, TypeOK

LEMMA InitIInv == Init => IInv
  <1> SUFFICES ASSUME Init PROVE IInv
    OBVIOUS
  <1>1. \A f \in Fetchers : SoundTask(task[f])
    BY LinksAreLists, BeginSound DEF Init
  <1>2. task \in [Fetchers -> Tasks]
    BY <1>1 DEF Init, SoundTask
  <1>3. sent \in Seq(Messages)
    BY EmptySeq DEF Init
  <1>4. QED
    BY <1>1, <1>2, <1>3 DEF Init, IInv, TypeOK, Tasks, IdsArePacked

LEMMA NextIInv == IInv /\ [Next]_vars => IInv'
  <1> SUFFICES ASSUME IInv, [Next]_vars PROVE IInv'
    OBVIOUS
  <1>1. CASE Arrive
    BY <1>1, ArriveInv
  <1>2. ASSUME NEW f \in Fetchers, Step(f) PROVE IInv'
    <2>1. OpenFails(f) => IInv'
      BY GiveUpInv DEF OpenFails
    <2>2. ReadLast(f) => IInv'
      <3>1. ReadLast(f) => task[f].todo # <<>>
        BY RestSound DEF ReadLast, IInv
      <3>2. QED
        BY <3>1, GiveUpInv DEF ReadLast
    <2>3. StoreFails(f) => IInv'
      <3>1. StoreFails(f) => task[f].todo # <<>>
        BY DEF StoreFails, IInv, SoundTask
      <3>2. QED
        BY <3>1, GiveUpInv DEF StoreFails
    <2>4. QED
      BY <1>2, <2>1, <2>2, <2>3, OpenInv, ReadFileInv, ReadGateInv, ReadMenuInv,
         ReadOtherInv, TimeOutInv, JoinInv, StoreInv, DiscardInv DEF Step
  <1>3. CASE UNCHANGED vars
    BY <1>3 DEF vars, IInv, TypeOK, IdsArePacked
  <1>4. QED
    BY <1>1, <1>2, <1>3 DEF Next

-----------------------------------------------------------------------------
(* 4. The results.                                                         *)

\* Seven digits are room for a season of three and an episode of four
\* (processor.py:199): the packing loses nothing.
LEMMA Packing ==
  ASSUME NEW a \in Nat, NEW b \in Nat, NEW n \in Numbers, NEW k \in Numbers,
         SourceId(a, n) = SourceId(b, k)
  PROVE  a = b /\ n = k
  <1>1. ASSUME NEW s \in Nat, NEW t \in Nat, NEW e \in Nat, NEW g \in Nat,
               s < 1000, t < 1000, e < 10000, g < 10000,
               a * 10000000 + s * 10000 + e = b * 10000000 + t * 10000 + g
        PROVE  a = b /\ s = t /\ e = g
    BY <1>1, SMT
  <1>2. a * 10000000 + n[1] * 10000 + n[2] = b * 10000000 + k[1] * 10000 + k[2]
    BY SMT DEF SourceId
  <1>3. a = b /\ n[1] = k[1] /\ n[2] = k[2]
    BY <1>1, <1>2, NumberType, SMT
  <1>4. QED
    BY <1>3, NumberType, SMT

\* The strengthening holds in every state.
THEOREM DeepLinkInductive == Spec => []IInv
  <1>1. QED
    BY InitIInv, NextIInv, PTL DEF Spec

\* The variables of the fetcher have their types; no coroutine stores without
\* a file or talks without a link.
THEOREM DeepLinkTypeCorrect == Spec => []TypeOK
  <1>1. IInv => TypeOK
    BY DEF IInv
  <1>2. QED
    BY <1>1, DeepLinkInductive, PTL

\* Two linked episodes never share their source id, whatever announcements,
\* seasons and episodes the parsers read and whatever the bot answers; and it is
\* that of no message with an id of seven digits (processor.py:199).
THEOREM LinkedIdsDistinct == Spec => []SourceIdsDistinct
  <1>1. ASSUME IInv, NEW row \in stored, NEW other \in stored, row.id = other.id
        PROVE  row.msg = other.msg /\ row.number = other.number
    <2>1. /\ row.msg \in Nat /\ row.number \in Numbers
          /\ other.msg \in Nat /\ other.number \in Numbers
      BY <1>1 DEF IInv, TypeOK, Rows
    <2>2. SourceId(row.msg, row.number) = SourceId(other.msg, other.number)
      BY <1>1 DEF IInv, IdsArePacked
    <2>3. QED
      BY <2>1, <2>2, Packing, SMT
  <1>2. ASSUME IInv, NEW row \in stored PROVE row.id >= 10000000
    <2>1. /\ row.msg \in Nat /\ row.msg # 0 /\ row.number \in Numbers
          /\ row.id = SourceId(row.msg, row.number)
      BY <1>2 DEF IInv, TypeOK, Rows, IdsArePacked
    <2>2. row.number[1] \in Nat /\ row.number[2] \in Nat
      BY <2>1, NumberType
    <2>3. row.id = row.msg * 10000000 + row.number[1] * 10000 + row.number[2]
      BY <2>1 DEF SourceId
    <2>4. \A a, b, c \in Nat : a # 0 => a * 10000000 + b * 10000 + c >= 10000000
      BY SMT
    <2>5. QED
      BY <2>1, <2>2, <2>3, <2>4
  <1>3. IInv => SourceIdsDistinct
    BY <1>1, <1>2 DEF SourceIdsDistinct
  <1>4. QED
    BY <1>3, DeepLinkInductive, PTL

-----------------------------------------------------------------------------
(* 5. Whose answers are stored.                                            *)

\* The links whose conversation is open.
Live == {Link(f) : f \in Talking}

\* What is under way, or in a conversation, or collected of a batch, answers
\* the link of that conversation or one that was given up.
Answered(t, gone) ==
    /\ t.at = "wait" => t.inbox \in Seq(From(gone \cup {Head(t.todo)}))
    /\ t.at \in {"wait", "store"} => t.files \in Seq(From(gone \cup {Head(t.todo)}))

OwnLinks(f, t) == t.todo \in Seq(ToSet(LinksOf[f]))

AInv ==
    /\ IInv
    /\ \A f \in Fetchers : OwnLinks(f, task[f]) /\ Answered(task[f], abandoned)
    /\ \A f, g \in Talking : f = g
    /\ sent \in Seq(From(abandoned \cup Live))
    /\ RightFileUnlessMisled

LEMMA AnsweredMore ==
  ASSUME NEW t, NEW S, NEW T, S \subseteq T, Answered(t, S)
  PROVE  Answered(t, T)
  <1>1. Seq(From(S \cup {Head(t.todo)})) \subseteq Seq(From(T \cup {Head(t.todo)}))
    BY FromMore
  <1>2. QED
    BY <1>1 DEF Answered

\* What a step of one coroutine has to show.
LEMMA OneTask ==
  ASSUME AInv, IInv', NEW f \in Fetchers, NEW t, Goto(f, t),
         OwnLinks(f, t), Answered(t, abandoned'), abandoned \subseteq abandoned',
         \A g, h \in Talking' : g = h,
         sent' \in Seq(From(abandoned' \cup Live')),
         RightFileUnlessMisled'
  PROVE  AInv'
  <1>1. \A g \in Fetchers : task'[g] = IF g = f THEN t ELSE task[g]
    BY DEF AInv, IInv, TypeOK, Goto
  <1>2. ASSUME NEW g \in Fetchers
        PROVE  OwnLinks(g, task'[g]) /\ Answered(task'[g], abandoned')
    BY <1>1, AnsweredMore DEF AInv
  <1>3. QED
    BY <1>2 DEF AInv, OwnLinks, Answered

LEMMA StoredKept ==
  ASSUME AInv, stored' = stored, abandoned \subseteq abandoned'
  PROVE  RightFileUnlessMisled'
  BY DEF AInv, RightFileUnlessMisled

\* Coroutine f moves from t to another state.
LEMMA TalkingMoves ==
  ASSUME IInv, NEW f \in Fetchers, NEW t, Goto(f, t)
  PROVE  /\ Talking' = IF t.at = "wait" THEN Talking \cup {f} ELSE Talking \ {f}
         /\ \A g \in Fetchers : g # f => Link(g)' = Link(g)
         /\ Link(f)' = Head(t.todo)
  <1>1. task'[f] = t /\ \A g \in Fetchers : g # f => task'[g] = task[g]
    BY DEF IInv, TypeOK, Goto
  <1>2. QED
    BY <1>1 DEF Talking, Link

\* f does not talk, before and after.
LEMMA SilentAnswers ==
  ASSUME AInv, IInv', NEW f \in Fetchers, NEW t, Goto(f, t),
         task[f].at # "wait", t.at # "wait", OwnLinks(f, t), Answered(t, abandoned),
         sent' = sent, abandoned' = abandoned, RightFileUnlessMisled'
  PROVE  AInv'
  <1>1. Talking' = Talking /\ f \notin Talking
    BY TalkingMoves DEF AInv, Talking
  <1>2. \A g \in Talking : g \in Fetchers /\ Link(g)' = Link(g)
    BY <1>1, TalkingMoves DEF AInv, Talking
  <1>3. Live' = Live
    BY <1>1, <1>2 DEF Live
  <1>4. QED
    BY <1>1, <1>3, OneTask DEF AInv

\* f stops talking: what it has not received is given up.
LEMMA CloseAnswers ==
  ASSUME AInv, IInv', NEW f \in Fetchers, NEW t, Goto(f, t),
         task[f].at = "wait", t.at # "wait", OwnLinks(f, t), Answered(t, abandoned),
         Close, sent' = sent, stored' = stored
  PROVE  AInv'
  <1>1. \A g \in Talking : g = f
    BY DEF AInv, Talking
  <1>2. Talking' = {}
    BY <1>1, TalkingMoves DEF AInv
  <1>3. abandoned \subseteq abandoned' /\ \A m \in ToSet(sent) : m.of \in abandoned'
    BY DEF Close
  <1>4. sent \in Seq(From(abandoned'))
    <2>1. sent \in Seq(From(abandoned \cup Live))
      BY DEF AInv
    <2>2. \A i \in DOMAIN sent : sent[i] \in From(abandoned \cup Live)
      BY <2>1
    <2>3. \A i \in DOMAIN sent : sent[i] \in ToSet(sent)
      BY DEF ToSet
    <2>4. \A i \in DOMAIN sent : sent[i] \in From(abandoned')
      BY <1>3, <2>2, <2>3 DEF From
    <2>5. QED
      BY <2>1, <2>4
  <1>5. sent' \in Seq(From(abandoned' \cup Live'))
    BY <1>4, FromMore
  <1>6. Answered(t, abandoned')
    BY <1>3, AnsweredMore
  <1>7. RightFileUnlessMisled'
    BY <1>3, StoredKept
  <1>8. QED
    BY <1>2, <1>3, <1>5, <1>6, <1>7, OneTask

\* f goes on talking about its link.
LEMMA TalkAnswers ==
  ASSUME AInv, IInv', NEW f \in Fetchers, NEW t, Goto(f, t),
         task[f].at = "wait", t.at = "wait", t.todo = task[f].todo,
         Answered(t, abandoned),
         sent' \in Seq(From(abandoned \cup {Link(f)})),
         stored' = stored, abandoned' = abandoned
  PROVE  AInv'
  <1>1. Talking' = Talking /\ \A g \in Talking : g = f
    BY TalkingMoves DEF AInv, Talking
  <1>2. f \in Talking' /\ Link(f)' = Link(f)
    BY <1>1, TalkingMoves DEF AInv, Talking, Link
  <1>3. Link(f) \in Live'
    BY <1>2 DEF Live
  <1>4. sent' \in Seq(From(abandoned' \cup Live'))
    <2>1. abandoned \cup {Link(f)} \subseteq abandoned' \cup Live'
      BY <1>3
    <2>2. QED
      BY <2>1, FromMore
  <1>5. OwnLinks(f, t)
    BY DEF AInv, OwnLinks
  <1>6. RightFileUnlessMisled'
    BY StoredKept
  <1>7. QED
    BY <1>1, <1>4, <1>5, <1>6, OneTask

\* The next link is another one of the same announcement.
LEMMA NextLinkAnswers ==
  ASSUME AInv, NEW f \in Fetchers, task[f].todo # <<>>
  PROVE  /\ OwnLinks(f, NextLink(f)) /\ NextLink(f).at = "link"
         /\ \A gone : Answered(NextLink(f), gone)
  <1>1. task[f].todo \in Seq(ToSet(LinksOf[f]))
    BY DEF AInv, OwnLinks
  <1>2. Tail(task[f].todo) \in Seq(ToSet(LinksOf[f]))
    BY <1>1, HeadTailProperties
  <1>3. QED
    BY <1>2 DEF OwnLinks, NextLink, Begin, Answered

\* What the conversation of f has: its first message, and the others.
LEMMA InboxAnswers ==
  ASSUME AInv, NEW f \in Fetchers, Reads(f)
  PROVE  /\ Head(task[f].inbox) \in From(abandoned \cup {Link(f)})
         /\ Tail(task[f].inbox) \in Seq(From(abandoned \cup {Link(f)}))
         /\ task[f].files \in Seq(From(abandoned \cup {Link(f)}))
         /\ SoundTask(task[f]) /\ task[f].at = "wait" /\ task[f].todo # <<>>
         /\ sent \in Seq(From(abandoned \cup {Link(f)}))
  <1>1. SoundTask(task[f]) /\ task[f].at = "wait" /\ task[f].inbox # <<>>
    BY DEF AInv, IInv, Reads
  <1>2. /\ task[f].inbox \in Seq(From(abandoned \cup {Link(f)}))
        /\ task[f].files \in Seq(From(abandoned \cup {Link(f)}))
    BY <1>1 DEF AInv, Answered, Link
  <1>3. Live = {Link(f)}
    <2>1. f \in Talking /\ \A g \in Talking : g = f
      BY <1>1 DEF AInv, Talking
    <2>2. QED
      BY <2>1 DEF Live
  <1>4. sent \in Seq(From(abandoned \cup {Link(f)}))
    BY <1>3 DEF AInv
  <1>5. QED
    BY <1>1, <1>2, <1>4, HeadTailProperties DEF SoundTask

LEMMA RestAnswers ==
  ASSUME AInv, NEW f \in Fetchers, Reads(f)
  PROVE  /\ Rest(f).at = "wait" /\ Rest(f).todo = task[f].todo
         /\ Rest(f).files = task[f].files
         /\ Answered(Rest(f), abandoned)
         /\ \A files \in Seq(From(abandoned \cup {Link(f)})) :
               LET t == [Rest(f) EXCEPT !.files = files]
               IN  t.at = "wait" /\ t.todo = task[f].todo /\ Answered(t, abandoned)
  <1> DEFINE inbox == Tail(task[f].inbox)
             read == task[f].read + 1
  <1>1. Rest(f) = [task[f] EXCEPT !.inbox = inbox, !.read = read]
    BY DEF Rest
  <1>2. task[f] \in Tasks /\ task[f].at = "wait"
    BY InboxAnswers DEF SoundTask
  <1>3. /\ inbox \in Seq(From(abandoned \cup {Link(f)}))
        /\ task[f].files \in Seq(From(abandoned \cup {Link(f)}))
    BY InboxAnswers
  <1> HIDE DEF inbox, read
  <1>4. /\ Rest(f).at = "wait" /\ Rest(f).todo = task[f].todo
        /\ Rest(f).files = task[f].files /\ Rest(f).inbox = inbox
    BY <1>1, <1>2 DEF Tasks
  <1>5. Answered(Rest(f), abandoned)
    BY <1>3, <1>4 DEF Answered, Link
  <1>6. ASSUME NEW files \in Seq(From(abandoned \cup {Link(f)}))
        PROVE  LET t == [Rest(f) EXCEPT !.files = files]
               IN  t.at = "wait" /\ t.todo = task[f].todo /\ Answered(t, abandoned)
    <2> DEFINE t == [Rest(f) EXCEPT !.files = files]
    <2>1. t.at = "wait" /\ t.todo = task[f].todo /\ t.inbox = inbox /\ t.files = files
      BY <1>1, <1>2 DEF Tasks
    <2> HIDE DEF t
    <2>2. Answered(t, abandoned)
      BY <1>3, <2>1 DEF Answered, Link
    <2>3. QED
      BY <2>1, <2>2 DEF t
  <1>7. QED
    BY <1>4, <1>5, <1>6

-----------------------------------------------------------------------------
LEMMA ArriveAnswers == ASSUME AInv, IInv', Arrive PROVE AInv'
  <1>1. /\ sent # <<>> /\ sent' = Tail(sent)
        /\ stored' = stored /\ abandoned' = abandoned
        /\ sent \in Seq(From(abandoned \cup Live))
    BY DEF Arrive, AInv
  <1>2. Head(sent) \in From(abandoned \cup Live) /\ Tail(sent) \in Seq(From(abandoned \cup Live))
    BY <1>1, HeadTailProperties
  <1>3. ASSUME NEW f \in Fetchers
        PROVE  /\ task'[f].at = task[f].at /\ task'[f].todo = task[f].todo
               /\ task'[f].files = task[f].files
               /\ Answered(task'[f], abandoned)
    <2> DEFINE inbox == Append(task[f].inbox, Head(sent))
               t == [task[f] EXCEPT !.inbox = inbox]
    <2>1. task[f] \in Tasks /\ Answered(task[f], abandoned)
      BY DEF AInv, IInv, SoundTask
    <2>2. CASE f \in Talking
      <3>1. task'[f] = t /\ task[f].at = "wait"
        BY <2>2 DEF Arrive, Talking
      <3>2. Live = {Link(f)}
        BY <2>2 DEF AInv, Live
      <3>3. task[f].inbox \in Seq(From(abandoned \cup {Link(f)}))
        BY <2>1, <3>1 DEF Answered, Link
      <3>4. inbox \in Seq(From(abandoned \cup {Link(f)}))
        BY <1>2, <3>2, <3>3, AppendProperties
      <3> HIDE DEF inbox
      <3>5. /\ t.at = task[f].at /\ t.todo = task[f].todo /\ t.files = task[f].files
            /\ t.inbox = inbox
        BY <2>1 DEF Tasks
      <3> HIDE DEF t
      <3>6. Answered(t, abandoned)
        BY <2>1, <3>4, <3>5 DEF Answered, Link
      <3>7. QED
        BY <3>1, <3>5, <3>6
    <2>3. CASE f \notin Talking
      BY <2>1, <2>3 DEF Arrive
    <2>4. QED
      BY <2>2, <2>3
  <1>4. Talking' = Talking /\ \A f \in Fetchers : Link(f)' = Link(f)
    BY <1>3 DEF Talking, Link
  <1>5. Live' = Live
    BY <1>4 DEF Live, Talking
  <1>6. \A f \in Fetchers : OwnLinks(f, task'[f]) /\ Answered(task'[f], abandoned')
    BY <1>1, <1>3 DEF AInv, OwnLinks
  <1>7. RightFileUnlessMisled'
    BY <1>1, StoredKept
  <1>8. QED
    BY <1>1, <1>2, <1>4, <1>5, <1>6, <1>7 DEF AInv, OwnLinks, Answered

LEMMA OpenAnswers == ASSUME AInv, IInv', NEW f \in Fetchers, Open(f) PROVE AInv'
  <1> DEFINE t == [task[f] EXCEPT !.at = "wait", !.inbox = <<>>, !.read = 0, !.files = <<>>]
  <1>1. /\ SoundTask(task[f]) /\ Link(f) \in Links /\ Talking = {} /\ Started(Link(f))
        /\ Goto(f, t) /\ stored' = stored /\ abandoned' = abandoned
    BY LinkType DEF AInv, IInv, Open, MayTalk
  <1>2. t.at = "wait" /\ t.todo = task[f].todo /\ t.inbox = <<>> /\ t.files = <<>>
    BY <1>1 DEF SoundTask, Tasks
  <1> HIDE DEF t
  <1>3. Talking' = {f} /\ Link(f)' = Link(f)
    BY <1>1, <1>2, TalkingMoves DEF AInv, Link
  <1>4. Live' = {Link(f)}
    BY <1>3 DEF Live
  <1>5. sent' \in Seq(From(abandoned' \cup Live'))
    <2>1. Live = {}
      BY <1>1 DEF Live
    <2>2. sent \in Seq(From(abandoned \cup {Link(f)}))
      BY <2>1, FromMore DEF AInv
    <2>3. sent' \in Seq(From(abandoned \cup {Link(f)}))
      BY <1>1, <2>2, TurnedFrom DEF Turned
    <2>4. QED
      BY <1>1, <1>4, <2>3
  <1>6. Answered(t, abandoned')
    <2>1. \A S : <<>> \in Seq(S)
      BY EmptySeq
    <2>2. QED
      BY <1>2, <2>1 DEF Answered
  <1>7. OwnLinks(f, t)
    BY <1>2 DEF AInv, OwnLinks
  <1>8. RightFileUnlessMisled'
    BY <1>1, StoredKept
  <1>9. QED
    BY <1>1, <1>3, <1>5, <1>6, <1>7, <1>8, OneTask

\* The link is given up, talking or not.
LEMMA GiveUpAnswers ==
  ASSUME AInv, IInv', NEW f \in Fetchers, task[f].todo # <<>>, Goto(f, NextLink(f)),
         \/ task[f].at = "wait" /\ Close
         \/ task[f].at # "wait" /\ abandoned' = abandoned,
         UNCHANGED <<sent, stored>>
  PROVE  AInv'
  <1>1. CASE task[f].at = "wait" /\ Close
    BY <1>1, NextLinkAnswers, CloseAnswers
  <1>2. CASE task[f].at # "wait" /\ abandoned' = abandoned
    BY <1>2, NextLinkAnswers, SilentAnswers, StoredKept
  <1>3. QED
    BY <1>1, <1>2

LEMMA ReadFileAnswers == ASSUME AInv, IInv', NEW f \in Fetchers, ReadFile(f) PROVE AInv'
  <1> DEFINE m == Head(task[f].inbox)
             files == Append(task[f].files, m)
             t == [Rest(f) EXCEPT !.files = files]
             u == [task[f] EXCEPT !.at = "store", !.files = files]
  <1>1. /\ Reads(f) /\ UNCHANGED <<sent, stored>>
        /\ \/ Goto(f, t) /\ abandoned' = abandoned
           \/ Goto(f, u) /\ Close
    BY DEF ReadFile
  <1>2. files \in Seq(From(abandoned \cup {Link(f)}))
    BY <1>1, InboxAnswers, AppendProperties
  <1> HIDE DEF m, files
  <1>3. CASE Goto(f, t) /\ abandoned' = abandoned
    <2>1. t.at = "wait" /\ t.todo = task[f].todo /\ Answered(t, abandoned)
      BY <1>1, <1>2, RestAnswers
    <2> HIDE DEF t
    <2>2. task[f].at = "wait" /\ sent' \in Seq(From(abandoned \cup {Link(f)}))
      BY <1>1, InboxAnswers
    <2>3. QED
      BY <1>1, <1>3, <2>1, <2>2, TalkAnswers
  <1>4. CASE Goto(f, u) /\ Close
    <2>1. task[f] \in Tasks /\ task[f].at = "wait"
      BY <1>1, InboxAnswers DEF SoundTask
    <2>2. u.at = "store" /\ u.todo = task[f].todo /\ u.files = files
      BY <2>1 DEF Tasks
    <2> HIDE DEF u
    <2>3. Answered(u, abandoned) /\ OwnLinks(f, u)
      BY <1>2, <2>2 DEF Answered, Link, AInv, OwnLinks
    <2>4. QED
      BY <1>1, <1>4, <2>1, <2>2, <2>3, CloseAnswers
  <1>5. QED
    BY <1>1, <1>3, <1>4

LEMMA ReadGateAnswers == ASSUME AInv, IInv', NEW f \in Fetchers, ReadGate(f) PROVE AInv'
  <1> DEFINE c == Head(task[f].inbox).channels
             t == [task[f] EXCEPT !.at = "join", !.asked = c]
  <1>1. Reads(f) /\ Goto(f, t) /\ Close /\ UNCHANGED <<sent, stored>>
    BY DEF ReadGate
  <1>2. task[f] \in Tasks /\ task[f].at = "wait"
    BY <1>1, InboxAnswers DEF SoundTask
  <1> HIDE DEF c
  <1>3. t.at = "join" /\ t.todo = task[f].todo
    BY <1>2 DEF Tasks
  <1> HIDE DEF t
  <1>4. Answered(t, abandoned) /\ OwnLinks(f, t)
    BY <1>3 DEF Answered, AInv, OwnLinks
  <1>5. QED
    BY <1>1, <1>2, <1>3, <1>4, CloseAnswers

LEMMA ReadMenuAnswers == ASSUME AInv, IInv', NEW f \in Fetchers, ReadMenu(f) PROVE AInv'
  <1>1. /\ Reads(f) /\ Goto(f, Rest(f)) /\ Turned(Head(task[f].inbox).of)
        /\ stored' = stored /\ abandoned' = abandoned
    BY DEF ReadMenu, Clickable, Turned
  <1>2. PICK l \in Links : l = Head(task[f].inbox).of /\ l \in abandoned \cup {Link(f)}
    BY <1>1, InboxAnswers DEF From, Messages
  <1>3. sent' \in Seq(From(abandoned \cup {Link(f)}))
    BY <1>1, <1>2, InboxAnswers, TurnedFrom
  <1>4. QED
    BY <1>1, <1>3, InboxAnswers, RestAnswers, TalkAnswers

LEMMA ReadOtherAnswers == ASSUME AInv, IInv', NEW f \in Fetchers, ReadOther(f) PROVE AInv'
  <1>1. Reads(f) /\ UNCHANGED <<sent, stored>>
    BY DEF ReadOther
  <1>2. CASE Goto(f, Rest(f)) /\ abandoned' = abandoned
    BY <1>1, <1>2, InboxAnswers, RestAnswers, TalkAnswers
  <1>3. CASE Goto(f, NextLink(f)) /\ Close
    BY <1>1, <1>3, InboxAnswers, GiveUpAnswers
  <1>4. QED
    BY <1>2, <1>3 DEF ReadOther

LEMMA TimeOutAnswers == ASSUME AInv, IInv', NEW f \in Fetchers, TimeOut(f) PROVE AInv'
  <1> DEFINE t == [task[f] EXCEPT !.at = "store"]
  <1>1. /\ SoundTask(task[f]) /\ task[f].at = "wait" /\ task[f].todo # <<>>
        /\ Close /\ UNCHANGED <<sent, stored>>
        /\ Goto(f, NextLink(f)) \/ Goto(f, t)
    BY DEF AInv, IInv, TimeOut, SoundTask
  <1>2. t.at = "store" /\ t.todo = task[f].todo /\ t.files = task[f].files
    BY <1>1 DEF SoundTask, Tasks
  <1> HIDE DEF t
  <1>3. Answered(t, abandoned) /\ OwnLinks(f, t)
    BY <1>1, <1>2 DEF AInv, Answered, OwnLinks
  <1>4. CASE Goto(f, NextLink(f))
    BY <1>1, <1>4, GiveUpAnswers
  <1>5. CASE Goto(f, t)
    BY <1>1, <1>2, <1>3, <1>5, CloseAnswers
  <1>6. QED
    BY <1>1, <1>4, <1>5

LEMMA JoinAnswers == ASSUME AInv, IInv', NEW f \in Fetchers, Join(f) PROVE AInv'
  <1> DEFINE joined == task[f].joined \cup NewChannels(f)
             tries == task[f].tries + 1
             t == [task[f] EXCEPT !.at = "link", !.inbox = <<>>, !.asked = {},
                                  !.joined = joined, !.tries = tries]
  <1>1. /\ SoundTask(task[f]) /\ task[f].at = "join" /\ task[f].todo # <<>>
        /\ UNCHANGED <<sent, stored, abandoned>>
        /\ Goto(f, NextLink(f)) \/ Goto(f, t)
    BY DEF AInv, IInv, Join, SoundTask
  <1> HIDE DEF joined, tries
  <1>2. t.at = "link" /\ t.todo = task[f].todo
    BY <1>1 DEF SoundTask, Tasks
  <1> HIDE DEF t
  <1>3. Answered(t, abandoned) /\ OwnLinks(f, t)
    BY <1>2 DEF AInv, Answered, OwnLinks
  <1>4. CASE Goto(f, NextLink(f))
    BY <1>1, <1>4, GiveUpAnswers
  <1>5. CASE Goto(f, t)
    BY <1>1, <1>2, <1>3, <1>5, StoredKept, SilentAnswers
  <1>6. QED
    BY <1>1, <1>4, <1>5

\* The rest of the files, or the next link.
LEMMA AfterFileAnswers ==
  ASSUME AInv, NEW f \in Fetchers, task[f].at = "store"
  PROVE  /\ OwnLinks(f, AfterFile(f)) /\ AfterFile(f).at # "wait"
         /\ Answered(AfterFile(f), abandoned)
         /\ Head(task[f].files) \in From(abandoned \cup {Link(f)})
         /\ task[f].todo # <<>>
  <1>1. SoundTask(task[f]) /\ task[f].todo # <<>> /\ task[f].files # <<>>
    BY DEF AInv, IInv, SoundTask
  <1>2. task[f].files \in Seq(From(abandoned \cup {Link(f)}))
    BY DEF AInv, Answered, Link
  <1>3. /\ Head(task[f].files) \in From(abandoned \cup {Link(f)})
        /\ Tail(task[f].files) \in Seq(From(abandoned \cup {Link(f)}))
    BY <1>1, <1>2, HeadTailProperties
  <1>4. CASE Len(task[f].files) = 1
    BY <1>1, <1>3, <1>4, NextLinkAnswers DEF AfterFile
  <1>5. CASE Len(task[f].files) # 1
    <2> DEFINE files == Tail(task[f].files)
               t == [task[f] EXCEPT !.files = files]
    <2>1. AfterFile(f) = t
      BY <1>5 DEF AfterFile
    <2> HIDE DEF files
    <2>2. t.at = "store" /\ t.todo = task[f].todo /\ t.files = files
      BY <1>1 DEF SoundTask, Tasks
    <2> HIDE DEF t
    <2>3. Answered(t, abandoned) /\ OwnLinks(f, t)
      BY <1>3, <2>2 DEF AInv, Answered, OwnLinks, Link, files
    <2>4. QED
      BY <1>1, <1>3, <2>1, <2>2, <2>3
  <1>6. QED
    BY <1>4, <1>5

\* The announcement of a link is the one of the coroutine that follows it.
LEMMA OwnAnnouncement ==
  ASSUME NEW f \in Fetchers, NEW l \in ToSet(LinksOf[f])
  PROVE  AnnouncementOf(l) = Announcement[f]
  <1>1. PICK g \in Fetchers : g = CHOOSE h \in Fetchers : l \in ToSet(LinksOf[h])
    OBVIOUS
  <1>2. l \in ToSet(LinksOf[g])
    BY <1>1
  <1>3. Announcement[g] = Announcement[f]
    BY <1>2, LinksAreNotShared
  <1>4. QED
    BY <1>1, <1>3 DEF AnnouncementOf

LEMMA RowAnswers ==
  ASSUME AInv, NEW f \in Fetchers, task[f].at = "store"
  PROVE  LET row == Row(f, Head(task[f].files))
         IN  IsPromised(row) \/ row.of \in abandoned \/ row.astray
  <1> DEFINE m == Head(task[f].files)
             row == Row(f, m)
  <1>1. m \in From(abandoned \cup {Link(f)}) /\ task[f].todo # <<>>
    BY AfterFileAnswers
  <1>2. m \in Files
    BY AfterFileSound DEF AInv, IInv
  <1>3. Link(f) \in ToSet(LinksOf[f]) /\ Link(f) \in Links
    <2>1. task[f].todo \in Seq(ToSet(LinksOf[f]))
      BY DEF AInv, OwnLinks
    <2>2. QED
      BY <1>1, <2>1, HeadTailProperties DEF Link, Links
  <1> HIDE DEF m
  <1>4. m.kind = "file"
    BY <1>2 DEF Files
  <1>5. /\ row.file = m.file /\ row.msg = Announcement[f] /\ row.link = Link(f)
        /\ row.of = m.of /\ row.astray = m.astray
    BY DEF Row
  <1> HIDE DEF row
  <1>6. CASE m.of \in abandoned
    BY <1>5, <1>6 DEF row, m
  <1>7. CASE m.of = Link(f)
    <2>1. /\ m.file[1] = AnnouncementOf(Link(f))
          /\ m.file[2] \in Promised(Link(f)) \/ m.astray
      BY <1>1, <1>4, <1>7 DEF From
    <2>2. m.file[1] = Announcement[f]
      BY <1>3, <2>1, OwnAnnouncement
    <2>3. IsPromised(row) \/ row.astray
      BY <1>5, <2>1, <2>2 DEF IsPromised
    <2>4. QED
      BY <2>3 DEF row, m
  <1>8. QED
    BY <1>1, <1>6, <1>7 DEF From

LEMMA StoreAnswers == ASSUME AInv, IInv', NEW f \in Fetchers, Store(f) PROVE AInv'
  <1> DEFINE row == Row(f, Head(task[f].files))
  <1>1. /\ task[f].at = "store" /\ stored' = stored \cup {row}
        /\ Goto(f, AfterFile(f)) /\ UNCHANGED <<sent, abandoned>>
    BY DEF Store
  <1>2. IsPromised(row) \/ row.of \in abandoned \/ row.astray
    BY <1>1, RowAnswers
  <1> HIDE DEF row
  <1>3. RightFileUnlessMisled'
    BY <1>1, <1>2 DEF AInv, RightFileUnlessMisled
  <1>4. QED
    BY <1>1, <1>3, AfterFileAnswers, SilentAnswers

LEMMA DiscardAnswers == ASSUME AInv, IInv', NEW f \in Fetchers, Discard(f) PROVE AInv'
  <1>1. /\ task[f].at = "store" /\ stored' = stored
        /\ Goto(f, AfterFile(f)) /\ UNCHANGED <<sent, abandoned>>
    BY DEF Discard
  <1>2. RightFileUnlessMisled'
    BY <1>1, StoredKept
  <1>3. QED
    BY <1>1, <1>2, AfterFileAnswers, SilentAnswers

LEMMA InitAnswers == Init => AInv
  <1> SUFFICES ASSUME Init PROVE AInv
    OBVIOUS
  <1>1. IInv
    BY InitIInv
  <1>2. ASSUME NEW f \in Fetchers
        PROVE  OwnLinks(f, task[f]) /\ Answered(task[f], abandoned) /\ task[f].at = "link"
    <2>1. LinksOf[f] \in Seq(ToSet(LinksOf[f]))
      BY LinksAreLists DEF ToSet
    <2>2. QED
      BY <2>1 DEF Init, Begin, OwnLinks, Answered
  <1>3. Talking = {}
    BY <1>2 DEF Talking
  <1>4. sent \in Seq(From(abandoned \cup Live)) /\ RightFileUnlessMisled
    BY EmptySeq DEF Init, RightFileUnlessMisled
  <1>5. QED
    BY <1>1, <1>2, <1>3, <1>4 DEF AInv

LEMMA NextAnswers == AInv /\ [Next]_vars => AInv'
  <1> SUFFICES ASSUME AInv, [Next]_vars PROVE AInv'
    OBVIOUS
  <1>0. IInv'
    BY NextIInv DEF AInv
  <1>1. CASE Arrive
    BY <1>0, <1>1, ArriveAnswers
  <1>2. ASSUME NEW f \in Fetchers, Step(f) PROVE AInv'
    <2>1. OpenFails(f) => AInv'
      BY <1>0, GiveUpAnswers DEF OpenFails
    <2>2. ReadLast(f) => AInv'
      BY <1>0, InboxAnswers, GiveUpAnswers DEF ReadLast
    <2>3. StoreFails(f) => AInv'
      BY <1>0, AfterFileAnswers, GiveUpAnswers DEF StoreFails
    <2>4. QED
      BY <1>0, <1>2, <2>1, <2>2, <2>3, OpenAnswers, ReadFileAnswers, ReadGateAnswers,
         ReadMenuAnswers, ReadOtherAnswers, TimeOutAnswers, JoinAnswers, StoreAnswers,
         DiscardAnswers DEF Step
  <1>3. CASE UNCHANGED vars
    BY <1>0, <1>3 DEF vars, AInv, OwnLinks, Answered, Talking, Live, Link, RightFileUnlessMisled
  <1>4. QED
    BY <1>1, <1>2, <1>3 DEF Next

\* What is stored for a link is one of the files the link is for, unless the bot
\* answered a link after it had been given up (deep_link_fetcher.py:233) or the
\* last button on the way was not one for the episode (deep_link_fetcher.py:210):
\* however slow the bot is, whatever menus and gates it sends and however many
\* coroutines follow links, an answer in time is never taken for that of another
\* link, and a button with the number of the episode on it never leads astray.
THEOREM LateAnswersOnly == Spec => []RightFileUnlessMisled
  <1>1. AInv => RightFileUnlessMisled
    BY DEF AInv
  <1>2. QED
    BY <1>1, InitAnswers, NextAnswers, PTL DEF Spec

=============================================================================
