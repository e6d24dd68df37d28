------------------------------ MODULE DeepLink ------------------------------
(***************************************************************************)
(* How the listener fetches the episodes that an announcement only links   *)
(* to: it talks to a delivery bot, in the name of a user, and stores the   *)
(* files the bot sends.                                                    *)
(*                                                                         *)
(* Every announcement is handled by a coroutine of its own, link after     *)
(* link.  A message of the bot does not say what it answers: it goes to    *)
(* the conversation that is open when it arrives, and the bot may be       *)
(* slower than the timeouts.                                               *)
(*                                                                         *)
(* Simplifications.  There is one bot, its messages keep their order, and  *)
(* a button of a menu leads to episodes of the anime whose link brought    *)
(* it.  Of a button, the number on it and whether it looks like one to go  *)
(* on with; of a file, the season and the episode in its name.  Links      *)
(* that are not followed (blocked, unreadable, subtitled) are not there.   *)
(* relay_to_storage and the upsert are one step (module Listener).  An     *)
(* announcement stands for its anime.                                      *)
(***************************************************************************)
EXTENDS Naturals, FiniteSets, Sequences, SequencesExt

CONSTANTS
    Fetchers,     \* the coroutines, one per announcement
    Announcement, \* per coroutine: the id of its message
    LinksOf,      \* per coroutine: its links, those of one episode first
    Season,       \* per coroutine: the season its announcement names, or 0
    Label,        \* per link: the episode it names; Batch if it names none
    Delivers,     \* per link: what the bot sends without a menu, as the pairs
                  \* <<season, episode>> the files name (season 0: none)
    Behind,       \* per link: what its menus lead to
    Batch,
    Menus,        \* the menus of the bot: sequences of buttons
    Channels,     \* sponsor channels
    MaxHops,      \* 4: MAX_MENU_HOPS
    MaxJoins,     \* 2: MAX_JOIN_RETRIES
    MaxFiles,     \* 60: MAX_BATCH_FILES
    MaxMessages,  \* 100: messages Telethon keeps of one conversation (external)
    MaxLate       \* bound on the messages that are under way

\* Message ids start at 1.
ASSUME AnnouncementsAreNumbered == Announcement \in [Fetchers -> Nat \ {0}]
ASSUME LimitsAreCounted ==
    {MaxHops, MaxJoins, MaxFiles, MaxMessages, MaxLate} \subseteq Nat

Links == UNION {ToSet(LinksOf[f]) : f \in Fetchers}

\* The seasons and episodes that are read: three digits and four.
Seasons == 0..999
Episodes == 0..9999
Numbers == Seasons \X Episodes

\* "Episode 3", "Season 1" and "Watch"; those with an episode look like one to
\* go on with, too.
Buttons == [kind : {"episode", "season", "watch"}, number : Nat]

ASSUME LinksAreLists == \A f \in Fetchers : LinksOf[f] \in Seq(Links)
ASSUME NumbersAreParsed ==
    /\ \A f \in Fetchers : Season[f] \in Seasons
    /\ \A l \in Links :
           /\ Label[l] \in {Batch} \/ Label[l] \in Episodes
           /\ \A found \in {Delivers[l], Behind[l]} :
                  IsFiniteSet(found) /\ found \subseteq Numbers
ASSUME MenusHaveButtons == Menus \subseteq Seq(Buttons)
\* A link is an occurrence in one announcement.
ASSUME LinksAreNotShared ==
    \A f, g \in Fetchers :
        ToSet(LinksOf[f]) \cap ToSet(LinksOf[g]) # {} => Announcement[f] = Announcement[g]

VARIABLES
    task,      \* per coroutine: where it is and its locals
    sent,      \* the bot's messages that have not arrived, in order (external)
    stored,    \* the episodes stored
    abandoned  \* links whose conversation ended before all its answers were
               \* there (history)

vars == <<task, sent, stored, abandoned>>

\* read: messages taken from the conversation; inbox: those it holds besides;
\* tries: attempts made; asked: the channels the last gate named.
Begin(links) ==
    [at |-> "link", todo |-> links, inbox |-> <<>>, read |-> 0, files |-> <<>>,
     tries |-> 0, joined |-> {}, asked |-> {}]

Init ==
    /\ task = [f \in Fetchers |-> Begin(LinksOf[f])]
    /\ sent = <<>>
    /\ stored = {}
    /\ abandoned = {}

Link(f) == Head(task[f].todo)
IsBatch(f) == Label[Link(f)] = Batch

-----------------------------------------------------------------------------
(* The bot.                                                                *)

\* file: the anime and the number it names; of: the link that was followed;
\* astray: it came by a button that did not ask for what the link is about.
Message(kind, l, channels, buttons, file, astray) ==
    [kind |-> kind, of |-> l, channels |-> channels, buttons |-> buttons,
     file |-> file, astray |-> astray]

AnnouncementOf(l) ==
    Announcement[CHOOSE f \in Fetchers : l \in ToSet(LinksOf[f])]

FileMessages(l, found, astray) ==
    {Message("file", l, {}, <<>>, <<AnnouncementOf(l), n>>, astray) : n \in found}

\* A bot answers with a menu, a gate, a file, or a text and then a file; it may
\* send all it has found; or it does not answer.
Answers(l, found, astray) ==
    LET text == Message("text", l, {}, <<>>, <<>>, FALSE)
        menus == {Message("menu", l, {}, menu, <<>>, FALSE) : menu \in Menus}
        gates == {Message("gate", l, {c}, <<>>, <<>>, FALSE) : c \in Channels}
        files == FileMessages(l, found, astray)
        all == SetToSeq(files)
    IN {<<>>, <<text>>, all, <<text>> \o all}
           \cup {<<m>> : m \in menus \cup gates \cup files}

Asked(l, found, astray) ==
    \E answer \in Answers(l, found, astray) :
        /\ answer # <<>> => Len(sent) + Len(answer) <= MaxLate
        /\ sent' = sent \o answer

\* The link is followed.
Started(l) == Asked(l, Delivers[l], FALSE)

\* What a button of a menu leads to.
Leads(l, b) ==
    {n \in Behind[l] : /\ b.kind = "episode" => n[2] = b.number
                       /\ b.kind = "season" => n[1] = b.number}

\* A button that asks for the episode the link names, or goes on with a batch.
Straight(l, b) ==
    IF Label[l] = Batch THEN b.kind = "watch"
                        ELSE b.kind = "episode" /\ b.number = Label[l]

Clicked(l, b) == Asked(l, Leads(l, b), ~Straight(l, b))

Talking == {f \in Fetchers : task[f].at = "wait"}

\* A message that arrives when nobody talks to the bot is only in the chat.
Arrive ==
    /\ sent # <<>>
    /\ sent' = Tail(sent)
    /\ task' = [f \in Fetchers |->
           IF f \in Talking THEN [task[f] EXCEPT !.inbox = Append(@, Head(sent))]
                            ELSE task[f]]
    /\ UNCHANGED <<stored, abandoned>>

-----------------------------------------------------------------------------
(* The course of a link.                                                   *)

Goto(f, t) == task' = [task EXCEPT ![f] = t]

NextLink(f) == Begin(Tail(task[f].todo))

\* The conversation ends; what it holds is forgotten, what it still waits for
\* will arrive later.
Close ==
    abandoned' = abandoned \cup {m.of : m \in ToSet(sent)}

\* Fault: conversations are not exclusive.
MayTalkAnyway(f) == f \in Fetchers

MayTalk(f) == Talking = {}

\* client.conversation raises while another coroutine talks to the bot.
Open(f) ==
    /\ task[f].at = "link" /\ task[f].todo # <<>>
    /\ MayTalk(f)
    /\ Started(Link(f))
    /\ Goto(f, [task[f] EXCEPT !.at = "wait", !.inbox = <<>>, !.read = 0,
                               !.files = <<>>])
    /\ UNCHANGED <<stored, abandoned>>

\* The bot cannot be resolved, or is being talked to, or the call fails: the
\* link is given up.
OpenFails(f) ==
    /\ task[f].at = "link" /\ task[f].todo # <<>>
    /\ Goto(f, NextLink(f))
    /\ UNCHANGED <<sent, stored, abandoned>>

\* The answer to the last click is read and not looked at; of a batch, Telethon
\* ends the conversation.
Over(f) == task[f].read = IF IsBatch(f) THEN MaxMessages ELSE MaxHops

\* Fault: what was read is not counted.
RestUncounted(f) == [task[f] EXCEPT !.inbox = Tail(@)]

Rest(f) == [task[f] EXCEPT !.inbox = Tail(@), !.read = @ + 1]

Reads(f) == task[f].at = "wait" /\ task[f].inbox # <<>>

ReadLast(f) ==
    /\ Reads(f) /\ Over(f)
    /\ Close
    /\ Goto(f, NextLink(f))
    /\ UNCHANGED <<sent, stored>>

ReadFile(f) ==
    /\ Reads(f) /\ ~Over(f)
    /\ LET m == Head(task[f].inbox)
           files == Append(task[f].files, m)
       IN /\ m.kind = "file"
          /\ IF IsBatch(f) /\ Len(files) < MaxFiles
             THEN /\ Goto(f, [Rest(f) EXCEPT !.files = files])
                  /\ UNCHANGED abandoned
             ELSE /\ Close
                  /\ Goto(f, [task[f] EXCEPT !.at = "store", !.files = files])
    /\ UNCHANGED <<sent, stored>>

\* Once files arrive, a batch ignores everything else.
Streaming(f) == IsBatch(f) /\ task[f].files # <<>>

ReadGate(f) ==
    /\ Reads(f) /\ ~Over(f) /\ ~Streaming(f)
    /\ Head(task[f].inbox).kind = "gate"
    /\ Close
    /\ Goto(f, [task[f] EXCEPT !.at = "join", !.asked = Head(task[f].inbox).channels])
    /\ UNCHANGED <<sent, stored>>

\* _pick_menu_button: the first button with the number of the episode, be it
\* the number of a season; or else the first one that looks like going on.  A
\* set of one button, or of none.
Picked(f, buttons) ==
    LET named == {i \in DOMAIN buttons : /\ ~IsBatch(f)
                                        /\ buttons[i].kind # "watch"
                                        /\ buttons[i].number = Label[Link(f)]}
        generic == {i \in DOMAIN buttons : buttons[i].kind # "season"}
        found == IF named # {} THEN named ELSE generic
    IN {buttons[i] : i \in {j \in found : \A k \in found : j <= k}}

\* A message with a button to click.
Clickable(f) ==
    /\ Reads(f) /\ ~Over(f) /\ ~Streaming(f)
    /\ Head(task[f].inbox).kind = "menu"
    /\ Picked(f, Head(task[f].inbox).buttons) # {}

ReadMenu(f) ==
    /\ Clickable(f)
    /\ LET m == Head(task[f].inbox) IN
       \E b \in Picked(f, m.buttons) : Clicked(m.of, b)
    /\ Goto(f, Rest(f))
    /\ UNCHANGED <<stored, abandoned>>

\* Nothing to click: that ends the fetch of an episode, and a batch goes on.
ReadOther(f) ==
    /\ Reads(f) /\ ~Over(f) /\ ~Clickable(f)
    /\ \/ Head(task[f].inbox).kind \in {"text", "menu"}
       \/ Head(task[f].inbox).kind = "gate" /\ Streaming(f)
    /\ IF IsBatch(f)
       THEN Goto(f, Rest(f)) /\ UNCHANGED abandoned
       ELSE Goto(f, NextLink(f)) /\ Close
    /\ UNCHANGED <<sent, stored>>

\* The bot has gone quiet, or a click fails.
TimeOut(f) ==
    /\ task[f].at = "wait"
    /\ \/ /\ task[f].inbox = <<>>
          /\ Goto(f, IF Streaming(f) THEN [task[f] EXCEPT !.at = "store"]
                                     ELSE NextLink(f))
       \/ Clickable(f) /\ Goto(f, NextLink(f))
    /\ Close
    /\ UNCHANGED <<sent, stored>>

NewChannels(f) == task[f].asked \ task[f].joined

\* The new channels are joined, or counted as joined; then another attempt, if
\* any is left.
Join(f) ==
    /\ task[f].at = "join"
    /\ Goto(f, IF NewChannels(f) = {} \/ task[f].tries = MaxJoins
               THEN NextLink(f)
               ELSE [task[f] EXCEPT !.at = "link", !.inbox = <<>>, !.asked = {},
                                    !.joined = @ \cup NewChannels(f),
                                    !.tries = @ + 1])
    /\ UNCHANGED <<sent, stored, abandoned>>

-----------------------------------------------------------------------------
(* Storing.                                                                *)

\* Fault: a factor one digit short.
SourceIdShort(msg, number) == msg * 10000000 + number[1] * 1000 + number[2]

\* source_message_id of a linked episode.
SourceId(msg, number) == msg * 10000000 + number[1] * 10000 + number[2]

\* A link of one episode names it, and the announcement its season; a file of a
\* batch names itself, but for the season if there is none in its name.
NumberOf(f, m) ==
    IF IsBatch(f)
    THEN <<IF m.file[2][1] = 0 THEN Season[f] ELSE m.file[2][1], m.file[2][2]>>
    ELSE <<Season[f], Label[Link(f)]>>

\* link: the link it is stored for; of and astray: as of the message (history).
Row(f, m) ==
    [msg |-> Announcement[f], number |-> NumberOf(f, m),
     id |-> SourceId(Announcement[f], NumberOf(f, m)),
     file |-> m.file, link |-> Link(f), of |-> m.of, astray |-> m.astray]

AfterFile(f) ==
    IF Len(task[f].files) = 1
    THEN NextLink(f)
    ELSE [task[f] EXCEPT !.files = Tail(@)]

Store(f) ==
    /\ task[f].at = "store"
    /\ stored' = stored \cup {Row(f, Head(task[f].files))}
    /\ Goto(f, AfterFile(f))
    /\ UNCHANGED <<sent, abandoned>>

\* The file is subtitled, or does not say which episode it is.
Discard(f) ==
    /\ task[f].at = "store"
    /\ Goto(f, AfterFile(f))
    /\ UNCHANGED <<sent, stored, abandoned>>

\* A call fails, and with it the rest of the batch.
StoreFails(f) ==
    /\ task[f].at = "store"
    /\ Goto(f, NextLink(f))
    /\ UNCHANGED <<sent, stored, abandoned>>

Step(f) ==
    \/ Open(f) \/ OpenFails(f)
    \/ ReadLast(f) \/ ReadFile(f) \/ ReadGate(f) \/ ReadMenu(f) \/ ReadOther(f)
    \/ TimeOut(f) \/ Join(f)
    \/ Store(f) \/ Discard(f) \/ StoreFails(f)

Next == Arrive \/ \E f \in Fetchers : Step(f)

\* The event loop runs every coroutine, and timers fire.  Nothing is said of
\* the bot.
Spec == Init /\ [][Next]_vars /\ \A f \in Fetchers : WF_vars(Step(f))

-----------------------------------------------------------------------------
(* What it promises.                                                       *)

Messages ==
    [kind : {"menu", "gate", "text"}, of : Links, channels : SUBSET Channels,
     buttons : Seq(Buttons), file : {<<>>}, astray : {FALSE}]
    \cup [kind : {"file"}, of : Links, channels : {{}}, buttons : {<<>>},
          file : Nat \X Numbers, astray : BOOLEAN]

Files == {m \in Messages : m.kind = "file"}

Rows == [msg : Nat, number : Numbers, id : Nat, file : Nat \X Numbers,
         link : Links, of : Links, astray : BOOLEAN]

TypeOK ==
    /\ task \in [Fetchers ->
           [at : {"link", "wait", "store", "join"}, todo : Seq(Links),
            inbox : Seq(Messages), read : Nat, files : Seq(Files), tries : Nat,
            joined : SUBSET Channels, asked : SUBSET Channels]]
    /\ sent \in Seq(Messages)
    /\ stored \subseteq Rows
    /\ abandoned \subseteq Links

\* The files a link is for: what it delivers itself and, if it names an episode,
\* what its menus have of that episode; of a batch, everything.
Promised(l) ==
    Delivers[l] \cup {n \in Behind[l] : Label[l] # Batch => n[2] = Label[l]}

IsPromised(row) == row.file[1] = row.msg /\ row.file[2] \in Promised(row.link)

\* What is stored for a link is one of the files the link is for.  It may be
\* another one only if the bot answered a link after it had been given up - the
\* next conversation takes the answer for its own (deep_link_fetcher.py:233) -
\* or if the last menu on the way had no button for the episode before one that
\* could be taken for it (deep_link_fetcher.py:210).
RightFileUnlessMisled ==
    \A row \in stored : IsPromised(row) \/ row.of \in abandoned \/ row.astray

\* If the bot answers in time, what is stored for a link is one of the files the
\* link is for: a button without the number of the episode only leads to another
\* menu, as the comment at deep_link_fetcher.py:211 has it.
RightFileInTime ==
    \A row \in stored : IsPromised(row) \/ row.of \in abandoned

\* Two linked episodes of a channel never share the source id that stands in
\* for the message they do not have, although announcement, season and episode
\* are packed into one number; and it is that of no message with an id of seven
\* digits (processor.py:199).
SourceIdsDistinct ==
    /\ \A row, other \in stored :
           row.id = other.id => row.msg = other.msg /\ row.number = other.number
    /\ \A row \in stored : row.id >= 10000000

\* Every announcement gets through its links, whatever the bot answers: menus
\* that lead to menus, gates behind gates, or nothing
\* (deep_link_fetcher.py:237, 274, 310).
EveryLinkEnds == \A f \in Fetchers : <>(task[f].todo = <<>>)

=============================================================================
