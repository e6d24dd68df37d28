----------------------------- MODULE Publisher -----------------------------
(***************************************************************************)
(* The scheduler: publisher.Run posts animes that a showcase channel has   *)
(* not had yet, and records each post through the API in channel_posts.    *)
(*                                                                         *)
(* A run is started by cron or by the trigger endpoint, and nothing stops  *)
(* two runs from overlapping.  A run visits the channels one after the     *)
(* other; asking the API for pending animes, sending a post and recording  *)
(* it are separate calls, each of which may fail, and the process may be   *)
(* told to stop or die between any two of them.                            *)
(*                                                                         *)
(* Simplifications.  Animes are numbered in the order of created_at.  The  *)
(* caption and the keyboard of a post, and whether the poster is copied,   *)
(* linked or left out, are not modelled: the three calls fail alike.       *)
(***************************************************************************)
EXTENDS Naturals, FiniteSets, Sequences

CONSTANTS
    CronRuns,       \* runs that cron may have in progress at a time
    TriggerRuns,    \* runs started by /scheduler/trigger
    Animes,         \* rows of animes, in the order of created_at
    Targets,        \* cfg.TargetChannelIDs
    PostsPerRun,    \* cfg.PostsPerRun
    Refused,        \* posts Telegram refuses whenever they are sent: (anime, channel)
    MaxCrashes      \* bound: stops and crashes of the process

ASSUME AnimesAreNumbered == Animes \subseteq Nat /\ IsFiniteSet(Animes)
ASSUME TargetsAreListed == Targets \in Seq({Targets[i] : i \in DOMAIN Targets})
ASSUME PostsPerRunPositive == PostsPerRun \in Nat \ {0}
ASSUME MaxCrashesIsNumber == MaxCrashes \in Nat
ASSUME RunsAreDistinct == CronRuns \cap TriggerRuns = {}

VARIABLES
    eligible,   \* animes that are published, not deleted and have episodes
    posts,      \* rows of channel_posts: (anime, channel) pairs
    shown,      \* per pair, its posts in Telegram: "none", "one" or "several"
    lost,       \* pairs of which some post was not recorded (history)
    run,        \* per run: its next call and its locals
    cancelled,  \* SIGTERM was received: the context of every run is done
    crashes     \* stops and crashes so far

vars == <<eligible, posts, shown, lost, run, cancelled, crashes>>

Runs == CronRuns \cup TriggerRuns
Channels == {Targets[i] : i \in DOMAIN Targets}

\* The position in Targets, usedThisRun, the animes of the current channel
\* still to be posted, and (history) what the run has posted.
RunState ==
    [pc: {"idle", "fetch", "send", "record"}, at: DOMAIN Targets \cup {0},
     used: SUBSET Animes, pending: SUBSET Animes,
     sent: SUBSET (Animes \X Channels)]

Idle == [pc |-> "idle", at |-> 0, used |-> {}, pending |-> {}, sent |-> {}]

TypeOK ==
    /\ eligible \subseteq Animes
    /\ posts \subseteq Animes \X Channels
    /\ shown \in [Animes \X Channels -> {"none", "one", "several"}]
    /\ lost \subseteq Animes \X Channels
    /\ run \in [Runs -> RunState]
    /\ cancelled \in BOOLEAN
    /\ crashes \in 0..MaxCrashes
    /\ \A r \in Runs :
          /\ run[r].pc = "idle" <=> run[r].at = 0
          /\ run[r].pc \in {"send", "record"} <=> run[r].pending # {}

Init ==
    /\ eligible \in SUBSET Animes
    /\ posts = {}
    /\ shown = [p \in Animes \X Channels |-> "none"]
    /\ lost = {}
    /\ run = [r \in Runs |-> Idle]
    /\ cancelled = FALSE
    /\ crashes = 0

-----------------------------------------------------------------------------
(* GET /publish/pending *)

\* The first k elements of S.
Oldest(S, k) == {a \in S : Cardinality({b \in S : b < a}) < k}

\* Fault: what was posted is not left out.
Eligible(c) == eligible

Unposted(c) == {a \in eligible : <<a, c>> \notin posts}

\* Fault: the scheduler asks for no more than it wants to post.
NarrowLimit == PostsPerRun

WantedLimit == PostsPerRun * Len(Targets) + PostsPerRun

\* A limit the repository finds too large is replaced by a small one.
Limit == IF WantedLimit > 50 THEN 5 ELSE WantedLimit

Candidates(c) == Oldest(Unposted(c), Limit)

-----------------------------------------------------------------------------
(* One run *)

\* cron runs each job in a goroutine of its own, and so does the trigger.
Start(r) ==
    /\ run[r].pc = "idle"
    /\ r \in CronRuns => ~cancelled
    /\ Targets # <<>>
    /\ run' = [run EXCEPT ![r] = [@ EXCEPT !.pc = "fetch", !.at = 1]]
    /\ UNCHANGED <<eligible, posts, shown, lost, cancelled, crashes>>

\* Run x once it has done with a channel, or with anime a.
AfterChannel(x) ==
    IF x.at < Len(Targets)
    THEN [x EXCEPT !.pc = "fetch", !.at = @ + 1, !.pending = {}]
    ELSE Idle

\* Fault: the end of the list is overlooked.
AfterAnimeSend(x, a) == [x EXCEPT !.pc = "send", !.pending = @ \ {a}]

AfterAnime(x, a) ==
    IF x.pending = {a}
    THEN AfterChannel(x)
    ELSE [x EXCEPT !.pc = "send", !.pending = @ \ {a}]

\* Fault: the run posts all that the API returned.
TakeAll(x, c) == Candidates(c) \ x.used

\* The candidates no earlier channel of the run has claimed.
Take(x, c) == Oldest(Candidates(c) \ x.used, PostsPerRun)

Fetch(r, c) ==
    /\ run[r].pc = "fetch"
    /\ c = Targets[run[r].at]
    /\ ~cancelled
    /\ LET mine == Take(run[r], c) IN
       run' = [run EXCEPT ![r] =
                 IF mine = {}
                 THEN AfterChannel(@)
                 ELSE [@ EXCEPT !.pc = "send", !.pending = mine]]
    /\ UNCHANGED <<eligible, posts, shown, lost, cancelled, crashes>>

FetchFails(r) ==
    /\ run[r].pc = "fetch"
    /\ run' = [run EXCEPT ![r] = AfterChannel(@)]
    /\ UNCHANGED <<eligible, posts, shown, lost, cancelled, crashes>>

\* The run is about to make call label for anime a and channel c.
Current(r, label, a, c) ==
    /\ run[r].pc = label
    /\ c = Targets[run[r].at]
    /\ a \in run[r].pending
    /\ \A b \in run[r].pending : a <= b

Show(a, c) ==
    shown' = [shown EXCEPT ![<<a, c>>] = IF @ = "none" THEN "one" ELSE "several"]

\* Fault: the anime is not claimed.
ClaimNothing(x, a) == x

Claim(x, a) == [x EXCEPT !.used = @ \cup {a}]

Posted(x, a, c) == [x EXCEPT !.sent = @ \cup {<<a, c>>}]

\* The sending does not use the context: it goes on when the run is cancelled.
Send(r, a, c) ==
    /\ Current(r, "send", a, c)
    /\ <<a, c>> \notin Refused
    /\ Show(a, c)
    /\ run' = [run EXCEPT ![r] =
                 [Posted(Claim(@, a), a, c) EXCEPT !.pc = "record"]]
    /\ UNCHANGED <<eligible, posts, lost, cancelled, crashes>>

\* Fault: an error is logged and the post recorded.
SendFailsGoesOn(r, a, c) ==
    /\ Current(r, "send", a, c)
    /\ run' = [run EXCEPT ![r] = [Claim(@, a) EXCEPT !.pc = "record"]]
    /\ UNCHANGED <<eligible, posts, shown, lost, cancelled, crashes>>

\* Fault: the run leaves the channel at the first post that fails.
SendFailsStops(r, a, c) ==
    /\ Current(r, "send", a, c)
    /\ run' = [run EXCEPT ![r] = AfterChannel(Claim(@, a))]
    /\ UNCHANGED <<eligible, posts, shown, lost, cancelled, crashes>>

\* Telegram refuses the post, or its answer is lost.
SendFails(r, a, c) ==
    /\ Current(r, "send", a, c)
    /\ \/ /\ run' = [run EXCEPT ![r] = AfterAnime(Claim(@, a), a)]
          /\ UNCHANGED <<shown, lost>>
       \/ /\ <<a, c>> \notin Refused
          /\ run' = [run EXCEPT ![r] = AfterAnime(Posted(Claim(@, a), a, c), a)]
          /\ Show(a, c)
          /\ lost' = lost \cup {<<a, c>>}
    /\ UNCHANGED <<eligible, posts, cancelled, crashes>>

\* Fault: the post is not recorded.
RecordNothing(r, a, c) ==
    /\ Current(r, "record", a, c)
    /\ ~cancelled
    /\ run' = [run EXCEPT ![r] = AfterAnime(@, a)]
    /\ UNCHANGED <<eligible, posts, shown, lost, cancelled, crashes>>

\* POST /publish/record: INSERT ... ON CONFLICT DO UPDATE.
Record(r, a, c) ==
    /\ Current(r, "record", a, c)
    /\ ~cancelled
    /\ posts' = posts \cup {<<a, c>>}
    /\ run' = [run EXCEPT ![r] = AfterAnime(@, a)]
    /\ UNCHANGED <<eligible, shown, lost, cancelled, crashes>>

RecordFails(r, a, c) ==
    /\ Current(r, "record", a, c)
    /\ lost' = lost \cup {<<a, c>>}
    /\ run' = [run EXCEPT ![r] = AfterAnime(@, a)]
    /\ UNCHANGED <<eligible, posts, shown, cancelled, crashes>>

-----------------------------------------------------------------------------
(* The process and the rest of the system *)

\* Every run is dead; posts sent and not yet recorded never will be.
Killed ==
    /\ run' = [r \in Runs |-> Idle]
    /\ lost' = lost \cup {p \in Animes \X Channels :
                            \E r \in Runs : Current(r, "record", p[1], p[2])}
    /\ cancelled' = FALSE
    /\ UNCHANGED <<eligible, posts, shown>>

Crash ==
    /\ crashes < MaxCrashes
    /\ crashes' = crashes + 1
    /\ Killed

Cancel ==
    /\ ~cancelled
    /\ crashes < MaxCrashes
    /\ crashes' = crashes + 1
    /\ cancelled' = TRUE
    /\ UNCHANGED <<eligible, posts, shown, lost, run>>

\* After SIGTERM main waits for the jobs of cron, not for triggered runs.
Exit ==
    /\ cancelled
    /\ \A r \in CronRuns : run[r].pc = "idle"
    /\ Killed
    /\ UNCHANGED crashes

\* UpsertAnime resets the episode count, UpsertEpisode refreshes it, an admin
\* deletes (module Ingest).
ChangeAnime(a) ==
    /\ eligible' = (eligible \ {a}) \cup ({a} \ eligible)
    /\ UNCHANGED <<posts, shown, lost, run, cancelled, crashes>>

Step(r) ==
    \/ FetchFails(r)
    \/ \E c \in Channels : Fetch(r, c)
    \/ \E a \in Animes, c \in Channels :
          \/ Send(r, a, c)
          \/ SendFails(r, a, c)
          \/ Record(r, a, c)
          \/ RecordFails(r, a, c)

Next ==
    \/ \E r \in Runs : Start(r) \/ Step(r)
    \/ Crash \/ Cancel \/ Exit
    \/ \E a \in Animes : ChangeAnime(a)

Spec == Init /\ [][Next]_vars

\* Cron keeps starting runs, a run in progress proceeds, the API does not fail
\* the same call for ever, and Telegram no other posts than Refused.
Fairness ==
    /\ \A r \in CronRuns : WF_vars(Start(r))
    /\ \A r \in Runs : WF_vars(Step(r))
    /\ WF_vars(Exit)
    /\ \A c \in Channels : SF_vars(\E r \in Runs : Fetch(r, c))
    /\ \A a \in Animes, c \in Channels :
          /\ <<a, c>> \notin Refused => SF_vars(\E r \in Runs : Send(r, a, c))
          /\ SF_vars(\E r \in Runs : Record(r, a, c))

FairSpec == Spec /\ Fairness

-----------------------------------------------------------------------------
(* Properties of every deployment *)

\* An anime that channel_posts keeps from a channel was posted there, even
\* when the row is written by one of two overlapping runs or after SIGTERM.
RecordedWasShown == \A p \in posts : shown[p] # "none"

\* "multiple channels diversify instead of mirroring each other": a run posts
\* an anime to one channel at most, failed posts included.
RunsDiversify ==
    \A r \in Runs : \A p, q \in run[r].sent : p[1] = q[1] => p[2] = q[2]

\* "up to cfg.PostsPerRun": for every time a channel is listed, a run posts
\* at most PostsPerRun animes to it.
PostsPerRunKept ==
    \A r \in Runs, c \in Channels :
        Cardinality({a \in Animes : <<a, c>> \in run[r].sent})
        <= PostsPerRun * Cardinality({i \in DOMAIN Targets : Targets[i] = c})

\* A run that takes fewer than PostsPerRun animes for a channel has left none
\* that it could have taken.
ShareFilled(r, c) ==
    Fetch(r, c) /\ Cardinality(Take(run[r], c)) < PostsPerRun
        => Unposted(c) \ run[r].used \subseteq Take(run[r], c)

\* "Fetch a wider pool than needed": the pool has room for what the channels
\* before have claimed, in any deployment (publisher.go:113-115).
SharesFilled == [][\A r \in Runs, c \in Channels : ShareFilled(r, c)]_vars

\* The same of the deployments that ask for no more than the 50 the repository
\* grants (channel_post_import_repo.go:38).
SharesFilledWithinLimit ==
    [][WantedLimit <= 50 => \A r \in Runs, c \in Channels : ShareFilled(r, c)]_vars

-----------------------------------------------------------------------------
(* Properties of a deployment in which runs do not overlap *)

\* channel_posts "stops the same channel from repeating an anime across runs":
\* a channel repeats an anime only if the record of an earlier post was lost.
RepeatedOnlyIfLost ==
    \A p \in Animes \X Channels : shown[p] = "several" => p \in lost

\* A post that is recorded is never repeated.
RecordedNotRepeated == [][\A p \in posts : shown'[p] = shown[p]]_vars

StaysPosted(a, c) == <>[](a \in eligible) => <>(<<a, c>> \in posts)

\* "the scheduler posts newly-approved anime there": once every anime is
\* eligible for good, those that Telegram takes reach the channel
\* (docs/RENDER.md:50).
NewAnimesPosted ==
    \A p \in (Animes \X Channels) \ Refused :
        <>[](eligible = Animes) => <>(p \in posts)

\* A run passes over a post that is refused and tries it first again the next
\* time (publisher.go:150-153): as long as a share has room for more than what
\* is refused for ever at its channel, the animes behind get their turn.
EventuallyPosted ==
    \A c \in Channels :
        Cardinality({a \in Animes : <<a, c>> \in Refused}) < PostsPerRun
            /\ Limit = WantedLimit
        => \A a \in Animes : (\A d \in Channels : <<a, d>> \notin Refused) => StaysPosted(a, c)
=============================================================================
