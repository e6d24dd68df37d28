-------------------------------- MODULE Login --------------------------------
(***************************************************************************)
(* The listener's session: its start from the session saved in Postgres,   *)
(* and the web login that makes and saves one.                             *)
(*                                                                         *)
(* A container starts the API and the listener together.  The listener     *)
(* asks the API for the saved session once, and the API only answers when  *)
(* it has reached its database.  The pages of the login are handlers of    *)
(* one event loop: they interleave where they await.                       *)
(*                                                                         *)
(* Simplifications.  A session is its key, and Telegram knows which keys   *)
(* are logged in; a client knows whether its own key is.  The registration *)
(* of the channels is one step, and a channel that cannot be registered is *)
(* left out.  Nobody ends a session from another device.                   *)
(***************************************************************************)
EXTENDS Naturals, FiniteSets

CONSTANTS
    Keys,         \* bound on the sessions ever made, 1..n
    Pages,        \* bound on the sign-in pages being served at a time
    Channels,     \* CHANNELS of register_channels.py
    MaxRestarts,  \* bound on the restarts
    NULL

ASSUME KeysAreNumbers == Keys \subseteq Nat /\ NULL \notin Keys
ASSUME RestartsAreCounted == MaxRestarts \in Nat

VARIABLES
    authorized,  \* keys Telegram has logged in (external)
    made,        \* keys made so far (external)
    saved,       \* listener_session.session_string
    sources,     \* channels in source_channels
    api,         \* whether the API answers
    main,        \* where main() is
    key,         \* the session of the client
    hash,        \* _phone_code_hash is set
    started,     \* _listener_started
    handlers,    \* registrations of the message handlers
    signin,      \* per page: where its sign-in is
    shown,       \* per page: the text it ended with
    restarts,
    failed       \* what failed in this process: loading the session, sign_in, the
                 \* rest of its page; the last two until a sign-in completes (history)

server == <<authorized, made, saved, sources>>
process == <<main, key, hash, started, handlers, signin, shown, failed>>
vars == <<server, api, process, restarts>>

Init ==
    /\ authorized = {}
    /\ made = {}
    /\ saved = NULL
    /\ sources = {}
    /\ api = FALSE
    /\ main = "load"
    /\ key = NULL
    /\ hash = FALSE
    /\ started = FALSE
    /\ handlers = 0
    /\ signin = [p \in Pages |-> "none"]
    /\ shown = [p \in Pages |-> "none"]
    /\ restarts = 0
    /\ failed = {}

-----------------------------------------------------------------------------
(* main().                                                                 *)

ApiUp ==
    /\ ~api
    /\ api' = TRUE
    /\ UNCHANGED <<server, process, restarts>>

\* Fault: a new session every time.
SessionIgnored == NULL

SavedSession == saved

\* A session that cannot be loaded is an empty one.
LoadSession ==
    /\ main = "load"
    /\ \/ /\ api
          /\ key' = SavedSession
          /\ UNCHANGED failed
       \/ /\ key' = NULL
          /\ failed' = failed \cup {"load"}
    /\ main' = "connect"
    /\ UNCHANGED <<server, api, hash, started, handlers, signin, shown, restarts>>

\* A session without a key gets a new one; then the pages are served.
Connect ==
    /\ main = "connect"
    /\ IF key # NULL
       THEN UNCHANGED <<key, made>>
       ELSE /\ key' \in Keys \ made
            /\ made' = made \cup {key'}
    /\ main' = "check"
    /\ UNCHANGED <<authorized, saved, sources, api, hash, started, handlers,
                   signin, shown, restarts, failed>>

\* Fault: the flag is not looked at.
StartListeningAgain ==
    /\ started' = TRUE
    /\ handlers' = handlers + 1

\* start_listening has no await: a second call finds the flag.
StartListening ==
    /\ started' = TRUE
    /\ handlers' = IF started THEN handlers ELSE handlers + 1

CheckAuthorized ==
    /\ main = "check"
    /\ IF key \in authorized THEN StartListening ELSE UNCHANGED <<started, handlers>>
    /\ main' = "wait"
    /\ UNCHANGED <<server, api, key, hash, signin, shown, restarts, failed>>

-----------------------------------------------------------------------------
(* The login pages.                                                        *)

Serving == main \in {"check", "wait"}

SendCode ==
    /\ Serving /\ ~hash
    /\ hash' = TRUE
    /\ UNCHANGED <<server, api, main, key, started, handlers, signin, shown,
                   restarts, failed>>

\* "Call send-code first", a wrong code or a missing password.
SignInRefused(p) ==
    /\ Serving /\ signin[p] = "none"
    /\ shown' = [shown EXCEPT ![p] = "refused"]
    /\ UNCHANGED <<server, api, main, key, hash, started, handlers, signin,
                   restarts, failed>>

\* An exception ends the handler with its text.
Raise(p, what) ==
    /\ signin' = [signin EXCEPT ![p] = "none"]
    /\ shown' = [shown EXCEPT ![p] = "failed"]
    /\ failed' = failed \cup {what}

Await(p, call) ==
    /\ signin' = [signin EXCEPT ![p] = call]
    /\ UNCHANGED <<shown, failed>>

\* A client that is logged in already signs in with any code.  The answer of
\* Telegram may be lost after it logged the key in.
SignIn(p) ==
    /\ Serving /\ hash /\ signin[p] = "none"
    /\ authorized' = authorized \cup {key}
    /\ Await(p, "me") \/ Raise(p, "signin")
    /\ UNCHANGED <<made, saved, sources, api, main, key, hash, started, handlers,
                   restarts>>

\* The page asks Telegram for the name it will greet before it saves anything.
GetMe(p) ==
    /\ signin[p] = "me"
    /\ Await(p, "save") \/ Raise(p, "page")
    /\ UNCHANGED <<server, api, main, key, hash, started, handlers, restarts>>

\* The call may fail before or after the row is written.
SaveSession(p) ==
    /\ signin[p] = "save"
    /\ \/ /\ saved' = key
          /\ Await(p, "register")
       \/ /\ saved' \in {saved, key}
          /\ Raise(p, "page")
    /\ UNCHANGED <<authorized, made, sources, api, main, key, hash, started,
                   handlers, restarts>>

RegisterAll(p) ==
    /\ signin[p] = "register"
    /\ \/ /\ \E new \in SUBSET Channels : sources' = sources \cup new
          /\ Await(p, "listen")
       \/ /\ Raise(p, "page")
          /\ UNCHANGED sources
    /\ UNCHANGED <<authorized, made, saved, api, main, key, hash, started,
                   handlers, restarts>>

Succeed(p) ==
    /\ signin' = [signin EXCEPT ![p] = "none"]
    /\ shown' = [shown EXCEPT ![p] = "success"]
    /\ failed' = failed \cap {"load"}

\* Fault: the handlers are registered at the next start.
OnAuthorizedNot(p) ==
    /\ signin[p] = "listen"
    /\ Succeed(p)
    /\ UNCHANGED <<server, api, main, key, hash, started, handlers, restarts>>

OnAuthorized(p) ==
    /\ signin[p] = "listen"
    /\ StartListening
    /\ Succeed(p)
    /\ UNCHANGED <<server, api, main, key, hash, restarts>>

\* The page at /telegram-login/ asks only whether the client is logged in.
Index(p) ==
    /\ Serving /\ signin[p] = "none"
    /\ shown' = [shown EXCEPT ![p] =
                     IF key \in authorized THEN "already" ELSE "help"]
    /\ UNCHANGED <<server, api, main, key, hash, started, handlers, signin,
                   restarts, failed>>

-----------------------------------------------------------------------------
(* Restarts.                                                               *)

Boot ==
    /\ restarts < MaxRestarts
    /\ restarts' = restarts + 1
    /\ main' = "load"
    /\ key' = NULL
    /\ hash' = FALSE
    /\ started' = FALSE
    /\ handlers' = 0
    /\ signin' = [p \in Pages |-> "none"]
    /\ shown' = [p \in Pages |-> "none"]
    /\ failed' = {}
    /\ UNCHANGED server

\* entrypoint.sh restarts the listener alone.
ListenerRestarts == Boot /\ UNCHANGED api

\* A deploy: a new container.
Deploy == Boot /\ api' = FALSE

Main == LoadSession \/ Connect \/ CheckAuthorized

Next ==
    \/ ApiUp \/ Main
    \/ SendCode \/ \E p \in Pages : \/ SignInRefused(p) \/ SignIn(p) \/ GetMe(p)
                                    \/ SaveSession(p) \/ RegisterAll(p)
                                    \/ OnAuthorized(p) \/ Index(p)
    \/ ListenerRestarts \/ Deploy

\* main() goes on by itself, and the API reaches its database in the end.
Spec == Init /\ [][Next]_vars /\ WF_vars(Main) /\ WF_vars(ApiUp)

-----------------------------------------------------------------------------
(* What it promises.                                                       *)

TypeOK ==
    /\ authorized \subseteq made /\ made \subseteq Keys
    /\ saved \in made \cup {NULL} /\ key \in made \cup {NULL}
    /\ sources \subseteq Channels
    /\ api \in BOOLEAN /\ hash \in BOOLEAN /\ started \in BOOLEAN
    /\ main \in {"load", "connect", "check", "wait"}
    /\ handlers \in Nat
    /\ signin \in [Pages -> {"none", "me", "save", "register", "listen"}]
    /\ shown \in [Pages -> {"none", "refused", "failed", "success", "already", "help"}]
    /\ restarts \in 0..MaxRestarts
    /\ failed \subseteq {"load", "signin", "page"}

\* Whoever completes the login while main() or another page does, the message
\* handlers are registered once: twice would import every post twice
\* (main.py:84, control_server.py:116).  And only a client that is logged in
\* has them.
HandlersOnce ==
    /\ handlers = IF started THEN 1 ELSE 0
    /\ started => key \in authorized

\* A login that said it had succeeded has left the session it made in Postgres
\* and a process that listens, although four calls and other pages lie between
\* (control_server.py:109-124).
SuccessIsTrue ==
    \A p \in Pages : shown[p] = "success" =>
        saved = key /\ key \in authorized /\ started

\* A process that is logged in and does not listen, or will not be logged in
\* again after a restart, has had a call of a sign-in fail and no sign-in
\* complete since: no order of pages and of main() leads there, and whatever
\* a failed sign-in left undone, the next one that completes has done
\* (control_server.py:108-118, 135).
HalfLoginOnlyIfCallFailed ==
    key \in authorized /\ main = "wait" /\ (\A p \in Pages : signin[p] = "none")
        /\ failed \subseteq {"load"} =>
            started /\ saved = key

\* What the page at /telegram-login/ tells whoever is logged in: the listener
\* is active, the session is saved, no need to repeat the login
\* (control_server.py:52-54).  It is asked of a process that has nothing under
\* way, and of a client whose own sign_in did not fail.
AlreadyIsTrue ==
    \A p \in Pages :
        shown[p] = "already" /\ main = "wait" /\ (\A q \in Pages : signin[q] = "none")
            /\ "signin" \notin failed =>
                started /\ saved = key

\* With a session saved that Telegram still accepts, the listener comes to
\* listen again by itself after any restart, unless it could not load it
\* (main.py:102-107).
ResumesSaved ==
    main = "load" /\ saved \in authorized ~> started \/ "load" \in failed

=============================================================================
