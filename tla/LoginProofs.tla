----------------------------- MODULE LoginProofs -----------------------------
(***************************************************************************)
(* Proofs about Login, for any number of pages, sessions and restarts.     *)
(***************************************************************************)
EXTENDS Login, TLAPS

AllIdle == \A p \in Pages : signin[p] = "none"

\* Before the pages are served nothing has happened in the process, and its
\* session is the saved one or none.
EarlyIsBlank ==
    /\ main = "load" => key = NULL
    /\ main \in {"load", "connect"} =>
          /\ ~started
          /\ key # NULL => saved = key
          /\ \A p \in Pages : signin[p] = "none" /\ shown[p] # "success"

\* Once they are served there is a session; whoever signs in has it authorized,
\* and saved when its page has come that far.
SignInOrder ==
    /\ Serving => key # NULL
    /\ \A p \in Pages :
           /\ signin[p] # "none" => key \in authorized
           /\ signin[p] \in {"register", "listen"} => saved = key

\* With no page under way, a session that is authorized was loaded or its login
\* was completed, if no call failed.
Completed ==
    key \in authorized /\ AllIdle /\ failed \subseteq {"load"} =>
        saved = key /\ (main = "wait" => started)

IInv ==
    /\ TypeOK
    /\ HandlersOnce
    /\ SuccessIsTrue
    /\ EarlyIsBlank
    /\ SignInOrder
    /\ Completed

\* "No session" is not a session (an empty session string has no key).
LEMMA NullIsNoKey == NULL \notin Keys
  BY KeysAreNumbers

\* The strengthening holds when the first container starts.
LEMMA InitIInv == Init => IInv
  <1> SUFFICES ASSUME Init PROVE IInv
    OBVIOUS
  <1>1. TypeOK
    <2>1. restarts \in 0..MaxRestarts
      BY RestartsAreCounted DEF Init
    <2>2. handlers \in Nat /\ api \in BOOLEAN /\ hash \in BOOLEAN /\ started \in BOOLEAN
      BY DEF Init
    <2>3. QED
      BY <2>1, <2>2 DEF Init, TypeOK
  <1>2. HandlersOnce /\ SuccessIsTrue /\ EarlyIsBlank
    BY DEF Init, HandlersOnce, SuccessIsTrue, EarlyIsBlank
  <1>3. SignInOrder /\ Completed
    BY DEF Init, SignInOrder, Completed, Serving
  <1>4. QED
    BY <1>1, <1>2, <1>3 DEF IInv

\* A restart of the process, whatever it was doing, keeps it: only what is in
\* Postgres and at Telegram survives.
LEMMA BootInv == IInv /\ Boot /\ api' \in BOOLEAN => IInv'
  <1> SUFFICES ASSUME IInv, Boot, api' \in BOOLEAN PROVE IInv'
    OBVIOUS
  <1>1. TypeOK'
    <2>1. restarts' \in 0..MaxRestarts
      BY RestartsAreCounted DEF IInv, TypeOK, Boot
    <2>2. handlers' \in Nat /\ hash' \in BOOLEAN /\ started' \in BOOLEAN
      BY DEF Boot
    <2>3. QED
      BY <2>1, <2>2 DEF IInv, TypeOK, Boot, server
  <1>2. HandlersOnce' /\ SuccessIsTrue' /\ EarlyIsBlank'
    BY DEF Boot, HandlersOnce, SuccessIsTrue, EarlyIsBlank
  <1>3. SignInOrder'
    BY DEF Boot, SignInOrder, Serving
  <1>4. Completed'
    BY NullIsNoKey DEF Boot, Completed, IInv, TypeOK, server
  <1>5. QED
    BY <1>1, <1>2, <1>3, <1>4 DEF IInv

\* Every step of main(), of a page and of a restart keeps it.
LEMMA NextIInv == IInv /\ [Next]_vars => IInv'
  <1> SUFFICES ASSUME IInv, [Next]_vars PROVE IInv'
    OBVIOUS
  <1> USE DEF IInv, TypeOK, HandlersOnce, SuccessIsTrue, EarlyIsBlank, SignInOrder,
              Completed, AllIdle, Serving
  <1>1. CASE ApiUp
    BY <1>1, NullIsNoKey DEF ApiUp, server, process
  <1>2. CASE LoadSession
    BY <1>2, NullIsNoKey DEF LoadSession, SavedSession, server, process
  <1>3. CASE Connect
    BY <1>3, NullIsNoKey DEF Connect, server, process
  <1>4. CASE CheckAuthorized
    <2>1. TypeOK' /\ HandlersOnce' /\ SuccessIsTrue'
      <3>1. CASE key \in authorized
        BY <1>4, <3>1 DEF CheckAuthorized, StartListening, server
      <3>2. CASE key \notin authorized
        BY <1>4, <3>2 DEF CheckAuthorized, server
      <3>3. QED
        BY <3>1, <3>2
    <2>2. EarlyIsBlank' /\ SignInOrder'
      BY <1>4 DEF CheckAuthorized, server
    <2>3. Completed'
      BY <1>4 DEF CheckAuthorized, StartListening, server
    <2>4. QED
      BY <2>1, <2>2, <2>3
  <1>5. CASE SendCode
    BY <1>5, NullIsNoKey DEF SendCode, server, process
  <1>6. ASSUME NEW p \in Pages, SignInRefused(p) PROVE IInv'
    BY <1>6, NullIsNoKey DEF SignInRefused, server, process
  <1>7. ASSUME NEW p \in Pages, SignIn(p) PROVE IInv'
    <2>1. TypeOK' /\ EarlyIsBlank' /\ HandlersOnce' /\ SuccessIsTrue'
      BY <1>7 DEF SignIn, Await, Raise, server, process
    <2>2. SignInOrder'
      BY <1>7 DEF SignIn, Await, Raise
    <2>3. CASE Await(p, "me")
      <3>1. ~AllIdle'
        BY <2>3 DEF Await
      <3>2. QED
        BY <2>1, <2>2, <3>1
    <2>4. CASE Raise(p, "signin")
      <3>1. "signin" \in failed'
        BY <2>4 DEF Raise
      <3>2. QED
        BY <2>1, <2>2, <3>1
    <2>5. QED
      BY <1>7, <2>3, <2>4 DEF SignIn
  <1>16. ASSUME NEW p \in Pages, GetMe(p) PROVE IInv'
    BY <1>16, NullIsNoKey DEF GetMe, Await, Raise, server, process
  <1>8. ASSUME NEW p \in Pages, SaveSession(p) PROVE IInv'
    BY <1>8, NullIsNoKey DEF SaveSession, Await, Raise, server, process
  <1>9. ASSUME NEW p \in Pages, RegisterAll(p) PROVE IInv'
    BY <1>9, NullIsNoKey DEF RegisterAll, Await, Raise, server, process
  <1>10. ASSUME NEW p \in Pages, OnAuthorized(p) PROVE IInv'
    BY <1>10, NullIsNoKey DEF OnAuthorized, Succeed, StartListening, server, process
  <1>11. ASSUME NEW p \in Pages, Index(p) PROVE IInv'
    BY <1>11, NullIsNoKey DEF Index, server, process
  <1>12. CASE ListenerRestarts
    BY <1>12, BootInv DEF ListenerRestarts, IInv, TypeOK
  <1>13. CASE Deploy
    BY <1>13, BootInv DEF Deploy
  <1>14. CASE UNCHANGED vars
    BY <1>14 DEF vars, server, process
  <1>15. QED
    BY <1>1, <1>2, <1>3, <1>4, <1>5, <1>6, <1>7, <1>8, <1>9, <1>10, <1>11,
       <1>12, <1>13, <1>14, <1>16 DEF Next, Main

-----------------------------------------------------------------------------
\* The strengthening holds in every state, in any interleaving of main(), the
\* pages and the restarts.
THEOREM LoginInductive == Spec => []IInv
  <1>1. QED
    BY InitIInv, NextIInv, PTL DEF Spec

\* The variables of the login have their types.
THEOREM LoginTypeCorrect == Spec => []TypeOK
  <1>1. IInv => TypeOK
    BY DEF IInv
  <1>2. QED
    BY <1>1, LoginInductive, PTL

\* The message handlers are registered exactly once in a process that listens,
\* however many pages complete the login while main() checks it too, and a
\* process that listens is logged in (main.py:84, control_server.py:116).
THEOREM HandlersRegisteredOnce == Spec => []HandlersOnce
  <1>1. IInv => HandlersOnce
    BY DEF IInv
  <1>2. QED
    BY <1>1, LoginInductive, PTL

\* A page that says the login succeeded says the truth: the session of the
\* client is the one in Postgres, it is logged in, and the process listens
\* (control_server.py:109-124).
THEOREM SuccessPageIsTrue == Spec => []SuccessIsTrue
  <1>1. IInv => SuccessIsTrue
    BY DEF IInv
  <1>2. QED
    BY <1>1, LoginInductive, PTL

\* A login is never left half done by the order of pages and main(): a process
\* that is logged in but does not listen, or is not saved, has had a call of a
\* sign-in fail (sign_in, get_me, the save or the registration), and no sign-in
\* has completed since.
THEOREM HalfLoginNeedsFailure == Spec => []HalfLoginOnlyIfCallFailed
  <1>1. IInv => HalfLoginOnlyIfCallFailed
    BY DEF IInv, Completed, AllIdle, HalfLoginOnlyIfCallFailed
  <1>2. QED
    BY <1>1, LoginInductive, PTL

=============================================================================
