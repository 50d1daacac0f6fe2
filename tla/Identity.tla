------------------------------ MODULE Identity ------------------------------
(***************************************************************************)
(* apps/api-identity: registration, login and the sessions behind the      *)
(* refresh token, which a browser keeps in a cookie. Requests of a browser *)
(* overlap (tabs), their answers get lost, an invocation can die between   *)
(* two statements, and only the registration's inserts are a transaction.  *)
(***************************************************************************)
EXTENDS Integers, FiniteSets

CONSTANTS
  Account,     \* email addresses
  Browser,     \* browsers, each with its anonymous id
  Worker,      \* requests in progress
  None,
  MaxSessions, \* bound: sessions
  MaxFaults    \* bound: invocations that die, events refused, answers lost

\* A refresh token is the identity of its session, numbered as it is drawn.
Token == 1..MaxSessions

ASSUME IdentityAssumption ==
  /\ None \notin Account \union Browser \union Token
  /\ IsFiniteSet(Worker)
  /\ MaxSessions \in Nat /\ MaxFaults \in Nat

VARIABLES
  users,       \* identity.users
  merged,      \* identity.anonymous_profiles: merged_into_user_id
  owner,       \* identity.sessions: user_id, None for a token not yet drawn
  revoked,     \* ... revoked_at is set
  cookie,      \* the refresh token a browser holds
  request,     \* what a worker does: its operation, next step and data
  announced,   \* UserRegistered events on the bus
  parent,      \* history: the session a rotation replaced
  raced,       \* history: tokens that two requests used at once
  loggedOut,   \* history: tokens with which a logout was answered
  lostAnswer,  \* history: tokens whose request was never answered
  faults

sessions == <<owner, revoked, parent>>
identityVars == <<users, merged, sessions, cookie, request, announced, raced,
                  loggedOut, lostAnswer, faults>>

Idle == [op |-> "none", step |-> "none", browser |-> None, account |-> None,
         token |-> None, next |-> None]

Drawn == {t \in Token : owner[t] # None}

\* What a worker does, and how far it is.
Requests ==
  [op : {"none", "register", "login", "refresh", "logout"},
   step : {"none", "insert", "revoke", "session", "publish", "answer"},
   browser : Browser \union {None}, account : Account \union {None},
   token : Drawn \union {None}, next : Drawn \union {None}]

IdentityTypeOK ==
  /\ users \subseteq Account
  /\ merged \in [Browser -> Account \union {None}]
  /\ owner \in [Token -> Account \union {None}]
  /\ parent \in [Token -> Drawn \union {None}]
  /\ cookie \in [Browser -> Drawn \union {None}]
  /\ request \in [Worker -> Requests]
  /\ announced \subseteq users \X Browser
  /\ revoked \subseteq Drawn /\ raced \subseteq Drawn
  /\ loggedOut \subseteq Drawn /\ lostAnswer \subseteq Drawn
  /\ faults \in 0..MaxFaults

IdentityInit ==
  /\ users = {}
  /\ merged = [b \in Browser |-> None]
  /\ owner = [t \in Token |-> None]
  /\ revoked = {}
  /\ cookie = [b \in Browser |-> None]
  /\ request = [w \in Worker |-> Idle]
  /\ announced = {}
  /\ parent = [t \in Token |-> None]
  /\ raced = {} /\ loggedOut = {} /\ lostAnswer = {}
  /\ faults = 0

UseFault ==
  /\ faults < MaxFaults
  /\ faults' = faults + 1

Start(w, op, step, b, a, t) ==
  /\ request[w] = Idle
  /\ request' = [request EXCEPT ![w] =
       [op |-> op, step |-> step, browser |-> b, account |-> a, token |-> t,
        next |-> None]]

At(w, op, step) == request[w].op = op /\ request[w].step = step
GoTo(w, step) == request' = [request EXCEPT ![w].step = step]
End(w) == request' = [request EXCEPT ![w] = Idle]

\* The bound: every request that will draw a token finds one.
ToDraw == {w \in Worker : request[w].op # "logout"
                           /\ request[w].step \in {"insert", "revoke", "session"}}
Room == Cardinality(Drawn) + Cardinality(ToDraw) < MaxSessions

\* Another request works with the token.
UsedBesides(w, t) ==
  \E v \in Worker \ {w} : request[v].token = t
Race(w, t) == raced' = IF UsedBesides(w, t) THEN raced \union {t} ELSE raced

-----------------------------------------------------------------------------
(* AuthService *)

\* register: an account that exists is refused. A refused request is over.
Register(w, b, a) ==
  /\ a \notin users /\ Room
  /\ Start(w, "register", "insert", b, a, None)
  /\ UNCHANGED <<users, merged, sessions, cookie, announced, raced, loggedOut,
                 lostAnswer, faults>>

\* Its transaction; the unique index on the email decides between two.
InsertUser(w) ==
  LET b == request[w].browser
      a == request[w].account IN
  /\ At(w, "register", "insert")
  /\ IF a \in users
     THEN End(w) /\ UNCHANGED <<users, merged>>
     ELSE /\ users' = users \union {a}
          /\ merged' = [merged EXCEPT ![b] = a]
          /\ GoTo(w, "session")
  /\ UNCHANGED <<sessions, cookie, announced, raced, loggedOut, lostAnswer, faults>>

Login(w, b, a) ==
  /\ a \in users /\ Room
  /\ Start(w, "login", "session", b, a, None)
  /\ UNCHANGED <<users, merged, sessions, cookie, announced, raced, loggedOut,
                 lostAnswer, faults>>

\* createSession draws a fresh token.
CreateSession(w) ==
  LET t == 1 + Cardinality(Drawn) IN
  /\ request[w].step = "session"
  /\ owner' = [owner EXCEPT ![t] = request[w].account]
  /\ parent' = [parent EXCEPT ![t] = request[w].token]
  /\ request' = [request EXCEPT
       ![w].next = t,
       ![w].step = IF request[w].op = "register" THEN "publish" ELSE "answer"]
  /\ UNCHANGED <<users, merged, revoked, cookie, announced, raced, loggedOut,
                 lostAnswer, faults>>

\* Mutant: the event is sent only when the profile is merged for the first
\* time, with the first account of the browser.
AnnounceFirst(w) ==
  LET e == <<request[w].account, request[w].browser>> IN
  /\ At(w, "register", "publish")
  /\ GoTo(w, "answer")
  /\ announced' = IF \E a \in Account : <<a, e[2]>> \in announced
                  THEN announced ELSE announced \union {e}
  /\ UNCHANGED <<users, merged, sessions, cookie, raced, loggedOut, lostAnswer, faults>>

Announce(w) ==
  /\ At(w, "register", "publish")
  /\ GoTo(w, "answer")
  /\ announced' = announced \union {<<request[w].account, request[w].browser>>}
  /\ UNCHANGED <<users, merged, sessions, cookie, raced, loggedOut, lostAnswer, faults>>

\* PutEvents refuses the entry, which is logged, or rejects, and register with
\* it: the user stays.
AnnounceFails(w) ==
  /\ At(w, "register", "publish")
  /\ UseFault
  /\ GoTo(w, "answer") \/ End(w)
  /\ UNCHANGED <<users, merged, sessions, cookie, announced, raced, loggedOut, lostAnswer>>

\* Mutants: only the cookie goes; a token is accepted while it is known.
RevokeNothing(w) == revoked
Known(t) == owner[t] # None

RevokePresented(w) == revoked \union {request[w].token}
Valid(t) == owner[t] # None /\ t \notin revoked

\* rotateSession's read. (Tokens also expire; an expired one is refused here.)
Refresh(w, b) ==
  /\ cookie[b] # None
  /\ Valid(cookie[b]) /\ Room
  /\ Start(w, "refresh", "revoke", b, owner[cookie[b]], cookie[b])
  /\ Race(w, cookie[b])
  /\ UNCHANGED <<users, merged, sessions, cookie, announced, loggedOut, lostAnswer, faults>>

\* ... its update, which looks at no revoked_at,
RevokeOld(w) ==
  /\ At(w, "refresh", "revoke")
  /\ revoked' = revoked \union {request[w].token}
  /\ GoTo(w, "session")
  /\ UNCHANGED <<users, merged, owner, parent, cookie, announced, raced, loggedOut,
                 lostAnswer, faults>>

Logout(w, b) ==
  /\ cookie[b] # None
  /\ Start(w, "logout", "revoke", b, None, cookie[b])
  /\ Race(w, cookie[b])
  /\ UNCHANGED <<users, merged, sessions, cookie, announced, loggedOut, lostAnswer, faults>>

RevokeByToken(w) ==
  /\ At(w, "logout", "revoke")
  /\ revoked' = RevokePresented(w)
  /\ GoTo(w, "answer")
  /\ UNCHANGED <<users, merged, owner, parent, cookie, announced, raced, loggedOut,
                 lostAnswer, faults>>

\* The answer sets or clears the browser's cookies, whatever they are by now.
Answer(w) ==
  /\ request[w].step = "answer"
  /\ cookie' = [cookie EXCEPT ![request[w].browser] = request[w].next]
  /\ loggedOut' = IF request[w].op = "logout" THEN loggedOut \union {request[w].token}
                  ELSE loggedOut
  /\ End(w)
  /\ UNCHANGED <<users, merged, sessions, announced, raced, lostAnswer, faults>>

\* The invocation dies, or its answer is lost.
Die(w) ==
  /\ request[w] # Idle
  /\ UseFault
  /\ lostAnswer' = lostAnswer \union ({request[w].token, request[w].next} \ {None})
  /\ End(w)
  /\ UNCHANGED <<users, merged, sessions, cookie, announced, raced, loggedOut>>

IdentityStep(w) ==
  \/ InsertUser(w) \/ CreateSession(w) \/ Announce(w)
  \/ RevokeOld(w) \/ RevokeByToken(w) \/ Answer(w)

IdentityNext ==
  \E w \in Worker :
    \/ \E b \in Browser, a \in Account : Register(w, b, a) \/ Login(w, b, a)
    \/ \E b \in Browser : Refresh(w, b) \/ Logout(w, b)
    \/ IdentityStep(w) \/ AnnounceFails(w) \/ Die(w)

IdentitySpec == IdentityInit /\ [][IdentityNext]_identityVars

-----------------------------------------------------------------------------
(* Properties *)

Children(t) == {s \in Token : parent[s] = t}

\* A refresh token is exchanged for one session only, whatever is asked of
\* the API and whoever dies, unless two requests used it at once: the check
\* of revoked_at and the update that sets it are two statements.
TokenIsSpentOnce ==
  \A t \in Token : Cardinality(Children(t)) > 1 => t \in raced

\* An answered logout leaves no session behind it: the browser's own is
\* revoked, and none that a rotation made of it lives, unless that rotation
\* overlapped the logout or its answer never reached the browser.
LogoutEndsSession ==
  \A t \in loggedOut :
    /\ t \in revoked
    /\ \A s \in Children(t) \ revoked : t \in raced \/ t \in lostAnswer \/ s \in lostAnswer

\* Every account is known to the other services, which hand its visitor's cart
\* over, once its registration is over, unless an invocation died or the event
\* was refused. The event is sent after the commit, and a second registration
\* of the account is refused.
RegisteredIsAnnounced ==
  \A a \in users :
    \/ \E b \in Browser : <<a, b>> \in announced
    \/ \E w \in Worker : /\ request[w].op = "register" /\ request[w].account = a
                         /\ request[w].step \in {"session", "publish"}
    \/ faults > 0
=============================================================================
