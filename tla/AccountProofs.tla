---------------------------- MODULE AccountProofs ----------------------------
(***************************************************************************)
(* Proofs about a customer's account: Identity, for any accounts, browsers *)
(* and requests at once and every number of sessions and faults, and       *)
(* Addresses, for any addresses and devices.                               *)
(***************************************************************************)
EXTENDS Identity, Addresses, FiniteSetTheorems, TLAPS

-----------------------------------------------------------------------------
(* Identity: requests and sessions *)

\* How far a request of each kind can be, and what it knows there.
Shape(w) ==
  LET r == request[w] IN
  \/ r = Idle
  \/ /\ r.op = "register" /\ r.step \in {"insert", "session", "publish", "answer"}
     /\ r.browser \in Browser /\ r.account \in Account /\ r.token = None
     /\ r.next = None <=> r.step \in {"insert", "session"}
     /\ r.step # "insert" => r.account \in users
  \/ /\ r.op = "login" /\ r.step \in {"session", "answer"}
     /\ r.browser \in Browser /\ r.account \in Account /\ r.token = None
     /\ r.next = None <=> r.step = "session"
  \/ /\ r.op = "refresh" /\ r.step \in {"revoke", "session", "answer"}
     /\ r.browser \in Browser /\ r.account \in Account /\ r.token # None
     /\ r.next = None <=> r.step \in {"revoke", "session"}
  \/ /\ r.op = "logout" /\ r.step \in {"revoke", "answer"}
     /\ r.browser \in Browser /\ r.token # None /\ r.next = None

\* Tokens are drawn in their order, and there are enough.
Numbered ==
  /\ Drawn = 1..Cardinality(Drawn)
  /\ Cardinality(Drawn) + Cardinality(ToDraw) <= MaxSessions

Structure == IdentityTypeOK /\ (\A w \in Worker : Shape(w)) /\ Numbered

\* Unless a token is raced for, only one request works with it,
Claimed ==
  \A t \in Token \ raced, w, v \in Worker :
    request[w].token = t /\ request[v].token = t => w = v

\* ... it is revoked before it is replaced, and not replaced twice.
Replaced ==
  /\ \A w \in Worker : request[w].op = "refresh" /\ request[w].step # "revoke"
                         => request[w].token \in revoked
  /\ \A s \in Token : parent[s] # None => parent[s] \in revoked
  /\ \A w \in Worker, s \in Token :
       request[w].op = "refresh" /\ request[w].step \in {"revoke", "session"}
         /\ parent[s] = request[w].token => request[w].token \in raced
  /\ \A s, q \in Token : parent[s] # None /\ parent[s] = parent[q] /\ s # q
                           => parent[s] \in raced

\* A token is in one place only: with the request that drew it, or with the
\* browser it was answered to.
Held ==
  /\ \A w, v \in Worker : request[w].next # None /\ request[w].next = request[v].next => w = v
  /\ \A b, c \in Browser : cookie[b] # None /\ cookie[b] = cookie[c] => b = c
  /\ \A w \in Worker, b \in Browser :
       request[w].next # None => request[w].next # cookie[b]
  /\ \A w \in Worker : request[w].token # None =>
       /\ \A v \in Worker : request[v].next # request[w].token
       /\ \A b \in Browser : cookie[b] = request[w].token => b = request[w].browser

\* No request and no browser has the token.
Gone(t) ==
  /\ \A w \in Worker : request[w].next # t
  /\ \A b \in Browser : cookie[b] # t

\* A replacement that was answered took its predecessor's place; after a logout
\* there is none.
Ended ==
  /\ \A w \in Worker : request[w].op = "logout" /\ request[w].step = "answer"
                         => request[w].token \in revoked
  /\ \A t \in Token \ (raced \union lostAnswer) : \A s \in Children(t) \ lostAnswer :
       /\ t \notin loggedOut
       /\ \A w \in Worker : request[w].token = t => request[w].op # "logout"
       /\ \/ Gone(t)
          \/ \E w \in Worker : /\ request[w].op = "refresh" /\ request[w].step = "answer"
                               /\ request[w].token = t /\ request[w].next = s
  /\ loggedOut \subseteq revoked
  /\ \A t \in loggedOut \ raced, w \in Worker :
       ~(request[w].op = "refresh" /\ request[w].token = t)
-----------------------------------------------------------------------------
(* What the actions do to the requests *)

Row(op, step, b, a, t, n) ==
  [op |-> op, step |-> step, browser |-> b, account |-> a, token |-> t, next |-> n]

\* The request of w becomes r, the others stay.
RequestBecomes(w, r) ==
  request' = [v \in Worker |-> IF v = w THEN r ELSE request[v]]

LEMMA RequestFields ==
  ASSUME IdentityTypeOK, NEW w \in Worker
  PROVE  request[w] = Row(request[w].op, request[w].step, request[w].browser,
                          request[w].account, request[w].token, request[w].next)
BY DEF IdentityTypeOK, Requests, Row

LEMMA StartBecomes ==
  ASSUME IdentityTypeOK, NEW w \in Worker, NEW op, NEW step, NEW b, NEW a, NEW t,
         Start(w, op, step, b, a, t)
  PROVE  request[w] = Idle /\ RequestBecomes(w, Row(op, step, b, a, t, None))
BY DEF Start, RequestBecomes, Row, IdentityTypeOK

LEMMA EndBecomes ==
  ASSUME IdentityTypeOK, NEW w \in Worker, End(w)
  PROVE  RequestBecomes(w, Idle)
BY DEF End, RequestBecomes, IdentityTypeOK

LEMMA GoToBecomes ==
  ASSUME IdentityTypeOK, NEW w \in Worker, NEW step, GoTo(w, step)
  PROVE  RequestBecomes(w, Row(request[w].op, step, request[w].browser, request[w].account,
                        request[w].token, request[w].next))
<1>1. [request[w] EXCEPT !.step = step] =
        Row(request[w].op, step, request[w].browser, request[w].account,
            request[w].token, request[w].next)
  <2>1. request[w] \in Requests
    BY DEF IdentityTypeOK
  <2> QED BY <2>1 DEF Requests, Row
<1> QED BY <1>1 DEF GoTo, RequestBecomes, IdentityTypeOK

LEMMA DrawBecomes ==
  ASSUME IdentityTypeOK, NEW w \in Worker, NEW step, NEW t,
         request' = [request EXCEPT ![w].next = t, ![w].step = step]
  PROVE  RequestBecomes(w, Row(request[w].op, step, request[w].browser, request[w].account,
                        request[w].token, t))
<1> DEFINE drawn == Row(request[w].op, request[w].step, request[w].browser,
                        request[w].account, request[w].token, t)
<1>1. [request[w] EXCEPT !.next = t] = drawn
  <2>1. request[w] \in Requests
    BY DEF IdentityTypeOK
  <2> QED BY <2>1 DEF Requests, Row
<1>2. [drawn EXCEPT !.step = step] =
        Row(request[w].op, step, request[w].browser, request[w].account,
            request[w].token, t)
  BY DEF Row
<1>3. request' = [[request EXCEPT ![w] = drawn] EXCEPT ![w].step = step]
  BY <1>1, Zenon
<1>4. request' = [request EXCEPT ![w] = [drawn EXCEPT !.step = step]]
  BY <1>3 DEF IdentityTypeOK
<1> QED BY <1>2, <1>4 DEF RequestBecomes, IdentityTypeOK

-----------------------------------------------------------------------------
(* Structure *)

LEMMA DrawnFinite ==
  ASSUME IdentityTypeOK
  PROVE  /\ IsFiniteSet(Drawn) /\ Cardinality(Drawn) \in Nat
         /\ IsFiniteSet(ToDraw) /\ Cardinality(ToDraw) \in Nat
<1>1. IsFiniteSet(Token)
  BY FS_Interval, IdentityAssumption DEF Token
<1>2. Drawn \in SUBSET Token /\ ToDraw \in SUBSET Worker
  BY DEF Drawn, ToDraw
<1> QED BY <1>1, <1>2, FS_Subset, FS_CardinalityType, IdentityAssumption

\* A request that is to draw a token finds one.
LEMMA FreshToken ==
  ASSUME Structure, NEW w \in ToDraw
  PROVE  LET t == 1 + Cardinality(Drawn) IN
         t \in Token /\ t \notin Drawn /\ t # None /\ Drawn \union {t} = 1..t
<1> DEFINE n == Cardinality(Drawn)
<1>1. n \in Nat /\ IsFiniteSet(ToDraw) /\ Cardinality(ToDraw) \in Nat
  BY DrawnFinite DEF Structure
<1>2. Cardinality(ToDraw) >= 1
  BY <1>1, FS_EmptySet
<1>3. n + 1 <= MaxSessions /\ Drawn = 1..n
  BY <1>1, <1>2, IdentityAssumption DEF Structure, Numbered
<1>4. n + 1 \in Token
  BY <1>1, <1>3, IdentityAssumption DEF Token
<1> HIDE DEF n
<1>5. n + 1 \notin Drawn /\ Drawn \union {n + 1} = 1..(n + 1)
  BY <1>1, <1>3
<1> QED BY <1>1, <1>4, <1>5, IdentityAssumption DEF n

\* Where the request becomes one that draws no token, or it was one that does,
\* there are still enough.
LEMMA NoMoreToDraw ==
  ASSUME Structure, NEW w \in Worker, NEW r, RequestBecomes(w, r), UNCHANGED owner,
         (r.op # "logout" /\ r.step \in {"insert", "revoke", "session"}) => w \in ToDraw
  PROVE  Numbered'
<1>1. ToDraw' \subseteq ToDraw
  BY DEF ToDraw, RequestBecomes
<1>2. Drawn' = Drawn
  BY DEF Drawn
<1>3. Cardinality(ToDraw') <= Cardinality(ToDraw) /\ Cardinality(ToDraw') \in Nat
  BY <1>1, DrawnFinite, FS_Subset, FS_CardinalityType DEF Structure
<1> QED BY <1>2, <1>3, DrawnFinite, IdentityAssumption DEF Numbered, Structure

LEMMA RoomToDraw ==
  ASSUME Structure, Room, NEW w \in Worker, NEW r, RequestBecomes(w, r), UNCHANGED owner
  PROVE  Numbered'
<1>1. ToDraw' \subseteq ToDraw \union {w}
  BY DEF ToDraw, RequestBecomes
<1>2. Drawn' = Drawn
  BY DEF Drawn
<1>3. /\ IsFiniteSet(ToDraw \union {w})
      /\ Cardinality(ToDraw \union {w}) <= Cardinality(ToDraw) + 1
  <2>1. IsFiniteSet(ToDraw) /\ Cardinality(ToDraw) \in Nat
    BY DrawnFinite DEF Structure
  <2>2. /\ IsFiniteSet(ToDraw \union {w})
        /\ Cardinality(ToDraw \union {w}) =
             IF w \in ToDraw THEN Cardinality(ToDraw) ELSE Cardinality(ToDraw) + 1
    BY <2>1, FS_AddElement
  <2> QED BY <2>1, <2>2
<1>4. /\ Cardinality(ToDraw') <= Cardinality(ToDraw \union {w})
      /\ Cardinality(ToDraw') \in Nat /\ Cardinality(ToDraw \union {w}) \in Nat
  BY <1>1, <1>3, FS_Subset, FS_CardinalityType
<1> QED BY <1>2, <1>3, <1>4, DrawnFinite, IdentityAssumption DEF Numbered, Structure, Room

\* While no token is drawn, the request of one worker changes the types of nothing else.
LEMMA OthersTyped ==
  ASSUME Structure, NEW w \in Worker, NEW r, RequestBecomes(w, r), UNCHANGED owner, r \in Requests,
         users \subseteq users', Shape(w)'
  PROVE  /\ request' \in [Worker -> Requests'] /\ Drawn' = Drawn
         /\ \A v \in Worker : Shape(v)'
<1>1. Drawn' = Drawn
  BY DEF Drawn
<1>2. Requests' = Requests
  BY <1>1 DEF Requests
<1>3. request' \in [Worker -> Requests']
  BY <1>2 DEF Structure, IdentityTypeOK, RequestBecomes
<1>4. ASSUME NEW v \in Worker, v # w PROVE Shape(v)'
  <2>1. request'[v] = request[v]
    BY <1>4 DEF RequestBecomes
  <2> QED BY <2>1 DEF Structure, Shape
<1> QED BY <1>1, <1>3, <1>4
-----------------------------------------------------------------------------
(* One lemma for each action *)

LEMMA RegisterStructure ==
  ASSUME Structure, NEW w \in Worker, NEW b \in Browser, NEW a \in Account, Register(w, b, a)
  PROVE  Structure'
<1> DEFINE r == Row("register", "insert", b, a, None, None)
<1>1. RequestBecomes(w, r)
  BY StartBecomes DEF Register, Structure
<1>2. UNCHANGED <<users, merged, owner, revoked, parent, cookie, announced, raced,
                  loggedOut, lostAnswer, faults>>
  BY DEF Register, sessions
<1>3. r \in Requests /\ Shape(w)'
  BY <1>1 DEF Requests, Row, Shape, RequestBecomes
<1>4. Numbered'
  BY <1>1, <1>2, RoomToDraw DEF Register
<1> QED BY <1>1, <1>2, <1>3, <1>4, OthersTyped DEF Structure, IdentityTypeOK

LEMMA LoginStructure ==
  ASSUME Structure, NEW w \in Worker, NEW b \in Browser, NEW a \in Account, Login(w, b, a)
  PROVE  Structure'
<1> DEFINE r == Row("login", "session", b, a, None, None)
<1>1. RequestBecomes(w, r)
  BY StartBecomes DEF Login, Structure
<1>2. UNCHANGED <<users, merged, owner, revoked, parent, cookie, announced, raced,
                  loggedOut, lostAnswer, faults>>
  BY DEF Login, sessions
<1>3. r \in Requests /\ Shape(w)'
  BY <1>1 DEF Requests, Row, Shape, RequestBecomes
<1>4. Numbered'
  BY <1>1, <1>2, RoomToDraw DEF Login
<1> QED BY <1>1, <1>2, <1>3, <1>4, OthersTyped DEF Structure, IdentityTypeOK

LEMMA RefreshStructure ==
  ASSUME Structure, NEW w \in Worker, NEW b \in Browser, Refresh(w, b)
  PROVE  Structure'
<1> DEFINE r == Row("refresh", "revoke", b, owner[cookie[b]], cookie[b], None)
<1>1. RequestBecomes(w, r)
  BY StartBecomes DEF Refresh, Structure
<1>2. UNCHANGED <<users, merged, owner, revoked, parent, cookie, announced,
                  loggedOut, lostAnswer, faults>>
  BY DEF Refresh, sessions
<1>3. cookie[b] \in Drawn /\ cookie[b] # None /\ owner[cookie[b]] \in Account
  BY DEF Refresh, Structure, IdentityTypeOK, Drawn
<1>4. r \in Requests /\ Shape(w)'
  BY <1>1, <1>3 DEF Requests, Row, Shape, RequestBecomes
<1>5. Numbered'
  BY <1>1, <1>2, RoomToDraw DEF Refresh
<1>6. raced' \subseteq Drawn
  BY <1>3 DEF Refresh, Race, Structure, IdentityTypeOK
<1> QED BY <1>1, <1>2, <1>4, <1>5, <1>6, OthersTyped DEF Structure, IdentityTypeOK

LEMMA LogoutStructure ==
  ASSUME Structure, NEW w \in Worker, NEW b \in Browser, Logout(w, b)
  PROVE  Structure'
<1> DEFINE r == Row("logout", "revoke", b, None, cookie[b], None)
<1>1. RequestBecomes(w, r)
  BY StartBecomes DEF Logout, Structure
<1>2. UNCHANGED <<users, merged, owner, revoked, parent, cookie, announced,
                  loggedOut, lostAnswer, faults>>
  BY DEF Logout, sessions
<1>3. cookie[b] \in Drawn /\ cookie[b] # None
  BY DEF Logout, Structure, IdentityTypeOK
<1>4. r \in Requests /\ Shape(w)'
  BY <1>1, <1>3 DEF Requests, Row, Shape, RequestBecomes
<1>5. Numbered'
  BY <1>1, <1>2, NoMoreToDraw DEF Row
<1>6. raced' \subseteq Drawn
  BY <1>3 DEF Logout, Race, Structure, IdentityTypeOK
<1> QED BY <1>1, <1>2, <1>4, <1>5, <1>6, OthersTyped DEF Structure, IdentityTypeOK

\* A request that ends has drawn what it draws.
LEMMA EndStructure ==
  ASSUME Structure, NEW w \in Worker, RequestBecomes(w, Idle), UNCHANGED owner,
         users \subseteq users'
  PROVE  /\ request' \in [Worker -> Requests'] /\ Drawn' = Drawn
         /\ \A v \in Worker : Shape(v)'
         /\ Numbered'
<1>1. Idle \in Requests /\ Shape(w)'
  BY DEF Requests, Shape, RequestBecomes, Idle
<1>2. Numbered'
  BY NoMoreToDraw DEF Idle
<1> QED BY <1>1, <1>2, OthersTyped

LEMMA InsertUserStructure ==
  ASSUME Structure, NEW w \in Worker, InsertUser(w)
  PROVE  Structure'
<1> DEFINE q == request[w]
           r == Row(q.op, "session", q.browser, q.account, q.token, q.next)
<1>1. /\ q \in Requests /\ q.op = "register" /\ q.step = "insert"
      /\ q.browser \in Browser /\ q.account \in Account /\ q.token = None /\ q.next = None
  BY DEF InsertUser, At, Structure, Shape, IdentityTypeOK, Idle
<1>2. UNCHANGED <<owner, revoked, parent, cookie, announced, raced,
                  loggedOut, lostAnswer, faults>>
  BY DEF InsertUser, sessions
<1>3. CASE q.account \in users
  <2>1. RequestBecomes(w, Idle) /\ UNCHANGED <<users, merged>>
    BY <1>3, EndBecomes DEF InsertUser, Structure
  <2> QED BY <1>2, <2>1, EndStructure DEF Structure, IdentityTypeOK
<1>4. CASE q.account \notin users
  <2>1. /\ RequestBecomes(w, r) /\ users' = users \union {q.account}
        /\ merged' = [merged EXCEPT ![q.browser] = q.account]
    BY <1>4, GoToBecomes DEF InsertUser, Structure
  <2>2. r \in Requests /\ Shape(w)'
    BY <1>1, <2>1 DEF Requests, Row, Shape, RequestBecomes
  <2>3. Numbered'
    BY <1>1, <1>2, <2>1, NoMoreToDraw DEF ToDraw
  <2> HIDE DEF r
  <2> QED BY <1>1, <1>2, <2>1, <2>2, <2>3, OthersTyped DEF Structure, IdentityTypeOK
<1> QED BY <1>3, <1>4

LEMMA CreateSessionStructure ==
  ASSUME Structure, NEW w \in Worker, CreateSession(w)
  PROVE  Structure'
<1> DEFINE q == request[w]
           n == Cardinality(Drawn)
           t == 1 + n
           r == Row(q.op, IF q.op = "register" THEN "publish" ELSE "answer",
                    q.browser, q.account, q.token, t)
<1>1. /\ q \in Requests /\ q.op \in {"register", "login", "refresh"} /\ q.step = "session"
      /\ q.browser \in Browser /\ q.account \in Account
      /\ q.op = "refresh" <=> q.token # None
  BY DEF CreateSession, Structure, Shape, IdentityTypeOK, Idle
<1>2. /\ RequestBecomes(w, r)
      /\ owner' = [owner EXCEPT ![t] = q.account]
      /\ parent' = [parent EXCEPT ![t] = q.token]
      /\ UNCHANGED <<users, merged, revoked, cookie, announced, raced, loggedOut,
                     lostAnswer, faults>>
  BY DrawBecomes DEF CreateSession, Structure
<1>3. /\ w \in ToDraw /\ t \in Token /\ t \notin Drawn /\ t # None
      /\ Drawn \union {t} = 1..t
  BY <1>1, FreshToken DEF ToDraw
<1>4. n \in Nat /\ IsFiniteSet(Drawn) /\ IsFiniteSet(ToDraw) /\ Cardinality(ToDraw) \in Nat
  BY DrawnFinite DEF Structure
<1> HIDE DEF r, n, t
<1>5. Drawn' = Drawn \union {t}
  <2>1. owner' \in [Token -> Account \union {None}] /\ q.account # None
    BY <1>1, <1>2, IdentityAssumption DEF Structure, IdentityTypeOK
  <2> QED BY <1>2, <1>3, <2>1 DEF Structure, IdentityTypeOK, Drawn
<1>6. r \in Requests' /\ Requests \subseteq Requests' /\ Shape(w)'
  <2>1. request'[w] = r
    BY <1>2 DEF RequestBecomes
  <2>2. r \in Requests'
    BY <1>1, <1>3, <1>5 DEF Requests, r, Row
  <2>3. Shape(w)'
    <3>1. /\ r.op = q.op /\ r.browser = q.browser /\ r.account = q.account
          /\ r.token = q.token /\ r.next = t
          /\ r.step = IF q.op = "register" THEN "publish" ELSE "answer"
      BY DEF r, Row
    <3>2. q.op = "register" => q.account \in users
      BY <1>1 DEF Structure, Shape, Idle
    <3>3. users' = users
      BY <1>2
    <3>4. CASE q.op = "register"
      BY <1>1, <1>3, <2>1, <3>1, <3>2, <3>3, <3>4 DEF Shape
    <3>5. CASE q.op = "login"
      BY <1>1, <1>3, <2>1, <3>1, <3>5 DEF Shape
    <3>6. CASE q.op = "refresh"
      BY <1>1, <1>3, <2>1, <3>1, <3>6 DEF Shape
    <3> QED BY <1>1, <3>4, <3>5, <3>6
  <2> QED BY <1>5, <2>2, <2>3 DEF Requests
<1>7. request' \in [Worker -> Requests'] /\ \A v \in Worker : Shape(v)'
  <2>1. request' \in [Worker -> Requests']
    BY <1>2, <1>6 DEF RequestBecomes, Structure, IdentityTypeOK
  <2>2. ASSUME NEW v \in Worker, v # w PROVE Shape(v)'
    <3>1. request'[v] = request[v]
      BY <1>2, <2>2 DEF RequestBecomes
    <3> QED BY <1>2, <3>1 DEF Structure, Shape
  <2> QED BY <1>6, <2>1, <2>2
<1>8. Numbered'
  <2>1. Cardinality(Drawn') = n + 1
    BY <1>3, <1>4, <1>5, FS_AddElement DEF n
  <2>2. ToDraw' = ToDraw \ {w}
    BY <1>2 DEF ToDraw, RequestBecomes, r, Row
  <2>3. Cardinality(ToDraw') = Cardinality(ToDraw) - 1
    BY <1>3, <1>4, <2>2, FS_RemoveElement
  <2>4. n + Cardinality(ToDraw) <= MaxSessions
    BY DEF Structure, Numbered, n
  <2>5. Drawn' = 1..(n + 1)
    BY <1>3, <1>4, <1>5 DEF t
  <2> QED BY <1>4, <2>1, <2>3, <2>4, <2>5, IdentityAssumption DEF Numbered
<1>9. /\ owner' \in [Token -> Account \union {None}]
      /\ parent' \in [Token -> Drawn' \union {None}]
  BY <1>1, <1>2, <1>3, <1>5 DEF Structure, IdentityTypeOK, Requests
<1> QED BY <1>2, <1>5, <1>7, <1>8, <1>9 DEF Structure, IdentityTypeOK

\* The steps that only move on.
LEMMA GoToStructure ==
  ASSUME Structure, NEW w \in Worker, NEW step \in {"session", "answer"}, GoTo(w, step),
         UNCHANGED <<owner, users>>,
         \/ At(w, "register", "publish") /\ step = "answer"
         \/ At(w, "refresh", "revoke") /\ step = "session"
         \/ At(w, "logout", "revoke") /\ step = "answer"
  PROVE  /\ request' \in [Worker -> Requests'] /\ Drawn' = Drawn
         /\ \A v \in Worker : Shape(v)'
         /\ Numbered'
<1> DEFINE q == request[w]
           r == Row(q.op, step, q.browser, q.account, q.token, q.next)
<1>1. RequestBecomes(w, r)
  BY GoToBecomes DEF Structure
<1>2. q \in Requests /\ Shape(w)
  BY DEF Structure, IdentityTypeOK
<1>3. r \in Requests /\ Shape(w)'
  BY <1>1, <1>2 DEF Requests, Row, Shape, RequestBecomes, At, Idle
<1>4. Numbered'
  <2>1. (r.op # "logout" /\ r.step \in {"insert", "revoke", "session"}) => w \in ToDraw
    BY DEF ToDraw, At, Row
  <2> HIDE DEF r
  <2> QED BY <1>1, <2>1, NoMoreToDraw
<1> HIDE DEF r
<1> QED BY <1>1, <1>3, <1>4, OthersTyped

LEMMA AnnounceStructure ==
  ASSUME Structure, NEW w \in Worker, Announce(w)
  PROVE  Structure'
<1>1. At(w, "register", "publish") /\ GoTo(w, "answer")
  BY DEF Announce
<1>2. UNCHANGED <<users, merged, owner, revoked, parent, cookie, raced, loggedOut,
                  lostAnswer, faults>>
  BY DEF Announce, sessions
<1>3. /\ request' \in [Worker -> Requests'] /\ Drawn' = Drawn
      /\ (\A v \in Worker : Shape(v)') /\ Numbered'
  BY <1>1, <1>2, GoToStructure
<1>4. announced' = announced \union {<<request[w].account, request[w].browser>>}
  BY DEF Announce
<1>5. request[w].account \in users /\ request[w].browser \in Browser
  BY <1>1 DEF Structure, Shape, At, Idle
<1> QED BY <1>2, <1>3, <1>4, <1>5 DEF Structure, IdentityTypeOK

LEMMA AnnounceFailsStructure ==
  ASSUME Structure, NEW w \in Worker, AnnounceFails(w)
  PROVE  Structure'
<1>1. At(w, "register", "publish") /\ (GoTo(w, "answer") \/ End(w))
  BY DEF AnnounceFails
<1>2. UNCHANGED <<users, merged, owner, revoked, parent, cookie, announced, raced,
                  loggedOut, lostAnswer>>
  BY DEF AnnounceFails, sessions
<1>3. faults' \in 0..MaxFaults
  BY IdentityAssumption DEF AnnounceFails, UseFault, Structure, IdentityTypeOK
<1>4. /\ request' \in [Worker -> Requests'] /\ Drawn' = Drawn
      /\ (\A v \in Worker : Shape(v)') /\ Numbered'
  BY <1>1, <1>2, GoToStructure, EndBecomes, EndStructure DEF Structure
<1> QED BY <1>2, <1>3, <1>4 DEF Structure, IdentityTypeOK

LEMMA RevokeOldStructure ==
  ASSUME Structure, NEW w \in Worker, RevokeOld(w)
  PROVE  Structure'
<1>1. At(w, "refresh", "revoke") /\ GoTo(w, "session")
  BY DEF RevokeOld
<1>2. UNCHANGED <<users, merged, owner, parent, cookie, announced, raced,
                  loggedOut, lostAnswer, faults>>
  BY DEF RevokeOld
<1>3. /\ request' \in [Worker -> Requests'] /\ Drawn' = Drawn
      /\ (\A v \in Worker : Shape(v)') /\ Numbered'
  BY <1>1, <1>2, GoToStructure
<1>4. request[w].token \in Drawn
  BY <1>1 DEF Structure, IdentityTypeOK, Requests, Shape, At, Idle
<1>5. revoked' \subseteq Drawn
  BY <1>4 DEF RevokeOld, Structure, IdentityTypeOK
<1> QED BY <1>2, <1>3, <1>5 DEF Structure, IdentityTypeOK

LEMMA RevokeByTokenStructure ==
  ASSUME Structure, NEW w \in Worker, RevokeByToken(w)
  PROVE  Structure'
<1>1. At(w, "logout", "revoke") /\ GoTo(w, "answer")
  BY DEF RevokeByToken
<1>2. UNCHANGED <<users, merged, owner, parent, cookie, announced, raced,
                  loggedOut, lostAnswer, faults>>
  BY DEF RevokeByToken
<1>3. /\ request' \in [Worker -> Requests'] /\ Drawn' = Drawn
      /\ (\A v \in Worker : Shape(v)') /\ Numbered'
  BY <1>1, <1>2, GoToStructure
<1>4. request[w].token \in Drawn
  BY <1>1 DEF Structure, IdentityTypeOK, Requests, Shape, At, Idle
<1>5. revoked' \subseteq Drawn
  BY <1>4 DEF RevokeByToken, RevokePresented, Structure, IdentityTypeOK
<1> QED BY <1>2, <1>3, <1>5 DEF Structure, IdentityTypeOK

LEMMA AnswerStructure ==
  ASSUME Structure, NEW w \in Worker, Answer(w)
  PROVE  Structure'
<1>1. /\ request[w].step = "answer" /\ RequestBecomes(w, Idle)
      /\ cookie' = [cookie EXCEPT ![request[w].browser] = request[w].next]
      /\ loggedOut' = IF request[w].op = "logout" THEN loggedOut \union {request[w].token}
                      ELSE loggedOut
      /\ UNCHANGED <<users, merged, owner, revoked, parent, announced, raced,
                     lostAnswer, faults>>
  BY EndBecomes DEF Answer, Structure, sessions
<1>2. /\ request' \in [Worker -> Requests'] /\ Drawn' = Drawn
      /\ (\A v \in Worker : Shape(v)') /\ Numbered'
  BY <1>1, EndStructure
<1>3. /\ request[w].next \in Drawn \union {None}
      /\ request[w].op = "logout" => request[w].token \in Drawn
  BY DEF Structure, IdentityTypeOK, Requests, Shape, Idle
<1> QED BY <1>1, <1>2, <1>3 DEF Structure, IdentityTypeOK

LEMMA DieStructure ==
  ASSUME Structure, NEW w \in Worker, Die(w)
  PROVE  Structure'
<1>1. RequestBecomes(w, Idle)
  BY EndBecomes DEF Die, Structure
<1>2. UNCHANGED <<users, merged, owner, revoked, parent, cookie, announced, raced,
                  loggedOut>>
  BY DEF Die, sessions
<1>3. /\ request' \in [Worker -> Requests'] /\ Drawn' = Drawn
      /\ (\A v \in Worker : Shape(v)') /\ Numbered'
  BY <1>1, <1>2, EndStructure
<1>4. faults' \in 0..MaxFaults
  BY IdentityAssumption DEF Die, UseFault, Structure, IdentityTypeOK
<1>5. lostAnswer' \subseteq Drawn
  BY DEF Die, Structure, IdentityTypeOK, Requests
<1> QED BY <1>2, <1>3, <1>4, <1>5 DEF Structure, IdentityTypeOK

LEMMA InitStructure == IdentityInit => Structure
<1> SUFFICES ASSUME IdentityInit PROVE Structure
  OBVIOUS
<1>1. Drawn = {} /\ ToDraw = {}
  BY DEF IdentityInit, Drawn, ToDraw, Idle
<1>2. \A w \in Worker : request[w] = Idle /\ Idle \in Requests
  BY DEF IdentityInit, Idle, Requests
<1>3. IdentityTypeOK
  BY <1>1, <1>2, IdentityAssumption DEF IdentityInit, IdentityTypeOK
<1>4. Numbered
  BY <1>1, FS_EmptySet, IdentityAssumption DEF Numbered
<1> QED BY <1>2, <1>3, <1>4 DEF Structure, Shape
-----------------------------------------------------------------------------
(* Sessions *)

Sessions == Structure /\ Claimed /\ Replaced /\ Held /\ Ended

\* A request without a token of its own disturbs nobody's.
LEMMA QuietSessions ==
  ASSUME Sessions, NEW w \in Worker, NEW r, RequestBecomes(w, r),
         UNCHANGED <<owner, revoked, parent, cookie, raced, loggedOut, lostAnswer>>,
         request[w].op \in {"none", "register", "login"},
         r.op \in {"none", "register", "login"},
         r.token = None, r.next = None \/ r.next = request[w].next
  PROVE  Claimed' /\ Replaced' /\ Held' /\ Ended'
<1>1. \A v \in Worker : request'[v] = IF v = w THEN r ELSE request[v]
  BY DEF RequestBecomes
<1>2. request[w].token = None
  BY DEF Sessions, Structure, Shape, Idle
<1>3. None \notin Token
  BY IdentityAssumption
<1>4. Claimed'
  BY <1>1, <1>3 DEF Sessions, Claimed
<1>5. Replaced'
  BY <1>1, <1>3 DEF Sessions, Replaced
<1>6. Held'
  BY <1>1, <1>2 DEF Sessions, Held
<1>7. Ended'
  <2>1. \A t \in Token : Gone(t) => Gone(t)'
    BY <1>1, <1>3 DEF Gone
  <2>2. \A t \in Token : Children(t)' = Children(t)
    BY DEF Children
  <2>3. \A t \in loggedOut' \ raced', v \in Worker :
           ~(request'[v].op = "refresh" /\ request'[v].token = t)
    BY <1>1 DEF Sessions, Ended
  <2>4. \A t \in Token \ (raced' \union lostAnswer') : \A s \in Children(t)' \ lostAnswer' :
          \A v \in Worker : request'[v].token = t => request'[v].op # "logout"
    BY <1>1, <2>2 DEF Sessions, Ended
  <2>5. \A t \in Token \ (raced' \union lostAnswer') : \A s \in Children(t)' \ lostAnswer' :
            \/ Gone(t)'
            \/ \E v \in Worker : /\ request'[v].op = "refresh" /\ request'[v].step = "answer"
                                 /\ request'[v].token = t /\ request'[v].next = s
    BY <1>1, <2>1, <2>2 DEF Sessions, Ended
  <2> QED BY <1>1, <2>2, <2>3, <2>4, <2>5 DEF Sessions, Ended
<1> QED BY <1>4, <1>5, <1>6, <1>7

\* A request that presents the token of its browser. Nobody else works with
\* the token, or it is raced for now; and its browser is where the token is.
LEMMA PresentSessions ==
  ASSUME Sessions, NEW w \in Worker, NEW b \in Browser, NEW op \in {"refresh", "logout"}, NEW a,
         RequestBecomes(w, Row(op, "revoke", b, a, cookie[b], None)), request[w] = Idle,
         cookie[b] # None, op = "refresh" => cookie[b] \notin revoked,
         UNCHANGED <<owner, revoked, parent, cookie, loggedOut, lostAnswer>>,
         Race(w, cookie[b])
  PROVE  Claimed' /\ Replaced' /\ Held' /\ Ended'
<1> DEFINE t == cookie[b]
           r == Row(op, "revoke", b, a, t, None)
<1>1. \A v \in Worker : request'[v] = IF v = w THEN r ELSE request[v]
  BY DEF RequestBecomes
<1>2. /\ r.op = op /\ r.step = "revoke" /\ r.browser = b /\ r.token = t /\ r.next = None
      /\ request[w].op = "none" /\ request[w].token = None /\ request[w].next = None
  BY DEF Row, Idle
<1>3. None \notin Token /\ t \in Token /\ t # None
  BY IdentityAssumption DEF Sessions, Structure, IdentityTypeOK, Drawn
<1>4. raced \subseteq raced' /\ raced' \subseteq raced \union {t}
  BY DEF Race
<1>5. t \notin raced' => \A v \in Worker : v # w => request[v].token # t
  BY DEF Race, UsedBesides
<1> HIDE DEF r, t
<1>6. Claimed'
  BY <1>1, <1>2, <1>4, <1>5 DEF Sessions, Claimed
<1>7. Replaced'
  <2>1. op = "refresh" => \A s \in Token : parent[s] # t
    BY <1>3 DEF Sessions, Replaced, t
  <2> QED BY <1>1, <1>2, <1>4, <2>1 DEF Sessions, Replaced
<1>8. Held'
  <2>1. \A v \in Worker : request[v].next # t
    BY <1>3 DEF Sessions, Held, t
  <2>2. \A c \in Browser : cookie[c] = t => c = b
    BY <1>3 DEF Sessions, Held, t
  <2> QED BY <1>1, <1>2, <1>3, <2>1, <2>2 DEF Sessions, Held
<1>9. Ended'
  <2>1. \A q \in Token : Gone(q) => Gone(q)'
    BY <1>1, <1>2, <1>3 DEF Gone
  <2>2. \A q \in Token : Children(q)' = Children(q)
    BY DEF Children
  <2>3. ASSUME NEW q \in loggedOut' \ raced', NEW v \in Worker
        PROVE  ~(request'[v].op = "refresh" /\ request'[v].token = q)
    <3>1. q \in loggedOut \ raced /\ q \in revoked
      BY <1>4 DEF Sessions, Ended
    <3> QED BY <1>1, <1>2, <3>1 DEF Sessions, Ended, t
  <2>4. ASSUME NEW q \in Token \ (raced' \union lostAnswer'), NEW s \in Children(q)' \ lostAnswer'
        PROVE  /\ q \notin loggedOut'
               /\ q # t
               /\ \A v \in Worker : request'[v].token = q => request'[v].op # "logout"
               /\ \/ Gone(q)'
                  \/ \E v \in Worker : /\ request'[v].op = "refresh" /\ request'[v].step = "answer"
                                       /\ request'[v].token = q /\ request'[v].next = s
    <3>1. q \in Token \ (raced \union lostAnswer) /\ s \in Children(q) \ lostAnswer
      BY <1>4, <2>2
    <3>2. /\ q \notin loggedOut
          /\ \A v \in Worker : request[v].token = q => request[v].op # "logout"
          /\ \/ Gone(q)
             \/ \E v \in Worker : /\ request[v].op = "refresh" /\ request[v].step = "answer"
                                  /\ request[v].token = q /\ request[v].next = s
      BY <3>1 DEF Sessions, Ended
    <3>3. q # t
      BY <1>2, <1>5, <2>4, <3>2 DEF Gone, t
    <3> QED BY <1>1, <1>2, <2>1, <3>2, <3>3
  <2>5. \A v \in Worker : request'[v].op = "logout" /\ request'[v].step = "answer"
                            => request'[v].token \in revoked'
    BY <1>1, <1>2 DEF Sessions, Ended
  <2> QED BY <2>3, <2>4, <2>5 DEF Sessions, Ended
<1> QED BY <1>6, <1>7, <1>8, <1>9

\* A request that has revoked its token.
LEMMA RevokeSessions ==
  ASSUME Sessions, NEW w \in Worker, NEW step \in {"session", "answer"}, GoTo(w, step),
         \/ At(w, "refresh", "revoke") /\ step = "session"
         \/ At(w, "logout", "revoke") /\ step = "answer",
         revoked' = revoked \union {request[w].token},
         UNCHANGED <<owner, parent, cookie, raced, loggedOut, lostAnswer>>
  PROVE  Claimed' /\ Replaced' /\ Held' /\ Ended'
<1> DEFINE q == request[w]
           r == Row(q.op, step, q.browser, q.account, q.token, q.next)
<1>1. \A v \in Worker : request'[v] = IF v = w THEN r ELSE request[v]
  BY GoToBecomes DEF RequestBecomes, Sessions, Structure
<1>2. /\ r.op = q.op /\ r.step = step /\ r.browser = q.browser /\ r.token = q.token
      /\ r.next = q.next /\ q.next = None /\ q.step = "revoke"
      /\ (q.op = "refresh" /\ step = "session") \/ (q.op = "logout" /\ step = "answer")
  BY DEF Row, At, Sessions, Structure, Shape, Idle
<1>3. None \notin Token
  BY IdentityAssumption
<1> HIDE DEF r
<1>4. Claimed'
  BY <1>1, <1>2 DEF Sessions, Claimed
<1>5. Replaced'
  BY <1>1, <1>2 DEF Sessions, Replaced
<1>6. Held'
  BY <1>1, <1>2 DEF Sessions, Held
<1>7. Ended'
  <2>1. \A t \in Token : Gone(t) => Gone(t)'
    BY <1>1, <1>2, <1>3 DEF Gone
  <2>2. \A t \in Token : Children(t)' = Children(t)
    BY DEF Children
  <2>3. ASSUME NEW t \in Token \ (raced' \union lostAnswer'), NEW s \in Children(t)' \ lostAnswer'
        PROVE  /\ t \notin loggedOut'
               /\ \A v \in Worker : request'[v].token = t => request'[v].op # "logout"
               /\ \/ Gone(t)'
                  \/ \E v \in Worker : /\ request'[v].op = "refresh" /\ request'[v].step = "answer"
                                       /\ request'[v].token = t /\ request'[v].next = s
    <3>1. t \in Token \ (raced \union lostAnswer) /\ s \in Children(t) \ lostAnswer
      BY <2>2
    <3>2. /\ t \notin loggedOut
          /\ \A v \in Worker : request[v].token = t => request[v].op # "logout"
          /\ \/ Gone(t)
             \/ \E v \in Worker : /\ request[v].op = "refresh" /\ request[v].step = "answer"
                                  /\ request[v].token = t /\ request[v].next = s
      BY <3>1 DEF Sessions, Ended
    <3> QED BY <1>1, <1>2, <2>1, <3>2
  <2>4. \A v \in Worker : request'[v].op = "logout" /\ request'[v].step = "answer"
                            => request'[v].token \in revoked'
    BY <1>1, <1>2 DEF Sessions, Ended
  <2>5. \A t \in loggedOut' \ raced', v \in Worker :
           ~(request'[v].op = "refresh" /\ request'[v].token = t)
    BY <1>1, <1>2 DEF Sessions, Ended
  <2>6. loggedOut' \subseteq revoked'
    BY DEF Sessions, Ended
  <2> QED BY <2>3, <2>4, <2>5, <2>6 DEF Ended
<1> QED BY <1>4, <1>5, <1>6, <1>7

\* A new token is nobody's yet. The token it replaces has not been replaced
\* before, unless it was raced for, and no logout works with it.
LEMMA CreateSessionSessions ==
  ASSUME Sessions, NEW w \in Worker, CreateSession(w)
  PROVE  Claimed' /\ Replaced' /\ Held' /\ Ended'
<1> DEFINE q == request[w]
           t == 1 + Cardinality(Drawn)
           r == Row(q.op, IF q.op = "register" THEN "publish" ELSE "answer",
                    q.browser, q.account, q.token, t)
<1>1. /\ \A v \in Worker : request'[v] = IF v = w THEN r ELSE request[v]
      /\ parent' = [parent EXCEPT ![t] = q.token]
      /\ UNCHANGED <<revoked, cookie, raced, loggedOut, lostAnswer>>
  <2>1. RequestBecomes(w, r)
    BY DrawBecomes DEF CreateSession, Sessions, Structure
  <2> HIDE DEF r
  <2> QED BY <2>1 DEF CreateSession, RequestBecomes
<1>2. /\ r.op = q.op /\ r.step # "revoke" /\ r.step # "session"
      /\ q.op = "refresh" => r.step = "answer"
      /\ r.browser = q.browser /\ r.token = q.token /\ r.next = t
  BY DEF Row
<1>3. /\ q.step = "session" /\ q.next = None
      /\ q.op \in {"register", "login", "refresh"}
      /\ q.op = "refresh" <=> q.token # None
      /\ q.token \in Drawn \union {None}
  BY DEF CreateSession, Sessions, Structure, Shape, IdentityTypeOK, Requests, Idle
<1>4. t \in Token /\ t \notin Drawn /\ t # None
  <2>1. w \in ToDraw
    BY <1>3 DEF ToDraw
  <2> QED BY <2>1, FreshToken DEF Sessions
<1> HIDE DEF r, t
<1>5. /\ \A v \in Worker : request[v].next # t /\ request[v].token # t
      /\ \A b \in Browser : cookie[b] # t
      /\ \A s \in Token : parent[s] # t
      /\ parent \in [Token -> Drawn \union {None}] /\ Drawn \subseteq Token
  BY <1>4 DEF Sessions, Structure, IdentityTypeOK, Requests, Drawn
<1>6. None \notin Token
  BY IdentityAssumption
<1>7. \A s \in Token : parent'[s] = IF s = t THEN q.token ELSE parent[s]
  BY <1>1, <1>5
<1>8. Claimed'
  BY <1>1, <1>2 DEF Sessions, Claimed
<1>9. Replaced'
  <2>1. q.token # None => q.token \in revoked
    BY <1>3 DEF Sessions, Replaced
  <2>2. q.token # None => \A s \in Token : parent[s] = q.token => q.token \in raced
    BY <1>3 DEF Sessions, Replaced
  <2>3. \A v \in Worker : v # w /\ q.token # None /\ request[v].token = q.token => q.token \in raced
    BY <1>3, <1>5 DEF Sessions, Claimed
  <2>4. \A s \in Token : parent'[s] # None => parent'[s] \in revoked'
    BY <1>1, <1>7, <2>1 DEF Sessions, Replaced
  <2>5. ASSUME NEW v \in Worker, NEW s \in Token,
               request'[v].op = "refresh", request'[v].step \in {"revoke", "session"},
               parent'[s] = request'[v].token
        PROVE  request'[v].token \in raced'
    <3>1. v # w /\ request'[v] = request[v]
      BY <1>1, <1>2, <2>5
    <3>2. request[v].token # None
      BY <2>5, <3>1 DEF Sessions, Structure, Shape, Idle
    <3> QED BY <1>1, <1>7, <2>3, <2>5, <3>1, <3>2 DEF Sessions, Replaced
  <2>6. \A s, p \in Token : parent'[s] # None /\ parent'[s] = parent'[p] /\ s # p
                              => parent'[s] \in raced'
    BY <1>1, <1>7, <2>2 DEF Sessions, Replaced
  <2>7. \A v \in Worker : request'[v].op = "refresh" /\ request'[v].step # "revoke"
                            => request'[v].token \in revoked'
    BY <1>1, <1>2, <1>3 DEF Sessions, Replaced
  <2> QED BY <2>4, <2>5, <2>6, <2>7 DEF Replaced
<1>10. Held'
  BY <1>1, <1>2, <1>3, <1>4, <1>5 DEF Sessions, Held
<1>11. Ended'
  <2>1. \A u \in Token : u # t /\ Gone(u) => Gone(u)'
    BY <1>1, <1>2 DEF Gone
  <2>2. \A u \in Token : Children(u)' \subseteq Children(u) \union {t}
    BY <1>7 DEF Children
  <2>3. \A u \in Token : t \in Children(u)' => u = q.token
    BY <1>7 DEF Children
  <2>4. ASSUME NEW u \in Token \ (raced' \union lostAnswer'), NEW s \in Children(u)' \ lostAnswer'
        PROVE  /\ u \notin loggedOut'
               /\ \A v \in Worker : request'[v].token = u => request'[v].op # "logout"
               /\ \/ Gone(u)'
                  \/ \E v \in Worker : /\ request'[v].op = "refresh" /\ request'[v].step = "answer"
                                       /\ request'[v].token = u /\ request'[v].next = s
    <3>1. CASE s = t
      <4>1. q.op = "refresh" /\ q.token = u
        BY <1>3, <1>6, <2>3, <2>4, <3>1
      <4>2. u \notin loggedOut
        BY <1>1, <2>4, <4>1 DEF Sessions, Ended
      <4>3. \A v \in Worker : request[v].token = u => v = w
        BY <1>1, <2>4, <4>1 DEF Sessions, Claimed
      <4> QED BY <1>1, <1>2, <3>1, <4>1, <4>2, <4>3
    <3>2. CASE s # t
      <4>1. u \in Token \ (raced \union lostAnswer) /\ s \in Children(u) \ lostAnswer
        BY <1>1, <2>2, <2>4, <3>2
      <4>2. /\ u \notin loggedOut
            /\ \A v \in Worker : request[v].token = u => request[v].op # "logout"
            /\ \/ Gone(u)
               \/ \E v \in Worker : /\ request[v].op = "refresh" /\ request[v].step = "answer"
                                    /\ request[v].token = u /\ request[v].next = s
        BY <4>1 DEF Sessions, Ended
      <4>3. u # t
        BY <1>5, <4>1 DEF Children
      <4> QED BY <1>1, <1>2, <1>3, <2>1, <4>2, <4>3
    <3> QED BY <3>1, <3>2
  <2>5. \A v \in Worker : request'[v].op = "logout" /\ request'[v].step = "answer"
                            => request'[v].token \in revoked'
    BY <1>1, <1>2, <1>3 DEF Sessions, Ended
  <2>6. \A u \in loggedOut' \ raced', v \in Worker :
           ~(request'[v].op = "refresh" /\ request'[v].token = u)
    BY <1>1, <1>2 DEF Sessions, Ended
  <2>7. loggedOut' \subseteq revoked'
    BY <1>1 DEF Sessions, Ended
  <2> QED BY <2>4, <2>5, <2>6, <2>7 DEF Ended
<1> QED BY <1>8, <1>9, <1>10, <1>11

\* An answer puts the new token in the place of the old one.
LEMMA AnswerSessions ==
  ASSUME Sessions, NEW w \in Worker, Answer(w)
  PROVE  Claimed' /\ Replaced' /\ Held' /\ Ended'
<1> DEFINE q == request[w]
<1>1. /\ \A v \in Worker : request'[v] = IF v = w THEN Idle ELSE request[v]
      /\ cookie' = [cookie EXCEPT ![q.browser] = q.next]
      /\ loggedOut' = IF q.op = "logout" THEN loggedOut \union {q.token} ELSE loggedOut
      /\ UNCHANGED <<revoked, parent, raced, lostAnswer>>
  BY EndBecomes DEF Answer, Sessions, Structure, RequestBecomes, sessions
<1>2. /\ q.step = "answer" /\ q.browser \in Browser
      /\ q.op = "logout" => q.token \in Token
      /\ cookie \in [Browser -> Drawn \union {None}]
  BY DEF Answer, Sessions, Structure, Shape, IdentityTypeOK, Requests, Idle, Drawn
<1>3. Idle.op = "none" /\ Idle.step = "none" /\ Idle.token = None /\ Idle.next = None
  BY DEF Idle
<1>4. None \notin Token
  BY IdentityAssumption
<1>5. \A b \in Browser : cookie'[b] = IF b = q.browser THEN q.next ELSE cookie[b]
  BY <1>1, <1>2
<1>6. Claimed'
  BY <1>1, <1>3, <1>4 DEF Sessions, Claimed
<1>7. Replaced'
  BY <1>1, <1>3, <1>4 DEF Sessions, Replaced
<1>8. Held'
  <2>1. \A v \in Worker, b \in Browser :
          request'[v].next # None => request'[v].next # cookie'[b]
    BY <1>1, <1>3, <1>5 DEF Sessions, Held
  <2>2. \A b, c \in Browser : cookie'[b] # None /\ cookie'[b] = cookie'[c] => b = c
    BY <1>5 DEF Sessions, Held
  <2>3. \A v, u \in Worker : request'[v].next # None /\ request'[v].next = request'[u].next => v = u
    BY <1>1, <1>3 DEF Sessions, Held
  <2>4. \A v \in Worker : request'[v].token # None =>
          /\ \A u \in Worker : request'[u].next # request'[v].token
          /\ \A b \in Browser : cookie'[b] = request'[v].token => b = request'[v].browser
    BY <1>1, <1>3, <1>5 DEF Sessions, Held
  <2> QED BY <2>1, <2>2, <2>3, <2>4 DEF Held
<1>9. Ended'
  <2>1. \A t \in Token : Gone(t) => Gone(t)'
    BY <1>1, <1>3, <1>4, <1>5 DEF Gone
  <2>2. \A t \in Token : Children(t)' = Children(t)
    BY <1>1 DEF Children
  <2>3. ASSUME NEW t \in Token \ (raced' \union lostAnswer'), NEW s \in Children(t)' \ lostAnswer'
        PROVE  /\ t \notin loggedOut'
               /\ \A v \in Worker : request'[v].token = t => request'[v].op # "logout"
               /\ \/ Gone(t)'
                  \/ \E v \in Worker : /\ request'[v].op = "refresh" /\ request'[v].step = "answer"
                                       /\ request'[v].token = t /\ request'[v].next = s
    <3>1. t \in Token \ (raced \union lostAnswer) /\ s \in Children(t) \ lostAnswer /\ t # None
      BY <1>1, <1>4, <2>2, <2>3
    <3>2. /\ t \notin loggedOut
          /\ \A v \in Worker : request[v].token = t => request[v].op # "logout"
          /\ \/ Gone(t)
             \/ \E v \in Worker : /\ request[v].op = "refresh" /\ request[v].step = "answer"
                                  /\ request[v].token = t /\ request[v].next = s
      BY <3>1 DEF Sessions, Ended
    <3>3. t \notin loggedOut'
      BY <1>1, <3>2
    <3>4. \A v \in Worker : request'[v].token = t => request'[v].op # "logout"
      BY <1>1, <1>3, <3>2
    <3>5. q.token = t => Gone(t)'
      BY <1>1, <1>3, <1>5, <3>1 DEF Gone, Sessions, Held
    <3> QED BY <1>1, <2>1, <3>2, <3>3, <3>4, <3>5
  <2>4. \A v \in Worker : request'[v].op = "logout" /\ request'[v].step = "answer"
                            => request'[v].token \in revoked'
    BY <1>1, <1>3 DEF Sessions, Ended
  <2>5. ASSUME NEW t \in loggedOut' \ raced', NEW v \in Worker
        PROVE  ~(request'[v].op = "refresh" /\ request'[v].token = t)
    <3>1. CASE t \in loggedOut
      BY <1>1, <1>3, <2>5, <3>1 DEF Sessions, Ended
    <3>2. CASE t \notin loggedOut
      <4>1. q.op = "logout" /\ q.token = t /\ t \in Token
        BY <1>1, <1>2, <2>5, <3>2
      <4>2. \A u \in Worker : request[u].token = t => u = w
        BY <1>1, <2>5, <4>1 DEF Sessions, Claimed
      <4> QED BY <1>1, <1>3, <4>2
    <3> QED BY <3>1, <3>2
  <2>6. loggedOut' \subseteq revoked'
    BY <1>1, <1>2 DEF Sessions, Ended
  <2> QED BY <2>3, <2>4, <2>5, <2>6 DEF Ended
<1> QED BY <1>6, <1>7, <1>8, <1>9

\* A token whose request is not answered is set aside.
LEMMA DieSessions ==
  ASSUME Sessions, NEW w \in Worker, Die(w)
  PROVE  Claimed' /\ Replaced' /\ Held' /\ Ended'
<1> DEFINE q == request[w]
<1>1. /\ \A v \in Worker : request'[v] = IF v = w THEN Idle ELSE request[v]
      /\ lostAnswer' = lostAnswer \union ({q.token, q.next} \ {None})
      /\ UNCHANGED <<revoked, parent, cookie, raced, loggedOut>>
  BY EndBecomes DEF Die, Sessions, Structure, RequestBecomes, sessions
<1>2. Idle.op = "none" /\ Idle.step = "none" /\ Idle.token = None /\ Idle.next = None
  BY DEF Idle
<1>3. None \notin Token
  BY IdentityAssumption
<1>4. Claimed'
  BY <1>1, <1>2, <1>3 DEF Sessions, Claimed
<1>5. Replaced'
  BY <1>1, <1>2, <1>3 DEF Sessions, Replaced
<1>6. Held'
  BY <1>1, <1>2, <1>3 DEF Sessions, Held
<1>7. Ended'
  <2>1. \A t \in Token : Gone(t) => Gone(t)'
    BY <1>1, <1>2, <1>3 DEF Gone
  <2>2. \A t \in Token : Children(t)' = Children(t)
    BY <1>1 DEF Children
  <2>3. ASSUME NEW t \in Token \ (raced' \union lostAnswer'), NEW s \in Children(t)' \ lostAnswer'
        PROVE  /\ t \notin loggedOut'
               /\ \A v \in Worker : request'[v].token = t => request'[v].op # "logout"
               /\ \/ Gone(t)'
                  \/ \E v \in Worker : /\ request'[v].op = "refresh" /\ request'[v].step = "answer"
                                       /\ request'[v].token = t /\ request'[v].next = s
    <3>1. /\ t \in Token \ (raced \union lostAnswer) /\ s \in Children(t) \ lostAnswer
          /\ t # None /\ t # q.token
      BY <1>1, <1>3, <2>2, <2>3
    <3>2. /\ t \notin loggedOut
          /\ \A v \in Worker : request[v].token = t => request[v].op # "logout"
          /\ \/ Gone(t)
             \/ \E v \in Worker : /\ request[v].op = "refresh" /\ request[v].step = "answer"
                                  /\ request[v].token = t /\ request[v].next = s
      BY <3>1 DEF Sessions, Ended
    <3> QED BY <1>1, <1>2, <2>1, <3>1, <3>2
  <2>4. \A v \in Worker : request'[v].op = "logout" /\ request'[v].step = "answer"
                            => request'[v].token \in revoked'
    BY <1>1, <1>2 DEF Sessions, Ended
  <2>5. \A t \in loggedOut' \ raced', v \in Worker :
           ~(request'[v].op = "refresh" /\ request'[v].token = t)
    BY <1>1, <1>2 DEF Sessions, Ended
  <2>6. loggedOut' \subseteq revoked'
    BY <1>1 DEF Sessions, Ended
  <2> QED BY <2>3, <2>4, <2>5, <2>6 DEF Ended
<1> QED BY <1>4, <1>5, <1>6, <1>7

LEMMA InitSessions == IdentityInit => Sessions
<1> SUFFICES ASSUME IdentityInit PROVE Sessions
  OBVIOUS
<1>1. Structure
  BY InitStructure
<1>2. /\ \A w \in Worker : request[w] = Idle
      /\ Idle.op = "none" /\ Idle.step = "none" /\ Idle.token = None /\ Idle.next = None
      /\ \A b \in Browser : cookie[b] = None
      /\ \A s \in Token : parent[s] = None
      /\ loggedOut = {} /\ None \notin Token
  BY IdentityAssumption DEF IdentityInit, Idle
<1> QED BY <1>1, <1>2 DEF Sessions, Claimed, Replaced, Held, Ended, Children

LEMMA StepSessions == Sessions /\ [IdentityNext]_identityVars => Sessions'
<1> SUFFICES ASSUME Sessions, [IdentityNext]_identityVars PROVE Sessions'
  OBVIOUS
<1>1. ASSUME NEW w \in Worker, NEW b \in Browser, NEW a \in Account, Register(w, b, a)
      PROVE  Sessions'
  <2> DEFINE r == Row("register", "insert", b, a, None, None)
  <2>1. RequestBecomes(w, r) /\ request[w].op = "none"
    BY <1>1, StartBecomes DEF Register, Sessions, Structure, Idle
  <2>2. r.op = "register" /\ r.token = None /\ r.next = None
    BY DEF Row
  <2>3. UNCHANGED <<owner, revoked, parent, cookie, raced, loggedOut, lostAnswer>>
    BY <1>1 DEF Register, sessions
  <2> HIDE DEF r
  <2> QED BY <1>1, <2>1, <2>2, <2>3, QuietSessions, RegisterStructure DEF Sessions
<1>2. ASSUME NEW w \in Worker, NEW b \in Browser, NEW a \in Account, Login(w, b, a)
      PROVE  Sessions'
  <2> DEFINE r == Row("login", "session", b, a, None, None)
  <2>1. RequestBecomes(w, r) /\ request[w].op = "none"
    BY <1>2, StartBecomes DEF Login, Sessions, Structure, Idle
  <2>2. r.op = "login" /\ r.token = None /\ r.next = None
    BY DEF Row
  <2>3. UNCHANGED <<owner, revoked, parent, cookie, raced, loggedOut, lostAnswer>>
    BY <1>2 DEF Login, sessions
  <2> HIDE DEF r
  <2> QED BY <1>2, <2>1, <2>2, <2>3, QuietSessions, LoginStructure DEF Sessions
<1>3. ASSUME NEW w \in Worker, NEW b \in Browser, Refresh(w, b) PROVE Sessions'
  <2>1. /\ request[w] = Idle
        /\ RequestBecomes(w, Row("refresh", "revoke", b, owner[cookie[b]], cookie[b], None))
    BY <1>3, StartBecomes DEF Refresh, Sessions, Structure
  <2>2. /\ cookie[b] # None /\ cookie[b] \notin revoked /\ Race(w, cookie[b])
        /\ UNCHANGED <<owner, revoked, parent, cookie, loggedOut, lostAnswer>>
    BY <1>3 DEF Refresh, Valid, sessions
  <2> QED BY <1>3, <2>1, <2>2, PresentSessions, RefreshStructure DEF Sessions
<1>4. ASSUME NEW w \in Worker, NEW b \in Browser, Logout(w, b) PROVE Sessions'
  <2>1. /\ request[w] = Idle
        /\ RequestBecomes(w, Row("logout", "revoke", b, None, cookie[b], None))
    BY <1>4, StartBecomes DEF Logout, Sessions, Structure
  <2>2. /\ cookie[b] # None /\ Race(w, cookie[b])
        /\ UNCHANGED <<owner, revoked, parent, cookie, loggedOut, lostAnswer>>
    BY <1>4 DEF Logout, sessions
  <2> QED BY <1>4, <2>1, <2>2, PresentSessions, LogoutStructure DEF Sessions
<1>5. ASSUME NEW w \in Worker, InsertUser(w) PROVE Sessions'
  <2> DEFINE q == request[w]
             r == Row(q.op, "session", q.browser, q.account, q.token, q.next)
  <2>1. q.op = "register" /\ q.token = None
    BY <1>5 DEF InsertUser, At, Sessions, Structure, Shape, Idle
  <2>2. RequestBecomes(w, Idle) \/ RequestBecomes(w, r)
    BY <1>5, EndBecomes, GoToBecomes DEF InsertUser, Sessions, Structure
  <2>3. /\ r.op = "register" /\ r.token = None /\ r.next = q.next
        /\ Idle.op = "none" /\ Idle.token = None /\ Idle.next = None
    BY <2>1 DEF Row, Idle
  <2>4. UNCHANGED <<owner, revoked, parent, cookie, raced, loggedOut, lostAnswer>>
    BY <1>5 DEF InsertUser, sessions
  <2> HIDE DEF r
  <2> QED BY <1>5, <2>1, <2>2, <2>3, <2>4, QuietSessions, InsertUserStructure DEF Sessions
<1>6. ASSUME NEW w \in Worker, Announce(w) \/ AnnounceFails(w) PROVE Sessions'
  <2> DEFINE q == request[w]
             r == Row(q.op, "answer", q.browser, q.account, q.token, q.next)
  <2>1. q.op = "register" /\ q.token = None
    BY <1>6 DEF Announce, AnnounceFails, At, Sessions, Structure, Shape, Idle
  <2>2. RequestBecomes(w, Idle) \/ RequestBecomes(w, r)
    BY <1>6, EndBecomes, GoToBecomes DEF Announce, AnnounceFails, Sessions, Structure
  <2>3. /\ r.op = "register" /\ r.token = None /\ r.next = q.next
        /\ Idle.op = "none" /\ Idle.token = None /\ Idle.next = None
    BY <2>1 DEF Row, Idle
  <2>4. UNCHANGED <<owner, revoked, parent, cookie, raced, loggedOut, lostAnswer>>
    BY <1>6 DEF Announce, AnnounceFails, sessions
  <2>5. Structure'
    BY <1>6, AnnounceStructure, AnnounceFailsStructure DEF Sessions
  <2> HIDE DEF r
  <2> QED BY <2>1, <2>2, <2>3, <2>4, <2>5, QuietSessions DEF Sessions
<1>7. ASSUME NEW w \in Worker, CreateSession(w) PROVE Sessions'
  BY <1>7, CreateSessionSessions, CreateSessionStructure DEF Sessions
<1>8. ASSUME NEW w \in Worker, RevokeOld(w) PROVE Sessions'
  <2>1. /\ At(w, "refresh", "revoke") /\ GoTo(w, "session")
        /\ revoked' = revoked \union {request[w].token}
        /\ UNCHANGED <<owner, parent, cookie, raced, loggedOut, lostAnswer>>
    BY <1>8 DEF RevokeOld
  <2> QED BY <1>8, <2>1, RevokeSessions, RevokeOldStructure DEF Sessions
<1>9. ASSUME NEW w \in Worker, RevokeByToken(w) PROVE Sessions'
  <2>1. /\ At(w, "logout", "revoke") /\ GoTo(w, "answer")
        /\ revoked' = revoked \union {request[w].token}
        /\ UNCHANGED <<owner, parent, cookie, raced, loggedOut, lostAnswer>>
    BY <1>9 DEF RevokeByToken, RevokePresented
  <2> QED BY <1>9, <2>1, RevokeSessions, RevokeByTokenStructure DEF Sessions
<1>10. ASSUME NEW w \in Worker, Answer(w) PROVE Sessions'
  BY <1>10, AnswerSessions, AnswerStructure DEF Sessions
<1>11. ASSUME NEW w \in Worker, Die(w) PROVE Sessions'
  BY <1>11, DieSessions, DieStructure DEF Sessions
<1>12. CASE UNCHANGED identityVars
  BY <1>12 DEF identityVars, sessions, Sessions, Structure, IdentityTypeOK, Requests, Drawn,
       Shape, Numbered, ToDraw, Claimed, Replaced, Held, Ended, Gone, Children
<1> QED BY <1>1, <1>2, <1>3, <1>4, <1>5, <1>6, <1>7, <1>8, <1>9, <1>10, <1>11, <1>12
        DEF IdentityNext, IdentityStep

-----------------------------------------------------------------------------
(* Registrations *)

\* A request that does not leave "session" or "publish" of a registration takes
\* no account's announcement away.
LEMMA StaysRegistered ==
  ASSUME RegisteredIsAnnounced, NEW w \in Worker, NEW r, RequestBecomes(w, r), users' = users,
         announced \subseteq announced', faults \in Nat, faults' >= faults, faults' \in Nat,
         request[w].op = "register" /\ request[w].step \in {"session", "publish"}
           => /\ r.op = "register" /\ r.account = request[w].account
              /\ r.step \in {"session", "publish"}
  PROVE  RegisteredIsAnnounced'
<1>1. \A v \in Worker : request'[v] = IF v = w THEN r ELSE request[v]
  BY DEF RequestBecomes
<1> QED BY <1>1 DEF RegisteredIsAnnounced

LEMMA StepRegistered ==
  Structure /\ RegisteredIsAnnounced /\ [IdentityNext]_identityVars => RegisteredIsAnnounced'
<1> SUFFICES ASSUME Structure, RegisteredIsAnnounced, [IdentityNext]_identityVars
             PROVE  RegisteredIsAnnounced'
  OBVIOUS
<1>0. faults \in Nat /\ MaxFaults \in Nat
  BY IdentityAssumption DEF Structure, IdentityTypeOK
<1>1. ASSUME NEW w \in Worker, NEW op \in {"register", "login", "refresh", "logout"},
             NEW step, NEW b, NEW a, NEW t, Start(w, op, step, b, a, t),
             UNCHANGED <<users, announced, faults>>
      PROVE  RegisteredIsAnnounced'
  <2>1. RequestBecomes(w, Row(op, step, b, a, t, None)) /\ request[w].op = "none"
    BY <1>1, StartBecomes DEF Structure, Idle
  <2> QED BY <1>0, <1>1, <2>1, StaysRegistered
<1>2. ASSUME NEW w \in Worker, InsertUser(w) PROVE RegisteredIsAnnounced'
  <2> DEFINE q == request[w]
             r == Row(q.op, "session", q.browser, q.account, q.token, q.next)
  <2>1. /\ q.op = "register" /\ q.step = "insert"
        /\ UNCHANGED <<announced, faults>>
    BY <1>2 DEF InsertUser, At
  <2>2. CASE q.account \in users
    <3>1. RequestBecomes(w, Idle) /\ users' = users
      BY <1>2, <2>2, EndBecomes DEF InsertUser, Structure
    <3> QED BY <1>0, <2>1, <3>1, StaysRegistered
  <2>3. CASE q.account \notin users
    <3>1. RequestBecomes(w, r) /\ users' = users \union {q.account}
      BY <1>2, <2>3, GoToBecomes DEF InsertUser, Structure
    <3>2. r.op = "register" /\ r.step = "session" /\ r.account = q.account
      BY <2>1 DEF Row
    <3> HIDE DEF r
    <3>3. \A v \in Worker : request'[v] = IF v = w THEN r ELSE request[v]
      BY <3>1 DEF RequestBecomes
    <3> QED BY <2>1, <3>1, <3>2, <3>3 DEF RegisteredIsAnnounced
  <2> QED BY <2>2, <2>3
<1>3. ASSUME NEW w \in Worker, CreateSession(w) PROVE RegisteredIsAnnounced'
  <2> DEFINE q == request[w]
             r == Row(q.op, IF q.op = "register" THEN "publish" ELSE "answer",
                      q.browser, q.account, q.token, 1 + Cardinality(Drawn))
  <2>1. RequestBecomes(w, r) /\ UNCHANGED <<users, announced, faults>>
    BY <1>3, DrawBecomes DEF CreateSession, Structure
  <2>2. r.op = q.op /\ r.account = q.account /\ (q.op = "register" => r.step = "publish")
    BY DEF Row
  <2> HIDE DEF r
  <2> QED BY <1>0, <2>1, <2>2, StaysRegistered
<1>4. ASSUME NEW w \in Worker, Announce(w) PROVE RegisteredIsAnnounced'
  <2> DEFINE q == request[w]
             r == Row(q.op, "answer", q.browser, q.account, q.token, q.next)
  <2>1. /\ At(w, "register", "publish") /\ GoTo(w, "answer")
        /\ announced' = announced \union {<<q.account, q.browser>>}
        /\ UNCHANGED <<users, faults>>
    BY <1>4 DEF Announce
  <2>2. q.browser \in Browser
    BY <2>1 DEF Structure, Shape, At, Idle
  <2>3. \A v \in Worker : request'[v] = IF v = w THEN r ELSE request[v]
    BY <2>1, GoToBecomes DEF Structure, RequestBecomes
  <2> HIDE DEF r
  <2> QED BY <2>1, <2>2, <2>3 DEF RegisteredIsAnnounced
<1>5. ASSUME NEW w \in Worker, UseFault, users' = users PROVE RegisteredIsAnnounced'
  BY <1>0, <1>5 DEF UseFault, RegisteredIsAnnounced
<1>6. ASSUME NEW w \in Worker, NEW op, NEW step, op # "register", At(w, op, step),
             NEW next, GoTo(w, next), UNCHANGED <<users, announced, faults>>
      PROVE  RegisteredIsAnnounced'
  <2>1. RequestBecomes(w, Row(request[w].op, next, request[w].browser, request[w].account,
                       request[w].token, request[w].next))
    BY <1>6, GoToBecomes DEF Structure
  <2> QED BY <1>0, <1>6, <2>1, StaysRegistered DEF At
<1>7. ASSUME NEW w \in Worker, Answer(w) PROVE RegisteredIsAnnounced'
  <2>1. RequestBecomes(w, Idle) /\ request[w].step = "answer" /\ UNCHANGED <<users, announced, faults>>
    BY <1>7, EndBecomes DEF Answer, Structure
  <2> QED BY <1>0, <2>1, StaysRegistered
<1>8. CASE UNCHANGED identityVars
  BY <1>8 DEF identityVars, RegisteredIsAnnounced
<1>9. ASSUME NEW w \in Worker, NEW b \in Browser, NEW a \in Account,
             Register(w, b, a) \/ Login(w, b, a)
      PROVE  RegisteredIsAnnounced'
  BY <1>1, <1>9 DEF Register, Login
<1>10. ASSUME NEW w \in Worker, AnnounceFails(w) \/ Die(w) PROVE RegisteredIsAnnounced'
  BY <1>5, <1>10 DEF AnnounceFails, Die
<1>11. ASSUME NEW w \in Worker, RevokeOld(w) \/ RevokeByToken(w) PROVE RegisteredIsAnnounced'
  BY <1>6, <1>11 DEF RevokeOld, RevokeByToken
<1>12. ASSUME NEW w \in Worker, NEW b \in Browser, Refresh(w, b) \/ Logout(w, b)
       PROVE  RegisteredIsAnnounced'
  BY <1>1, <1>12 DEF Refresh, Logout
<1> QED BY <1>2, <1>3, <1>4, <1>7, <1>8, <1>9, <1>10, <1>11, <1>12
        DEF IdentityNext, IdentityStep

-----------------------------------------------------------------------------
(* The theorems *)

\* The bookkeeping of sessions the theorems below rest on holds in every
\* reachable state of the requests of auth.service.ts and session.service.ts.
THEOREM SessionsHold == IdentitySpec => []Sessions
BY InitSessions, StepSessions, PTL DEF IdentitySpec

\* The tables, tokens and requests have their types: no token is used that was
\* not drawn, and the requests in progress never want for one.
THEOREM IdentityTypes == IdentitySpec => []IdentityTypeOK
<1>1. Sessions => IdentityTypeOK
  BY DEF Sessions, Structure
<1> QED BY <1>1, SessionsHold, PTL

\* A set any two members of which are the same has one at most.
LEMMA AtMostOne ==
  ASSUME NEW S, \A s, q \in S : s = q
  PROVE  ~(Cardinality(S) > 1)
<1>1. CASE S = {}
  BY <1>1, FS_EmptySet
<1>2. CASE S # {}
  <2>1. PICK s \in S : S = {s}
    BY <1>2
  <2>2. Cardinality(S) = 1
    BY <2>1, FS_Singleton
  <2> QED BY <2>2
<1> QED BY <1>1, <1>2

\* rotateSession: a refresh token is exchanged for one session only, unless two
\* requests raced for it.
THEOREM SpentOnce == IdentitySpec => []TokenIsSpentOnce
<1>1. Sessions => TokenIsSpentOnce
  <2> SUFFICES ASSUME Sessions, NEW t \in Token, t \notin raced
               PROVE  ~(Cardinality(Children(t)) > 1)
    BY DEF TokenIsSpentOnce
  <2>1. t # None
    BY IdentityAssumption
  <2>2. \A s, q \in Children(t) : s = q
    BY <2>1 DEF Sessions, Replaced, Children
  <2> QED BY <2>2, AtMostOne
<1> QED BY <1>1, SessionsHold, PTL

\* logout: the browser's session is revoked, and no rotation's session is left,
\* unless they overlapped or the rotation's answer was lost.
THEOREM LogoutHolds == IdentitySpec => []LogoutEndsSession
<1>1. Sessions => LogoutEndsSession
  BY DEF Sessions, Structure, IdentityTypeOK, Drawn, Ended, Children, LogoutEndsSession
<1> QED BY <1>1, SessionsHold, PTL

\* register: an account's registration is announced, unless a fault ends it.
THEOREM RegistrationHolds == IdentitySpec => []RegisteredIsAnnounced
<1>1. IdentityInit => RegisteredIsAnnounced
  BY DEF IdentityInit, RegisteredIsAnnounced
<1>2. Sessions => Structure
  BY DEF Sessions
<1> QED BY <1>1, <1>2, SessionsHold, StepRegistered, PTL DEF IdentitySpec

-----------------------------------------------------------------------------
(* Addresses: transactions and the default *)

\* How far a request of each kind can be, and what it knows there.
TxShape(d) ==
  LET t == tx[d] IN
  /\ t.step = "none" => t = NoTx
  /\ t.step # "none" => t.op # "none" /\ t.target \in entered
  /\ t.step \in {"clear", "cleared", "write", "commit"} => t.op \in {"create", "update"}
  /\ t.step \in {"clear", "cleared"} => t.flag
  /\ t.cleared # {} => t.flag /\ t.step \in {"write", "commit", "failed"}
  /\ t.op = "update" => t.target \in list[d].rows
  /\ t.op = "update" /\ t.step = "commit" => t.target \in exists

\* A request that has still to create its address,
Creates(d) == tx[d].op = "create" /\ tx[d].step \in {"clear", "cleared", "write", "commit"}

\* ... and nobody else does.
Fresh ==
  /\ \A d \in Device : Creates(d) => tx[d].target \notin exists
  /\ \A d, e \in Device : Creates(d) /\ Creates(e) /\ tx[d].target = tx[e].target => d = e

\* Two transactions never hold one row; the index lets one write a default,
\* which will be the only one.
Excluded ==
  /\ \A d, e \in Device : d # e => Locked(d) \intersect Locked(e) = {}
  /\ \A d, e \in Device : WritesDefault(d) /\ WritesDefault(e) => d = e
  /\ \A d \in Device : WritesDefault(d) => default \subseteq tx[d].cleared \union {tx[d].target}

\* A default that was chosen stands alone.
Chosen ==
  /\ chosen => \E a \in default : default = {a}
  /\ ~chosen => default = {}

AddressesInv ==
  AddressesTypeOK /\ (\A d \in Device : TxShape(d)) /\ Fresh /\ Excluded /\ Chosen
-----------------------------------------------------------------------------
(* What the actions do to the requests *)

TxRow(op, step, target, flag, seen, cleared) ==
  [op |-> op, step |-> step, target |-> target, flag |-> flag, seen |-> seen,
   cleared |-> cleared]

\* The request of d becomes r, the others stay.
Becomes(d, r) == tx' = [e \in Device |-> IF e = d THEN r ELSE tx[e]]

LEMMA TxFields ==
  ASSUME AddressesTypeOK, NEW d \in Device
  PROVE  tx[d] = TxRow(tx[d].op, tx[d].step, tx[d].target, tx[d].flag, tx[d].seen, tx[d].cleared)
BY DEF AddressesTypeOK, Transactions, TxRow

LEMMA TxGoToBecomes ==
  ASSUME AddressesTypeOK, NEW d \in Device, NEW step, TxGoTo(d, step)
  PROVE  Becomes(d, TxRow(tx[d].op, step, tx[d].target, tx[d].flag, tx[d].seen, tx[d].cleared))
<1>1. [tx[d] EXCEPT !.step = step] =
        TxRow(tx[d].op, step, tx[d].target, tx[d].flag, tx[d].seen, tx[d].cleared)
  <2>1. tx[d] \in Transactions
    BY DEF AddressesTypeOK
  <2> QED BY <2>1 DEF Transactions, TxRow
<1> QED BY <1>1 DEF TxGoTo, Becomes, AddressesTypeOK

LEMMA AskBecomes ==
  ASSUME AddressesTypeOK, NEW d \in Device, NEW op, NEW a, NEW flag, NEW step,
         Ask(d, op, a, flag, step)
  PROVE  tx[d] = NoTx /\ Becomes(d, TxRow(op, step, a, flag, {}, {}))
BY DEF Ask, Becomes, TxRow, AddressesTypeOK

\* Requests that do not move keep their locks.
LEMMA OthersKeep ==
  ASSUME NEW d \in Device, NEW r, Becomes(d, r)
  PROVE  /\ tx'[d] = r
         /\ \A e \in Device : e # d => tx'[e] = tx[e] /\ Locked(e)' = Locked(e)
                                         /\ (WritesDefault(e)' <=> WritesDefault(e))
                                         /\ (Creates(e)' <=> Creates(e))
BY DEF Becomes, Locked, WritesDefault, Creates, TxAt
-----------------------------------------------------------------------------
(* Each action keeps the invariant *)

LEMMA NoTxType == NoTx \in Transactions
BY DEF NoTx, Transactions

LEMMA InitAddresses == AddressesInit => AddressesInv
<1> SUFFICES ASSUME AddressesInit PROVE AddressesInv
  OBVIOUS
<1>1. \A d \in Device : tx[d] = NoTx /\ list[d] = Loading
  BY DEF AddressesInit
<1>2. AddressesTypeOK
  BY <1>1, NoTxType DEF AddressesInit, AddressesTypeOK, Lists, Loading, NoTx
<1>3. ASSUME NEW d \in Device PROVE TxShape(d)
  <2>1. tx[d].op = "none" /\ tx[d].step = "none" /\ tx[d].cleared = {}
    BY <1>1 DEF NoTx
  <2> QED BY <1>1, <2>1 DEF TxShape
<1>4. Fresh /\ Excluded /\ Chosen
  BY <1>1 DEF AddressesInit, NoTx, Fresh, Creates, Excluded, Locked, WritesDefault, TxAt, Chosen
<1> QED BY <1>2, <1>3, <1>4 DEF AddressesInv

LEMMA ListKeeps ==
  ASSUME AddressesInv, NEW d \in Device, List(d)
  PROVE  AddressesInv'
<1> USE DEF AddressesInv, List
<1>1. AddressesTypeOK'
  BY DEF AddressesTypeOK, Lists
<1>2. ASSUME NEW e \in Device PROVE TxShape(e)'
  BY DEF AddressesTypeOK, TxShape, NoTx
<1>3. (Fresh /\ Excluded /\ Chosen)'
  BY DEF Fresh, Creates, Excluded, Locked, WritesDefault, TxAt, Chosen
<1> QED BY <1>1, <1>2, <1>3

\* A request that begins, ends or fails without touching a row.
LEMMA MovesKeep ==
  ASSUME AddressesInv, NEW d \in Device, NEW r \in Transactions, Becomes(d, r),
         UNCHANGED <<exists, default, entered, list, chosen>>,
         r.cleared \subseteq tx[d].cleared,
         r.step \notin {"clear", "cleared", "write", "commit"},
         r.step = "none" => r = NoTx,
         r.step # "none" => r.op # "none" /\ r.target \in entered,
         r.cleared # {} => r.flag /\ r.step = "failed",
         r.op = "update" => r.target \in list[d].rows
  PROVE  AddressesInv'
<1> USE DEF AddressesInv
<1>1. AddressesTypeOK'
  BY DEF AddressesTypeOK, Becomes
<1>2. ASSUME NEW e \in Device PROVE TxShape(e)'
  <2>1. TxShape(e)
    OBVIOUS
  <2> QED BY <2>1 DEF Becomes, TxShape
<1>3. Fresh'
  BY DEF Fresh, Creates, Becomes
<1>4. Locked(d)' \subseteq Locked(d)
  BY OthersKeep DEF Locked, TxAt
<1>5. Excluded'
  <2>1. ~WritesDefault(d)'
    BY OthersKeep DEF WritesDefault, TxAt
  <2>2. \A e, f \in Device : e # f => Locked(e)' \intersect Locked(f)' = {}
    BY <1>4, OthersKeep DEF Excluded
  <2> QED BY <2>1, <2>2, OthersKeep DEF Excluded
<1>6. Chosen'
  BY DEF Chosen
<1> QED BY <1>1, <1>2, <1>3, <1>5, <1>6

\* A request that has still to write its row.
LEMMA ProceedKeeps ==
  ASSUME AddressesInv, NEW d \in Device, NEW r \in Transactions, Becomes(d, r),
         UNCHANGED <<exists, default, list, chosen>>,
         entered \subseteq entered', entered' \subseteq Address,
         r.step \in {"clear", "cleared", "write"}, r.op \in {"create", "update"},
         r.target \in entered', r.step # "write" => r.flag,
         r.cleared \subseteq default, r.cleared \intersect LockedByOthers(d) = {},
         r.cleared # {} => r.flag /\ r.step = "write",
         r.op = "update" => r.target \in list[d].rows,
         r.op = "create" => /\ r.target \notin exists
                            /\ \A e \in Device \ {d} : Creates(e) => tx[e].target # r.target
  PROVE  AddressesInv'
<1> USE DEF AddressesInv
<1>1. AddressesTypeOK'
  BY DEF AddressesTypeOK, Becomes
<1>2. ASSUME NEW e \in Device PROVE TxShape(e)'
  <2>1. TxShape(e)
    OBVIOUS
  <2> QED BY <2>1 DEF Becomes, TxShape
<1>3. Fresh'
  <2>1. tx'[d] = r /\ \A e \in Device : e # d => tx'[e] = tx[e] /\ (Creates(e)' <=> Creates(e))
    BY OthersKeep
  <2>2. \A e \in Device : Creates(e)' => tx'[e].target \notin exists
    BY <2>1 DEF Fresh, Creates
  <2>3. \A e \in Device : e # d /\ Creates(d)' /\ Creates(e)' => tx'[e].target # tx'[d].target
    BY <2>1 DEF Creates
  <2> QED BY <2>1, <2>2, <2>3 DEF Fresh
<1>4. Locked(d)' = r.cleared
  BY OthersKeep DEF Locked, TxAt
<1>5. \A e \in Device : e # d => Locked(d)' \intersect Locked(e)' = {}
  BY <1>4, OthersKeep DEF LockedByOthers
<1>6. Excluded'
  <2>1. ~WritesDefault(d)'
    BY OthersKeep DEF WritesDefault, TxAt
  <2>2. \A e, f \in Device : e # f => Locked(e)' \intersect Locked(f)' = {}
    BY <1>5, OthersKeep DEF Excluded
  <2> QED BY <2>1, <2>2, OthersKeep DEF Excluded
<1>7. Chosen'
  BY DEF Chosen
<1> QED BY <1>1, <1>2, <1>3, <1>6, <1>7

LEMMA CreateAddressKeeps ==
  ASSUME AddressesInv, NEW d \in Device, NEW a \in Address, NEW flag \in BOOLEAN,
         CreateAddress(d, a, flag)
  PROVE  AddressesInv'
<1> DEFINE r == TxRow("create", IF flag THEN "clear" ELSE "write", a, flag, {}, {})
<1>1. /\ a \notin entered /\ entered' = entered \union {a}
      /\ UNCHANGED <<exists, default, list, chosen>>
  BY DEF CreateAddress
<1>2. Becomes(d, r)
  BY AskBecomes DEF CreateAddress, AddressesInv
<1>3. /\ r \in Transactions /\ r.op = "create" /\ r.target = a /\ r.flag = flag /\ r.cleared = {}
      /\ r.step = IF flag THEN "clear" ELSE "write"
  BY DEF TxRow, Transactions
<1>4. \A e \in Device : Creates(e) => tx[e].target # a
  BY <1>1 DEF AddressesInv, TxShape, Creates
<1>5. a \notin exists /\ entered \subseteq Address
  BY <1>1 DEF AddressesInv, AddressesTypeOK
<1> HIDE DEF r
<1> QED BY <1>1, <1>2, <1>3, <1>4, <1>5, ProceedKeeps

LEMMA UpdateAddressKeeps ==
  ASSUME AddressesInv, NEW d \in Device, NEW a \in Address, NEW flag \in BOOLEAN,
         UpdateAddress(d, a, flag)
  PROVE  AddressesInv'
<1> DEFINE r == TxRow("update", IF flag THEN "clear" ELSE "write", a, flag, {}, {})
<1>1. a \in list[d].rows /\ a \in exists /\ UNCHANGED <<exists, default, entered, list, chosen>>
  BY DEF UpdateAddress
<1>2. Becomes(d, r)
  BY AskBecomes DEF UpdateAddress, AddressesInv
<1>3. /\ r \in Transactions /\ r.op = "update" /\ r.target = a /\ r.flag = flag /\ r.cleared = {}
      /\ r.step = IF flag THEN "clear" ELSE "write"
  BY DEF TxRow, Transactions
<1>4. a \in entered /\ entered \subseteq Address
  BY <1>1 DEF AddressesInv, AddressesTypeOK
<1> HIDE DEF r
<1> QED BY <1>1, <1>2, <1>3, <1>4, ProceedKeeps

\* What a request knows of itself while it is at its statements.
LEMMA AtWork ==
  ASSUME AddressesInv, NEW d \in Device, tx[d].step \in {"clear", "cleared", "write", "commit"}
  PROVE  /\ tx[d] \in Transactions /\ tx[d].op \in {"create", "update"}
         /\ tx[d].target \in entered /\ tx[d].target \in Address /\ entered \subseteq Address
         /\ tx[d].step \in {"clear", "cleared"} => tx[d].flag /\ tx[d].cleared = {}
         /\ tx[d].cleared # {} => tx[d].flag
         /\ tx[d].cleared \subseteq default
         /\ tx[d].op = "update" => tx[d].target \in list[d].rows
         /\ tx[d].op = "create" =>
              /\ tx[d].target \notin exists
              /\ \A e \in Device \ {d} : Creates(e) => tx[e].target # tx[d].target
<1>1. TxShape(d) /\ AddressesTypeOK /\ Fresh
  BY DEF AddressesInv
<1> QED BY <1>1 DEF TxShape, AddressesTypeOK, Fresh, Creates

LEMMA FindDefaultKeeps ==
  ASSUME AddressesInv, NEW d \in Device, FindDefault(d)
  PROVE  AddressesInv'
<1> DEFINE t == tx[d]
           set == TxRow(t.op, t.step, t.target, t.flag, default, t.cleared)
           r == TxRow(t.op, "cleared", t.target, t.flag, default, t.cleared)
<1>1. t.step = "clear" /\ tx' = [tx EXCEPT ![d].seen = default, ![d].step = "cleared"]
      /\ UNCHANGED <<exists, default, entered, list, chosen>>
  BY DEF FindDefault, TxAt
<1>2. t \in Transactions /\ default \subseteq Address
  BY DEF AddressesInv, AddressesTypeOK
<1>3. [t EXCEPT !.seen = default] = set
  BY <1>2 DEF Transactions, TxRow
<1>4. Becomes(d, r)
  <2>1. [set EXCEPT !.step = "cleared"] = r
    BY DEF TxRow
  <2>2. tx' = [[tx EXCEPT ![d] = set] EXCEPT ![d].step = "cleared"]
    BY <1>1, <1>3, Zenon
  <2>3. tx' = [tx EXCEPT ![d] = [set EXCEPT !.step = "cleared"]]
    BY <2>2 DEF AddressesInv, AddressesTypeOK
  <2> QED BY <2>1, <2>3 DEF Becomes, AddressesInv, AddressesTypeOK
<1>5. /\ r \in Transactions /\ r.op = t.op /\ r.step = "cleared" /\ r.target = t.target
      /\ r.flag = t.flag /\ r.cleared = t.cleared
  BY <1>2 DEF TxRow, Transactions
<1> HIDE DEF r
<1> QED BY <1>1, <1>4, <1>5, AtWork, ProceedKeeps

LEMMA ClearExistingDefaultKeeps ==
  ASSUME AddressesInv, NEW d \in Device, ClearExistingDefault(d)
  PROVE  AddressesInv'
<1> DEFINE t == tx[d]
           set == TxRow(t.op, t.step, t.target, t.flag, t.seen, t.seen \intersect default)
           r == TxRow(t.op, "write", t.target, t.flag, t.seen, t.seen \intersect default)
<1>1. /\ t.step = "cleared" /\ t.seen \intersect LockedByOthers(d) = {}
      /\ tx' = [tx EXCEPT ![d].cleared = t.seen \intersect default, ![d].step = "write"]
      /\ UNCHANGED <<exists, default, entered, list, chosen>>
  BY DEF ClearExistingDefault, TxAt
<1>2. t \in Transactions /\ default \subseteq Address
  BY DEF AddressesInv, AddressesTypeOK
<1>3. [t EXCEPT !.cleared = t.seen \intersect default] = set
  BY <1>2 DEF Transactions, TxRow
<1>4. Becomes(d, r)
  <2>1. [set EXCEPT !.step = "write"] = r
    BY DEF TxRow
  <2>2. tx' = [[tx EXCEPT ![d] = set] EXCEPT ![d].step = "write"]
    BY <1>1, <1>3, Zenon
  <2>3. tx' = [tx EXCEPT ![d] = [set EXCEPT !.step = "write"]]
    BY <2>2 DEF AddressesInv, AddressesTypeOK
  <2> QED BY <2>1, <2>3 DEF Becomes, AddressesInv, AddressesTypeOK
<1>5. /\ r \in Transactions /\ r.op = t.op /\ r.step = "write" /\ r.target = t.target
      /\ r.flag = t.flag /\ r.cleared = t.seen \intersect default
  BY <1>2 DEF TxRow, Transactions
<1> HIDE DEF r
<1> QED BY <1>1, <1>4, <1>5, AtWork, ProceedKeeps

LEMMA WriteAddressKeeps ==
  ASSUME AddressesInv, NEW d \in Device, WriteAddress(d)
  PROVE  AddressesInv'
<1> DEFINE t == tx[d]
           r(step) == TxRow(t.op, step, t.target, t.flag, t.seen, t.cleared)
<1>1. /\ t.step = "write" /\ t.target \notin LockedByOthers(d)
      /\ t.flag => \A e \in Device \ {d} : ~WritesDefault(e)
      /\ UNCHANGED <<exists, default, entered, list, chosen>>
  BY DEF WriteAddress, TxAt
<1>2. t \in Transactions
  BY DEF AddressesInv, AddressesTypeOK
<1>3. CASE TxGoTo(d, "failed")
  <2>1. Becomes(d, r("failed"))
    BY <1>3, TxGoToBecomes DEF AddressesInv
  <2>2. /\ r("failed") \in Transactions /\ r("failed").op = t.op /\ r("failed").step = "failed"
        /\ r("failed").target = t.target /\ r("failed").flag = t.flag
        /\ r("failed").cleared = t.cleared
    BY <1>2 DEF TxRow, Transactions
  <2> HIDE DEF r
  <2> QED BY <1>1, <2>1, <2>2, AtWork, MovesKeep
<1>4. CASE /\ TxGoTo(d, "commit") /\ ~IndexRefuses(d)
           /\ t.op = "update" => t.target \in exists
  <2>1. Becomes(d, r("commit"))
    BY <1>4, TxGoToBecomes DEF AddressesInv
  <2>2. /\ r("commit") \in Transactions /\ r("commit").op = t.op /\ r("commit").step = "commit"
        /\ r("commit").target = t.target /\ r("commit").flag = t.flag
        /\ r("commit").cleared = t.cleared
    BY <1>2 DEF TxRow, Transactions
  <2> HIDE DEF r
  <2>3. tx'[d] = r("commit") /\ \A e \in Device : e # d => tx'[e] = tx[e]
    BY <2>1, OthersKeep
  <2>4. AddressesTypeOK'
    BY <1>1, <2>1, <2>2 DEF AddressesInv, AddressesTypeOK, Becomes
  <2>5. ASSUME NEW e \in Device PROVE TxShape(e)'
    <3>1. TxShape(e)
      BY DEF AddressesInv
    <3> QED BY <1>1, <1>4, <2>2, <2>3, <3>1, AtWork DEF TxShape
  <2>6. Fresh'
    <3>1. \A e \in Device : (Creates(e)' <=> Creates(e)) /\ tx'[e].target = tx[e].target
      BY <1>1, <2>2, <2>3 DEF Creates
    <3> QED BY <1>1, <3>1 DEF AddressesInv, Fresh
  <2>7. Locked(d)' \subseteq Locked(d) \union {t.target}
    BY <1>1, <2>2, <2>3 DEF Locked, TxAt
  <2>8. \A e, f \in Device : e # f => Locked(e)' \intersect Locked(f)' = {}
    BY <1>1, <2>1, <2>7, OthersKeep DEF AddressesInv, Excluded, LockedByOthers
  <2>9. t.flag => default \subseteq t.cleared \union {t.target}
    BY <1>4 DEF IndexRefuses
  <2>10. Excluded'
    <3>1. WritesDefault(d)' => t.flag
      BY <2>2, <2>3 DEF WritesDefault
    <3>2. \A e \in Device : e # d => (WritesDefault(e)' <=> WritesDefault(e))
      BY <2>1, OthersKeep
    <3> QED BY <1>1, <2>2, <2>3, <2>8, <2>9, <3>1, <3>2 DEF AddressesInv, Excluded
  <2>11. Chosen'
    BY <1>1 DEF AddressesInv, Chosen
  <2> QED BY <2>4, <2>5, <2>6, <2>10, <2>11 DEF AddressesInv
<1> QED BY <1>3, <1>4 DEF WriteAddress

\* The rows change under the other requests by what one of them may write.
LEMMA CommitAddressKeeps ==
  ASSUME AddressesInv, NEW d \in Device, CommitAddress(d)
  PROVE  AddressesInv'
<1> DEFINE t == tx[d]
           a == t.target
           r == TxRow(t.op, "answer", a, t.flag, t.seen, {})
           set == TxRow(t.op, t.step, a, t.flag, t.seen, {})
           others == default \ (t.cleared \union {a})
<1>1. /\ t.step = "commit" /\ exists' = exists \union {a}
      /\ default' = IF t.flag THEN others \union {a} ELSE others
      /\ chosen' = IF t.flag THEN TRUE ELSE chosen /\ a \notin default
      /\ tx' = [tx EXCEPT ![d].cleared = {}, ![d].step = "answer"]
      /\ UNCHANGED <<entered, list>>
  BY DEF CommitAddress, TxAt
<1>2. t \in Transactions
  BY DEF AddressesInv, AddressesTypeOK
<1>3. [t EXCEPT !.cleared = {}] = set
  BY <1>2 DEF Transactions, TxRow
<1>4. Becomes(d, r)
  <2>1. [set EXCEPT !.step = "answer"] = r
    BY DEF TxRow
  <2>2. tx' = [[tx EXCEPT ![d] = set] EXCEPT ![d].step = "answer"]
    BY <1>1, <1>3, Zenon
  <2>3. tx' = [tx EXCEPT ![d] = [set EXCEPT !.step = "answer"]]
    BY <2>2 DEF AddressesInv, AddressesTypeOK
  <2> QED BY <2>1, <2>3 DEF Becomes, AddressesInv, AddressesTypeOK
<1>5. /\ r \in Transactions /\ r.op = t.op /\ r.step = "answer" /\ r.target = a
      /\ r.cleared = {}
  BY <1>2 DEF TxRow, Transactions
<1> HIDE DEF r
<1>6. tx'[d] = r /\ \A e \in Device : e # d => tx'[e] = tx[e]
  BY <1>4, OthersKeep
<1>7. a \in entered /\ a \in Address /\ (t.flag => WritesDefault(d)) /\ (~t.flag => t.cleared = {})
  BY <1>1, AtWork DEF WritesDefault, TxAt
<1>8. t.flag => default' = {a}
  BY <1>1, <1>7 DEF AddressesInv, Excluded
<1>9. ~t.flag => default' = default \ {a}
  BY <1>1, <1>7
<1>r. t.step = "commit" /\ exists' = exists \union {a} /\ UNCHANGED <<entered, list>>
  BY <1>1
\* Another's rows are not touched: it holds them, or they do not exist yet.
<1>10. ASSUME NEW e \in Device, e # d
       PROVE  tx[e].cleared \subseteq default'
  <2>1. tx[e].cleared \subseteq default /\ tx[e].cleared \subseteq Locked(e) /\ t.cleared \subseteq Locked(d)
    BY DEF AddressesInv, AddressesTypeOK, Locked
  <2>2. Locked(d) \intersect Locked(e) = {}
    BY <1>10 DEF AddressesInv, Excluded
  <2>3. a \notin tx[e].cleared
    <3>1. CASE t.op = "update"
      BY <1>1, <2>1, <2>2, <3>1 DEF Locked, TxAt
    <3>2. CASE t.op = "create"
      BY <1>1, <2>1, <3>2, AtWork DEF AddressesInv, AddressesTypeOK
    <3> QED BY <1>1, <3>1, <3>2, AtWork
  <2> QED BY <1>1, <2>1, <2>2, <2>3
<1>11. AddressesTypeOK'
  <2>1. /\ exists' \subseteq entered' /\ default' \subseteq exists' /\ entered' \subseteq Address
        /\ list' \in [Device -> Lists]
        /\ chosen' \in BOOLEAN
    BY <1>1, <1>7 DEF AddressesInv, AddressesTypeOK
  <2>2. tx' \in [Device -> Transactions]
    BY <1>4, <1>5 DEF AddressesInv, AddressesTypeOK, Becomes
  <2>3. ASSUME NEW e \in Device
        PROVE  /\ tx'[e].cleared \subseteq default'
               /\ list'[e].default \subseteq list'[e].rows /\ list'[e].rows \subseteq entered'
    BY <1>1, <1>5, <1>6, <1>10 DEF AddressesInv, AddressesTypeOK
  <2> QED BY <2>1, <2>2, <2>3 DEF AddressesTypeOK
<1>12. ASSUME NEW e \in Device PROVE TxShape(e)'
  <2>1. TxShape(e)
    BY DEF AddressesInv
  <2>2. CASE e = d
    <3>1. /\ tx'[e] = r /\ t.op \in {"create", "update"}
          /\ t.op = "update" => a \in list[d].rows
      BY <1>r, <1>6, <2>2, AtWork
    <3> QED BY <1>r, <1>5, <1>7, <2>2, <3>1 DEF TxShape
  <2>3. CASE e # d
    BY <1>r, <1>6, <2>1, <2>3 DEF TxShape
  <2> QED BY <2>2, <2>3
<1>13. Fresh'
  <2>1. ~Creates(d)' /\ \A e \in Device : e # d => (Creates(e)' <=> Creates(e))
    BY <1>5, <1>6 DEF Creates
  <2>2. ASSUME NEW e \in Device, e # d, Creates(e)
        PROVE  tx[e].target # a
    <3>1. CASE t.op = "update"
      <4>1. a \in exists
        BY <1>r, <3>1 DEF AddressesInv, TxShape
      <4> QED BY <2>2, <4>1 DEF AddressesInv, Fresh
    <3>2. CASE t.op = "create"
      BY <1>r, <2>2, <3>2, AtWork
    <3> QED BY <1>r, <3>1, <3>2, AtWork
  <2>3. \A e \in Device : Creates(e)' => /\ e # d /\ Creates(e) /\ tx'[e].target = tx[e].target
                                        /\ tx[e].target \notin exists
    BY <1>6, <2>1 DEF AddressesInv, Fresh
  <2> QED BY <1>r, <2>2, <2>3 DEF AddressesInv, Fresh
<1>14. Excluded'
  <2>1. ~WritesDefault(d)' /\ Locked(d)' = {}
    BY <1>5, <1>6 DEF WritesDefault, Locked, TxAt
  <2>2. \A e \in Device : e # d => (WritesDefault(e)' <=> WritesDefault(e)) /\ Locked(e)' = Locked(e)
    BY <1>4, OthersKeep
  <2>3. \A e \in Device : WritesDefault(e)' => default' \subseteq tx'[e].cleared \union {tx'[e].target}
    <3>1. ASSUME NEW e \in Device, e # d, WritesDefault(e)
          PROVE  ~t.flag
      BY <1>7, <3>1 DEF AddressesInv, Excluded
    <3> QED BY <1>6, <1>9, <2>1, <2>2, <3>1 DEF AddressesInv, Excluded
  <2>4. \A e, f \in Device : e # f => Locked(e)' \intersect Locked(f)' = {}
    BY <2>1, <2>2 DEF AddressesInv, Excluded
  <2>5. \A e, f \in Device : WritesDefault(e)' /\ WritesDefault(f)' => e = f
    BY <2>1, <2>2 DEF AddressesInv, Excluded
  <2> QED BY <2>3, <2>4, <2>5 DEF Excluded
<1>15. Chosen'
  <2>1. CASE t.flag
    BY <1>1, <1>8, <2>1 DEF Chosen
  <2>2. CASE ~t.flag
    BY <1>1, <1>9, <2>2 DEF AddressesInv, AddressesTypeOK, Chosen
  <2> QED BY <2>1, <2>2
<1> QED BY <1>11, <1>12, <1>13, <1>14, <1>15 DEF AddressesInv

LEMMA RemoveAddressKeeps ==
  ASSUME AddressesInv, NEW d \in Device, NEW a \in Address, RemoveAddress(d, a)
  PROVE  AddressesInv'
<1> DEFINE r == TxRow("remove", IF a \in exists THEN "answer" ELSE "failed", a, FALSE, {}, {})
<1>1. /\ a \in list[d].rows /\ a \notin LockedByOthers(d)
      /\ exists' = exists \ {a} /\ default' = default \ {a}
      /\ chosen' = (chosen /\ a \notin default)
      /\ UNCHANGED <<entered, list>>
  BY DEF RemoveAddress
<1>2. tx[d] = NoTx /\ Becomes(d, r)
  BY AskBecomes DEF RemoveAddress, AddressesInv
<1>3. /\ r \in Transactions /\ r.op = "remove" /\ r.target = a /\ r.cleared = {}
      /\ r.step \in {"answer", "failed"}
  BY DEF TxRow, Transactions
<1> HIDE DEF r
<1>4. tx'[d] = r /\ \A e \in Device : e # d => tx'[e] = tx[e]
  BY <1>2, OthersKeep
<1>5. a \in entered
  BY <1>1 DEF AddressesInv, AddressesTypeOK
<1>6. \A e \in Device : e # d => a \notin Locked(e)
  BY <1>1 DEF LockedByOthers
<1>7. AddressesTypeOK'
  <2>1. /\ exists' \subseteq entered' /\ default' \subseteq exists' /\ entered' \subseteq Address
        /\ list' \in [Device -> Lists] /\ chosen' \in BOOLEAN
    BY <1>1 DEF AddressesInv, AddressesTypeOK
  <2>2. tx' \in [Device -> Transactions]
    BY <1>2, <1>3 DEF AddressesInv, AddressesTypeOK, Becomes
  <2>3. ASSUME NEW e \in Device PROVE tx'[e].cleared \subseteq default'
    <3>1. CASE e = d
      BY <1>3, <1>4, <3>1
    <3>2. CASE e # d
      BY <1>1, <1>4, <1>6, <3>2 DEF AddressesInv, AddressesTypeOK, Locked
    <3> QED BY <3>1, <3>2
  <2>4. \A e \in Device : /\ list'[e].default \subseteq list'[e].rows
                          /\ list'[e].rows \subseteq entered'
    BY <1>1 DEF AddressesInv, AddressesTypeOK
  <2> QED BY <2>1, <2>2, <2>3, <2>4 DEF AddressesTypeOK
<1>8. ASSUME NEW e \in Device PROVE TxShape(e)'
  <2>1. TxShape(e)
    BY DEF AddressesInv
  <2>2. e # d /\ tx[e].op = "update" /\ tx[e].step = "commit" => tx[e].target # a
    BY <1>6 DEF Locked, TxAt
  <2> QED BY <1>1, <1>3, <1>4, <1>5, <2>1, <2>2 DEF TxShape
<1>9. Fresh'
  <2>1. ~Creates(d)' /\ \A e \in Device : e # d => (Creates(e)' <=> Creates(e))
    BY <1>3, <1>4 DEF Creates
  <2> QED BY <1>1, <1>4, <2>1 DEF AddressesInv, Fresh
<1>10. Excluded'
  <2>1. ~WritesDefault(d)' /\ Locked(d)' = {}
    BY <1>3, <1>4 DEF WritesDefault, Locked, TxAt
  <2>2. \A e \in Device : e # d => (WritesDefault(e)' <=> WritesDefault(e)) /\ Locked(e)' = Locked(e)
    BY <1>2, OthersKeep
  <2> QED BY <1>1, <1>4, <2>1, <2>2 DEF AddressesInv, Excluded
<1>11. Chosen'
  BY <1>1 DEF AddressesInv, AddressesTypeOK, Chosen
<1> QED BY <1>7, <1>8, <1>9, <1>10, <1>11 DEF AddressesInv

\* The answer changes the page and ends the request.
LEMMA AddressAnsweredKeeps ==
  ASSUME AddressesInv, NEW d \in Device, AddressAnswered(d)
  PROVE  AddressesInv'
<1>1. /\ tx[d].step = "answer" /\ list' = [list EXCEPT ![d] = Shown(d)]
      /\ tx' = [tx EXCEPT ![d] = NoTx]
      /\ UNCHANGED <<exists, default, entered, chosen>>
  BY DEF AddressAnswered, TxAt
<1>2. Becomes(d, NoTx)
  BY <1>1 DEF Becomes, AddressesInv, AddressesTypeOK
<1>3. tx'[d] = NoTx /\ \A e \in Device : e # d => tx'[e] = tx[e]
  BY <1>2, OthersKeep
<1>4. /\ list[d] \in Lists /\ tx[d] \in Transactions /\ tx[d].target \in entered
      /\ list[d].default \subseteq list[d].rows /\ list[d].rows \subseteq entered
      /\ entered \subseteq Address
      /\ tx[d].op \in {"create", "update", "remove"}
      /\ tx[d].op = "update" => tx[d].target \in list[d].rows
  BY <1>1 DEF AddressesInv, AddressesTypeOK, TxShape, Transactions
<1>5. /\ Shown(d) \in Lists
      /\ Shown(d).default \subseteq Shown(d).rows /\ Shown(d).rows \subseteq entered
  <2>1. CASE tx[d].op = "create"
    BY <1>4, <2>1 DEF Shown, Lists
  <2>2. CASE tx[d].op = "update"
    BY <1>4, <2>2 DEF Shown, Lists
  <2>3. CASE tx[d].op = "remove"
    BY <1>4, <2>3 DEF Shown, Lists
  <2> QED BY <1>4, <2>1, <2>2, <2>3
<1>6. NoTx.op = "none" /\ NoTx.step = "none" /\ NoTx.cleared = {}
  BY DEF NoTx
<1>7. AddressesTypeOK'
  <2>1. tx' \in [Device -> Transactions] /\ list' \in [Device -> Lists]
    BY <1>1, <1>5, NoTxType DEF AddressesInv, AddressesTypeOK
  <2>2. ASSUME NEW e \in Device
        PROVE  /\ tx'[e].cleared \subseteq default'
               /\ list'[e].default \subseteq list'[e].rows /\ list'[e].rows \subseteq entered'
    BY <1>1, <1>3, <1>5, <1>6 DEF AddressesInv, AddressesTypeOK
  <2> QED BY <1>1, <2>1, <2>2 DEF AddressesInv, AddressesTypeOK
<1>8. ASSUME NEW e \in Device PROVE TxShape(e)'
  <2>1. TxShape(e)
    BY DEF AddressesInv
  <2>2. CASE e = d
    BY <1>3, <1>6, <2>2 DEF TxShape
  <2>3. CASE e # d
    BY <1>1, <1>3, <2>1, <2>3 DEF TxShape, AddressesInv, AddressesTypeOK
  <2> QED BY <2>2, <2>3
<1>9. (Fresh /\ Excluded /\ Chosen)'
  <2>1. ~WritesDefault(d)' /\ ~Creates(d)' /\ Locked(d)' = {}
    BY <1>3, <1>6 DEF WritesDefault, Creates, Locked, TxAt
  <2>2. \A e \in Device : e # d => (WritesDefault(e)' <=> WritesDefault(e)) /\ Locked(e)' = Locked(e)
                                    /\ (Creates(e)' <=> Creates(e))
    BY <1>2, OthersKeep
  <2>3. Fresh' /\ Chosen'
    BY <1>1, <1>3, <2>1, <2>2 DEF AddressesInv, Fresh, Chosen
  <2>4. Excluded'
    BY <1>1, <1>3, <2>1, <2>2 DEF AddressesInv, Excluded
  <2> QED BY <2>3, <2>4
<1> QED BY <1>7, <1>8, <1>9 DEF AddressesInv

LEMMA EndsKeep ==
  ASSUME AddressesInv, NEW d \in Device, AddressFailed(d) \/ AddressDies(d)
  PROVE  AddressesInv'
<1>1. tx' = [tx EXCEPT ![d] = NoTx] /\ UNCHANGED <<exists, default, entered, list, chosen>>
  BY DEF AddressFailed, AddressDies
<1>2. Becomes(d, NoTx)
  BY <1>1 DEF Becomes, AddressesInv, AddressesTypeOK
<1>3. NoTx.op = "none" /\ NoTx.step = "none" /\ NoTx.cleared = {}
  BY DEF NoTx
<1> QED BY <1>1, <1>2, <1>3, NoTxType, MovesKeep
-----------------------------------------------------------------------------
(* The theorems *)

\* The inductive invariant: the row locks and the index keep the transactions of
\* several devices apart.
THEOREM AddressesInvariant == AddressesSpec => []AddressesInv
<1>1. AddressesInv /\ [AddressesNext]_addressVars => AddressesInv'
  <2> SUFFICES ASSUME AddressesInv, [AddressesNext]_addressVars PROVE AddressesInv'
    OBVIOUS
  <2>1. ASSUME NEW d \in Device, AddressesPage(d) PROVE AddressesInv'
    <3>1. ASSUME NEW a \in Address, NEW flag \in BOOLEAN,
                 CreateAddress(d, a, flag) \/ UpdateAddress(d, a, flag)
          PROVE  AddressesInv'
      BY <3>1, CreateAddressKeeps, UpdateAddressKeeps
    <3>2. ASSUME NEW a \in Address, RemoveAddress(d, a) PROVE AddressesInv'
      BY <3>2, RemoveAddressKeeps
    <3>3. CASE List(d) \/ AddressAnswered(d) \/ AddressFailed(d)
      BY <3>3, ListKeeps, AddressAnsweredKeeps, EndsKeep
    <3> QED BY <2>1, <3>1, <3>2, <3>3 DEF AddressesPage
  <2>2. ASSUME NEW d \in Device,
               FindDefault(d) \/ ClearExistingDefault(d) \/ WriteAddress(d) \/ CommitAddress(d)
        PROVE  AddressesInv'
    BY <2>2, FindDefaultKeeps, ClearExistingDefaultKeeps, WriteAddressKeeps, CommitAddressKeeps
  <2>3. ASSUME NEW d \in Device, AddressDies(d) PROVE AddressesInv'
    BY <2>3, EndsKeep
  <2>4. CASE UNCHANGED addressVars
    <3> USE <2>4 DEF addressVars, AddressesInv
    <3>1. AddressesTypeOK'
      BY DEF AddressesTypeOK
    <3>2. ASSUME NEW d \in Device PROVE TxShape(d)'
      BY DEF TxShape
    <3>3. (Fresh /\ Chosen)'
      BY DEF Fresh, Creates, Chosen
    <3>4. Excluded'
      BY DEF Excluded, Locked, WritesDefault, TxAt
    <3> QED BY <3>1, <3>2, <3>3, <3>4
  <2> QED BY <2>1, <2>2, <2>3, <2>4 DEF AddressesNext
<1> QED BY <1>1, InitAddresses, PTL DEF AddressesSpec

\* Rows, requests and pages have their types, a default is a row, and a
\* transaction clears only defaults that still are.
THEOREM AddressesTypes == AddressesSpec => []AddressesTypeOK
<1>1. AddressesInv => AddressesTypeOK
  BY DEF AddressesInv
<1> QED BY <1>1, AddressesInvariant, PTL

\* A customer who chose a default has one, and only one, however many devices
\* choose, edit, delete and fail at once.
THEOREM DefaultStandsHolds == AddressesSpec => []DefaultStands
<1>1. ASSUME AddressesInv PROVE DefaultStands
  <2>1. CASE chosen
    <3>1. PICK a \in default : default = {a}
      BY <1>1, <2>1 DEF AddressesInv, Chosen
    <3>2. Cardinality({a}) = 1
      BY FS_Singleton
    <3> QED BY <2>1, <3>1, <3>2 DEF DefaultStands
  <2>2. CASE ~chosen
    <3>1. default = {}
      BY <1>1, <2>2 DEF AddressesInv, Chosen
    <3> QED BY <2>2, <3>1, FS_EmptySet DEF DefaultStands
  <2> QED BY <2>1, <2>2
<1>2. AddressesInv => DefaultStands
  BY <1>1
<1> QED BY <1>2, AddressesInvariant, PTL
=============================================================================
